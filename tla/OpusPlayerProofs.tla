-------------------------- MODULE OpusPlayerProofs --------------------------
(***************************************************************************)
(* Proofs about OpusPlayer, for every muxed stream, size of the decoding   *)
(* buffer, and sequence of reads and seeks.                                *)
(*                                                                         *)
(* The properties speak of the sound since the start or the last seek.     *)
(* What makes them hold is where the player is (Straight): what is left in *)
(* its buffer goes on from the position it counts, and the next packet     *)
(* goes on from there.                                                     *)
(***************************************************************************)
EXTENDS OpusPlayer, WellFoundedInduction, TLAPS

AudioPacket == [from: Nat, n: 1..Cap, first: Nat, granule: Nat, valid: BOOLEAN,
                eos: BOOLEAN, state: {"ok", "refused", "lost"}]

(* Frames of a buffer of len values from pos on. *)
Left(len, pos) == IF pos < len THEN (len - pos) \div Channels ELSE 0

(* The packet that is decoded next. *)
Upcoming == IF call.packet = 0 THEN cursor ELSE call.packet

Calls == [op: {"idle", "read", "packet", "skip"}, packet: 0..Len(Packets), want: Nat, got: Nat]

(* A buffer and a place in it, in values of whole frames. *)
Whole(len, pos) ==
    /\ len \in Nat /\ pos \in Nat
    /\ len % Channels = 0 /\ pos % Channels = 0

CallTyped ==
    /\ call \in Calls
    /\ call.op # "idle" => call.got < call.want /\ call.want % 2 = 0 /\ call.got % 2 = 0
    /\ call.packet # 0 => Busy /\ cursor = call.packet + 1 /\ position >= blen
    /\ call.op = "idle" => call = Idle

Typed ==
    /\ stream \in Streams
    /\ cursor \in 1..(Len(Packets) + 1)
    /\ store \in Seq(Int) /\ Len(store) \in {0, Cap}
    /\ Whole(blen, position) /\ blen <= Len(store) * Channels /\ position <= Cap * Channels
    /\ preskipRemaining \in 0..PreSkip
    /\ totalSamples \in Int
    /\ cachedTotal \in [known: BOOLEAN, ok: BOOLEAN, value: Int]
    /\ CallTyped
    /\ heard \in Seq(Int) /\ base \in Nat /\ Len(heard) % Channels = 0
    /\ undisturbed \in BOOLEAN /\ finished \in BOOLEAN /\ sought \in BOOLEAN

(* The position counted is that of what was heard, or still to be skipped. *)
Counted ==
    IF call.op = "skip"
    THEN heard = <<>> /\ 2 * totalSamples + (call.want - call.got) = 2 * base
    ELSE totalSamples = base + Len(heard) \div Channels

(* With rem frames of pre-skip to come nothing was heard and the next      *)
(* packet nxt is still in the pre-skip.  Later the buffer buf, of len      *)
(* values from pos on, holds what comes after the position counted, and    *)
(* the next packet goes on from there.                                     *)
Waits(len, pos, rem, nxt) ==
    /\ totalSamples = 0 /\ heard = <<>> /\ base = 0 /\ call.op # "skip"
    /\ Left(len, pos) = 0
    /\ nxt <= Len(Packets) => Packets[nxt].from + rem = PreSkip
GoesOn(buf, len, pos, nxt) ==
    /\ \A j \in 0..(Left(len, pos) - 1) : buf[pos \div Channels + 1 + j] = PreSkip + totalSamples + j
    /\ nxt <= Len(Packets) => PreSkip + totalSamples + Left(len, pos) = Packets[nxt].from
Placed(buf, len, pos, rem, nxt) ==
    /\ rem > 0 => Waits(len, pos, rem, nxt)
    /\ rem = 0 => GoesOn(buf, len, pos, nxt)

HeardRight == \A i \in DOMAIN heard : heard[i] = base + PreSkip + (i - 1) \div Channels

Straight == Placed(store, blen, position, preskipRemaining, Upcoming) /\ HeardRight

(* What is left of a stream whose last packet is decoded. *)
Ends(len, pos, rem, nxt) ==
    ~ DropsPackets /\ nxt > Len(Packets) =>
        rem = 0 /\ PreSkip + totalSamples + Left(len, pos) = LastGranule

ToTheEnd == Ends(blen, position, preskipRemaining, Upcoming)

PInv ==
    /\ Typed
    /\ undisturbed =>
         /\ Counted
         /\ ~ PageEndsInPreSkip => Straight /\ ToTheEnd
         /\ call = Idle /\ result.err = "eof" => cursor > Len(Packets) /\ Empty
         /\ ~ sought /\ finished => cursor > Len(Packets)

----------------------------------------------------------------------------
(* A set of natural numbers has a least member.                            *)
Less == OpToRel(<, Nat)

LEMMA LessMeans ==
    ASSUME NEW x \in Nat, NEW y \in Nat
    PROVE  <<x, y>> \in Less <=> x < y
  BY DEF Less, OpToRel

LEMMA LessWellFounded == IsWellFoundedOn(Less, Nat)
  BY NatLessThanWellFounded, Zenon DEF Less

LEMMA LeastOf ==
    ASSUME NEW T, T \subseteq Nat, T # {}
    PROVE  \E x \in T : \A y \in T : x <= y
<1>1. PICK x \in T : \A y \in T : ~ (<<y, x>> \in Less)
  BY LessWellFounded, WFMin, Zenon
<1>2. \A y \in T : y \in Nat /\ x \in Nat /\ ~ (y < x)
  BY <1>1, LessMeans
<1> QED BY <1>2

(* Whole frames of one or two values. *)
LEMMA WholeFrames ==
    ASSUME NEW c \in {1, 2}, NEW a \in Nat, a % c = 0
    PROVE  /\ a \div c \in Nat /\ a = (a \div c) * c
           /\ \A b \in Nat : (a + b) \div c = a \div c + b \div c
<1>1. CASE c = 1
  BY <1>1
<1>2. CASE c = 2
  BY <1>2
<1> QED BY <1>1, <1>2

LEMMA MinOfTwo ==
    ASSUME NEW a \in Int, NEW b \in Int
    PROVE  /\ Min({a, b}) = IF a <= b THEN a ELSE b
           /\ Max({a, b}) = IF a <= b THEN b ELSE a
<1>1. Min({a, b}) \in {a, b} /\ \A y \in {a, b} : Min({a, b}) <= y
  <2>1. \E x \in {a, b} : \A y \in {a, b} : x <= y
    OBVIOUS
  <2> QED BY <2>1, Zenon DEF Min
<1>2. Max({a, b}) \in {a, b} /\ \A y \in {a, b} : Max({a, b}) >= y
  <2>1. \E x \in {a, b} : \A y \in {a, b} : x >= y
    OBVIOUS
  <2> QED BY <2>1, Zenon DEF Max
<1> HIDE DEF Min, Max
<1> QED BY <1>1, <1>2

LEMMA NotBelowZero ==
    ASSUME NEW b \in Int
    PROVE  Max({0, b}) \in Nat
<1>1. Max({0, b}) = IF 0 <= b THEN b ELSE 0
  BY MinOfTwo
<1> QED BY <1>1

LEMMA StreamFacts ==
    ASSUME stream \in Streams
    PROVE  /\ Channels \in {1, 2} /\ PreSkip \in Nat /\ Cap \in Nat \ {0}
           /\ Packets \in Seq(AudioPacket) /\ Packets # <<>> /\ Len(Packets) \in Nat \ {0}
           /\ \A k \in 1..Len(Packets) : Packets[k] \in AudioPacket
  <1>1. /\ Channels \in {1, 2} /\ PreSkip \in Nat /\ Cap \in Nat \ {0}
        /\ Packets \in Seq(AudioPacket) /\ Packets # <<>>
    BY PlayerConstants DEF Channels, PreSkip, Packets, AudioPacket, Muxed
  <1> HIDE DEF Packets, AudioPacket
  <1> QED BY <1>1

LEMMA PacketFacts ==
    ASSUME stream \in Streams, NEW k \in 1..Len(Packets)
    PROVE  LET p    == Packets[k]
               last == k = Len(Packets)
           IN  /\ p.from \in Nat /\ p.n \in 1..Cap /\ p.granule \in Nat /\ p.first \in Nat
               /\ p.valid \in BOOLEAN /\ p.eos \in BOOLEAN
               /\ p.from = IF k = 1 THEN 0 ELSE Packets[k - 1].from + Packets[k - 1].n
               /\ p.first \in 1..k /\ (p.first > 1 => Packets[p.first - 1].valid)
               /\ last => p.valid /\ p.granule <= p.from + p.n
               /\ ~ last => ~ p.eos /\ (p.valid => p.granule = p.from + p.n)
<1>1. Packets[k] \in AudioPacket /\ DOMAIN Packets = 1..Len(Packets)
  BY StreamFacts
<1>2. Muxed(Packets)
  BY PlayerConstants DEF Packets
<1> HIDE DEF Packets
<1>3. k \in DOMAIN Packets
  BY <1>1
<1>4. /\ Packets[k].from \in Nat /\ Packets[k].n \in 1..Cap /\ Packets[k].granule \in Nat
      /\ Packets[k].first \in Nat /\ Packets[k].valid \in BOOLEAN /\ Packets[k].eos \in BOOLEAN
  BY <1>1 DEF AudioPacket
<1> QED BY <1>2, <1>3, <1>4, Zenon DEF Muxed

----------------------------------------------------------------------------
(* Rendering: what is written, in frames.                                  *)
Frames(len, pos) == FramesCounted(Count(len, pos))

(* A call that is under way. *)
Under ==
    /\ stream \in Streams
    /\ call \in Calls /\ call.op # "idle"
    /\ call.got < call.want /\ call.want % 2 = 0 /\ call.got % 2 = 0

LEMMA CallFacts ==
    ASSUME Under
    PROVE  /\ call.want \in Nat /\ call.got \in Nat /\ call.got < call.want
           /\ call.want % 2 = 0 /\ call.got % 2 = 0
           /\ call.packet \in Nat /\ call.op \in {"read", "packet", "skip"}
<1> QED BY StreamFacts DEF Under, Calls

LEMMA EvenDifference ==
    ASSUME NEW a \in Nat, NEW b \in Nat, a % 2 = 0, b % 2 = 0
    PROVE  \E d \in Int : a - b = 2 * d
<1>1. PICK x \in Int, y \in Int : a = 2 * x /\ b = 2 * y
  OBVIOUS
<1>2. x - y \in Int /\ a - b = 2 * (x - y)
  BY <1>1
<1> QED BY <1>2

LEMMA FramesFacts ==
    ASSUME Under, NEW len, NEW pos, Whole(len, pos)
    PROVE  /\ Frames(len, pos) \in Nat
           /\ Count(len, pos) = Frames(len, pos) * Channels
           /\ Count(len, pos) * Width = 2 * Frames(len, pos)
           /\ Left(len, pos) \in Nat /\ Frames(len, pos) <= Left(len, pos)
           /\ call.got + 2 * Frames(len, pos) <= call.want
           /\ call.got + 2 * Frames(len, pos) = call.want \/ Frames(len, pos) = Left(len, pos)
<1>1. /\ call.want \in Nat /\ call.got \in Nat /\ call.got < call.want
      /\ call.want % 2 = 0 /\ call.got % 2 = 0
  BY CallFacts
<1>2. len \in Nat /\ pos \in Nat /\ len % Channels = 0 /\ pos % Channels = 0
  BY DEF Whole
<1>3. Channels \in {1, 2}
  BY StreamFacts DEF Under
<1> DEFINE a == (call.want - call.got) \div Width
           b == len - pos
<1>4. a \in Int /\ b \in Int
  BY <1>1, <1>2, <1>3 DEF Width
<1>5. Count(len, pos) = LET m == IF a <= b THEN a ELSE b IN IF 0 <= m THEN m ELSE 0
  <2> HIDE DEF a, b
  <2> DEFINE m == Min({a, b})
  <2>1. m = (IF a <= b THEN a ELSE b) /\ m \in Int
    BY <1>4, MinOfTwo
  <2>2. Count(len, pos) = Max({0, m})
    BY Zenon DEF Count, a, b
  <2> HIDE DEF m
  <2>3. Max({0, m}) = IF 0 <= m THEN m ELSE 0
    BY <2>1, MinOfTwo
  <2> QED BY <2>1, <2>2, <2>3
<1>6. CASE Channels = 1
  <2>1. Width = 2 /\ Frames(len, pos) = Count(len, pos)
    BY <1>6 DEF Width, Frames, FramesCounted
  <2>2. Left(len, pos) = IF pos < len THEN len - pos ELSE 0
    BY <1>2, <1>6 DEF Left
  <2> QED BY <1>1, <1>2, <1>5, <1>6, <2>1, <2>2, SMTT(30)
<1>7. CASE Channels = 2
  <2>1. Width = 1 /\ Frames(len, pos) = Count(len, pos) \div 2
    BY <1>7 DEF Width, Frames, FramesCounted
  <2>2. Left(len, pos) = IF pos < len THEN (len - pos) \div 2 ELSE 0
    BY <1>2, <1>7 DEF Left
  <2>3. PICK w \in Int, u \in Int : call.want - call.got = 2 * w /\ len - pos = 2 * u
    <3>1. \E w \in Int : call.want - call.got = 2 * w
      BY <1>1, EvenDifference
    <3>2. \E u \in Int : len - pos = 2 * u
      BY <1>2, <1>7, EvenDifference
    <3> QED BY <3>1, <3>2
  <2>4. w > 0 /\ (pos < len <=> u > 0)
    BY <1>1, <1>2, <2>3
  <2>5. Left(len, pos) = IF u > 0 THEN u ELSE 0
    BY <1>2, <2>2, <2>3, <2>4
  <2>6. Count(len, pos) = 2 * (IF w <= u THEN w ELSE IF u > 0 THEN u ELSE 0)
    <3>1. a = 2 * w /\ b = 2 * u
      BY <2>1, <2>3
    <3> HIDE DEF a, b
    <3> QED BY <1>5, <2>4, <3>1
  <2>7. Frames(len, pos) = IF w <= u THEN w ELSE IF u > 0 THEN u ELSE 0
    BY <2>1, <2>6
  <2> HIDE DEF a, b
  <2>8. call.got + 2 * Frames(len, pos) <= call.want
    BY <1>1, <2>3, <2>4, <2>7
  <2> QED BY <1>1, <1>2, <1>7, <2>1, <2>3, <2>4, <2>5, <2>6, <2>7, <2>8
<1> QED BY <1>3, <1>6, <1>7

LEMMA IntsOf ==
    ASSUME NEW n \in Nat, NEW f, f = [i \in 1..n |-> f[i]], \A i \in 1..n : f[i] \in Int
    PROVE  f \in Seq(Int) /\ Len(f) = n
  OBVIOUS

LEMMA IntsConcat ==
    ASSUME NEW s \in Seq(Int), NEW t \in Seq(Int)
    PROVE  /\ s \o t \in Seq(Int) /\ Len(s \o t) = Len(s) + Len(t)
           /\ \A i \in 1..Len(s) : (s \o t)[i] = s[i]
           /\ \A i \in 1..Len(t) : (s \o t)[Len(s) + i] = t[i]
  OBVIOUS

(* F frames on in a buffer. *)
LEMMA FurtherOn ==
    ASSUME NEW c \in {1, 2}, NEW len \in Nat, NEW pos \in Nat, len % c = 0, pos % c = 0,
           NEW F \in Nat, F <= IF pos < len THEN (len - pos) \div c ELSE 0
    PROVE  /\ pos + F * c \in Nat /\ (pos + F * c) % c = 0
           /\ (pos + F * c) \div c = pos \div c + F
           /\ (IF pos + F * c < len THEN (len - (pos + F * c)) \div c ELSE 0)
              = (IF pos < len THEN (len - pos) \div c ELSE 0) - F
           /\ F > 0 => pos + F * c <= len
<1>1. CASE c = 1
  BY <1>1
<1>2. CASE c = 2
  <2>1. PICK x \in Int, y \in Int : len = 2 * x /\ pos = 2 * y
    BY <1>2
  <2>2. F <= IF y < x THEN x - y ELSE 0
    BY <1>2, <2>1
  <2>3. pos + F * c = 2 * (y + F)
    BY <1>2, <2>1
  <2>4. /\ (pos + F * c) % c = 0 /\ (pos + F * c) \div c = y + F /\ pos \div c = y
    BY <1>2, <2>1, <2>3
  <2>5. /\ (IF pos < len THEN (len - pos) \div c ELSE 0) = IF y < x THEN x - y ELSE 0
        /\ (IF pos + F * c < len THEN (len - (pos + F * c)) \div c ELSE 0)
           = IF y + F < x THEN x - (y + F) ELSE 0
    BY <1>2, <2>1, <2>3
  <2> QED BY <1>2, <2>1, <2>2, <2>3, <2>4, <2>5
<1> QED BY <1>1, <1>2

LEMMA FurtherOnLength ==
    ASSUME NEW c \in {1, 2}, NEW n \in Nat, n % c = 0, NEW F \in Nat
    PROVE  (n + F * c) % c = 0 /\ (n + F * c) \div c = n \div c + F
<1>1. CASE c = 1
  BY <1>1
<1>2. CASE c = 2
  BY <1>2
<1> QED BY <1>1, <1>2

(* What a rendering leaves to check: it advances by whole frames, and what *)
(* it appends are the frames at the position.                              *)
Advanced(buf, len, pos) ==
    LET F == Frames(len, pos)
    IN  /\ position' = pos + F * Channels
        /\ totalSamples' = totalSamples + F
        /\ call.op = "skip" => heard' = heard
        /\ call.op # "skip" =>
             /\ heard' \in Seq(Int) /\ Len(heard') = Len(heard) + F * Channels
             /\ \A i \in 1..Len(heard) : heard'[i] = heard[i]
             /\ \A i \in 1..(F * Channels) :
                  heard'[Len(heard) + i] = buf[pos \div Channels + (i - 1) \div Channels + 1]
        /\ \/ call' = Idle /\ result'.err = "none" /\ (call.op = "packet" \/ call.got + 2 * F = call.want)
           \/ /\ call.got + 2 * F < call.want /\ call.op # "packet"
              /\ call' = [call EXCEPT !.packet = 0, !.got = call.got + 2 * F]

LEMMA RenderAdvances ==
    ASSUME Under, NEW buf \in Seq(Int), NEW len, NEW pos, Whole(len, pos),
           len <= Len(buf) * Channels, heard \in Seq(Int), Render(buf, len, pos)
    PROVE  Advanced(buf, len, pos)
<1> DEFINE F == Frames(len, pos)
           q == pos \div Channels
           new == [i \in 1..Count(len, pos) |-> buf[(pos + i - 1) \div Channels + 1]]
<1>1. /\ F \in Nat /\ Count(len, pos) = F * Channels
      /\ Count(len, pos) * Width = 2 * F
      /\ F <= Left(len, pos)
      /\ call.got + 2 * F <= call.want
  BY FramesFacts
<1>2. len \in Nat /\ pos \in Nat /\ len % Channels = 0 /\ pos % Channels = 0
  BY DEF Whole
<1>3. Channels \in {1, 2}
  BY StreamFacts DEF Under
<1>4. call.want \in Nat /\ call.got \in Nat
  BY CallFacts
<1>5. /\ position' = pos + F * Channels
      /\ totalSamples' = totalSamples + F
      /\ heard' = IF call.op = "skip" THEN heard ELSE heard \o new
  BY <1>1 DEF Render, Frames
<1>6. \/ call' = Idle /\ result'.err = "none" /\ (call.op = "packet" \/ call.got + 2 * F = call.want)
      \/ /\ call.got + 2 * F < call.want /\ call.op # "packet"
         /\ call' = [call EXCEPT !.packet = 0, !.got = call.got + 2 * F]
  <2> DEFINE got == call.got + 2 * F
  <2>1. IF call.op = "packet" \/ got >= call.want
        THEN Return(got, "none")
        ELSE call' = [call EXCEPT !.packet = 0, !.got = got]
    BY <1>1 DEF Render
  <2>2. got <= call.want /\ got \in Nat
    BY <1>1, <1>4
  <2> HIDE DEF got
  <2>3. CASE call.op = "packet" \/ got >= call.want
    <3>1. call' = Idle /\ result'.err = "none"
      BY <2>1, <2>3 DEF Return
    <3>2. call.op = "packet" \/ got = call.want
      BY <1>4, <2>2, <2>3
    <3> QED BY <3>1, <3>2 DEF got
  <2>4. CASE ~ (call.op = "packet" \/ got >= call.want)
    <3>1. call' = [call EXCEPT !.packet = 0, !.got = got]
      BY <2>1, <2>4
    <3>2. got < call.want /\ call.op # "packet"
      BY <1>4, <2>2, <2>4
    <3> QED BY <3>1, <3>2 DEF got
  <2> QED BY <2>3, <2>4
<1>7. F > 0 => pos + F * Channels <= len
  BY <1>1, <1>2, <1>3, FurtherOn DEF Left
<1>8. F * Channels \in Nat
  BY <1>1, <1>3
<1>9. q \in Nat /\ \A i \in 1..(F * Channels) :
        /\ (pos + i - 1) \div Channels = q + (i - 1) \div Channels
        /\ (pos + i - 1) \div Channels + 1 \in 1..Len(buf)
  <2> SUFFICES ASSUME NEW i \in 1..(F * Channels)
               PROVE  /\ (pos + i - 1) \div Channels = q + (i - 1) \div Channels
                      /\ (pos + i - 1) \div Channels + 1 \in 1..Len(buf)
    BY <1>2, <1>3, WholeFrames
  <2>1. i - 1 \in Nat /\ pos + i - 1 = pos + (i - 1) /\ pos + (i - 1) < len
    BY <1>1, <1>2, <1>3, <1>7, <1>8
  <2>2. (pos + (i - 1)) \div Channels = q + (i - 1) \div Channels
    BY <1>2, <1>3, <2>1, WholeFrames
  <2>3. Len(buf) \in Nat
    OBVIOUS
  <2>4. (pos + (i - 1)) \div Channels + 1 \in 1..Len(buf)
    BY <1>2, <1>3, <2>1, <2>3
  <2> HIDE DEF q
  <2> QED BY <2>1, <2>2, <2>4
<1>10. new \in Seq(Int) /\ Len(new) = F * Channels
  <2> HIDE DEF F, q
  <2>1. \A i \in 1..(F * Channels) : buf[(pos + i - 1) \div Channels + 1] \in Int
    BY <1>9
  <2>2. new = [i \in 1..(F * Channels) |-> buf[(pos + i - 1) \div Channels + 1]]
    BY <1>1
  <2> DEFINE n == F * Channels
  <2>3. n \in Nat /\ new = [i \in 1..n |-> new[i]] /\ \A i \in 1..n : new[i] \in Int
    BY <1>8, <2>1, <2>2
  <2> HIDE DEF new, n
  <2>4. new \in Seq(Int) /\ Len(new) = n
    BY <2>3, IntsOf
  <2> QED BY <2>4 DEF n
<1>11. \A i \in 1..(F * Channels) : new[i] = buf[q + (i - 1) \div Channels + 1]
  <2> HIDE DEF F, q
  <2>1. \A i \in 1..(F * Channels) : new[i] = buf[(pos + i - 1) \div Channels + 1]
    BY <1>1
  <2> HIDE DEF new
  <2> QED BY <1>9, <2>1
<1>12. call.op # "skip" =>
         /\ heard' \in Seq(Int) /\ Len(heard') = Len(heard) + F * Channels
         /\ \A i \in 1..Len(heard) : heard'[i] = heard[i]
         /\ \A i \in 1..(F * Channels) :
              heard'[Len(heard) + i] = buf[q + (i - 1) \div Channels + 1]
  <2> HIDE DEF F, q, new
  <2> SUFFICES ASSUME call.op # "skip" PROVE
         /\ heard' \in Seq(Int) /\ Len(heard') = Len(heard) + F * Channels
         /\ \A i \in 1..Len(heard) : heard'[i] = heard[i]
         /\ \A i \in 1..(F * Channels) :
              heard'[Len(heard) + i] = buf[q + (i - 1) \div Channels + 1]
    OBVIOUS
  <2>1. heard' = heard \o new
    BY <1>5
  <2>2. /\ heard' \in Seq(Int) /\ Len(heard') = Len(heard) + Len(new)
        /\ \A i \in 1..Len(heard) : heard'[i] = heard[i]
        /\ \A i \in 1..Len(new) : heard'[Len(heard) + i] = new[i]
    BY <1>10, <2>1, IntsConcat
  <2> QED BY <1>10, <1>11, <2>2
<1> HIDE DEF F
<1> QED BY <1>5, <1>6, <1>12 DEF Advanced, F

(* What every rendering step finds. *)
Renders(buf, len, pos) ==
    /\ Under /\ stream' = stream
    /\ Whole(len, pos)
    /\ heard \in Seq(Int) /\ Len(heard) % Channels = 0
    /\ totalSamples \in Int /\ base \in Nat
    /\ Advanced(buf, len, pos)

LEMMA AdvanceFacts ==
    ASSUME NEW buf, NEW len, NEW pos, Renders(buf, len, pos)
    PROVE  LET F == Frames(len, pos)
           IN  /\ F \in Nat /\ F <= Left(len, pos) /\ Left(len, pos) \in Nat
               /\ position' = pos + F * Channels /\ totalSamples' = totalSamples + F
               /\ position' \in Nat /\ position' % Channels = 0
               /\ position' \div Channels = pos \div Channels + F
               /\ Left(len, position') = Left(len, pos) - F
               /\ F > 0 => position' <= len
               /\ Channels \in {1, 2} /\ Channels' = Channels
               /\ PreSkip' = PreSkip /\ Packets' = Packets
<1> DEFINE F == Frames(len, pos)
<1>1. F \in Nat /\ F <= Left(len, pos) /\ Left(len, pos) \in Nat
  BY FramesFacts DEF Renders
<1>2. len \in Nat /\ pos \in Nat /\ len % Channels = 0 /\ pos % Channels = 0
  BY DEF Renders, Whole
<1>3. Channels \in {1, 2}
  BY StreamFacts DEF Renders, Under
<1>4. Channels' = Channels /\ PreSkip' = PreSkip /\ Packets' = Packets
  BY DEF Renders, Channels, PreSkip, Packets
<1>5. position' = pos + F * Channels /\ totalSamples' = totalSamples + F
  BY DEF Renders, Advanced
<1> HIDE DEF F
<1>6. /\ pos + F * Channels \in Nat /\ (pos + F * Channels) % Channels = 0
      /\ (pos + F * Channels) \div Channels = pos \div Channels + F
      /\ Left(len, pos + F * Channels) = Left(len, pos) - F
      /\ F > 0 => pos + F * Channels <= len
  BY <1>1, <1>2, <1>3, FurtherOn DEF Left
<1> QED BY <1>1, <1>3, <1>4, <1>5, <1>6 DEF F

LEMMA CallStep ==
    ASSUME call \in Calls, NEW got \in Nat, Len(Packets) \in Nat
    PROVE  LET c == [call EXCEPT !.packet = 0, !.got = got]
           IN  /\ c \in Calls
               /\ c.op = call.op /\ c.packet = 0 /\ c.want = call.want /\ c.got = got
<1> DEFINE last == Len(Packets)
<1>1. call \in [op: {"idle", "read", "packet", "skip"}, packet: 0..last, want: Nat, got: Nat]
  BY DEF Calls
<1>2. last \in Nat
  OBVIOUS
<1> HIDE DEF last
<1>3. [call EXCEPT !.packet = 0, !.got = got]
      \in [op: {"idle", "read", "packet", "skip"}, packet: 0..last, want: Nat, got: Nat]
  <2>1. [call EXCEPT !.packet = 0]
        \in [op: {"idle", "read", "packet", "skip"}, packet: 0..last, want: Nat, got: Nat]
    BY <1>1, <1>2
  <2>2. [[call EXCEPT !.packet = 0] EXCEPT !.got = got]
        \in [op: {"idle", "read", "packet", "skip"}, packet: 0..last, want: Nat, got: Nat]
    BY <2>1
  <2>3. [call EXCEPT !.packet = 0, !.got = got] = [[call EXCEPT !.packet = 0] EXCEPT !.got = got]
    BY <1>1
  <2> QED BY <2>2, <2>3
<1>4. LET c == [call EXCEPT !.packet = 0, !.got = got]
      IN  c.op = call.op /\ c.packet = 0 /\ c.want = call.want /\ c.got = got
  BY <1>1
<1> QED BY <1>3, <1>4 DEF Calls, last

LEMMA AdvanceTyped ==
    ASSUME NEW buf, NEW len, NEW pos, Renders(buf, len, pos)
    PROVE  /\ Whole(len, position') /\ (pos <= Cap * Channels /\ len <= Cap * Channels => position' <= Cap * Channels)
           /\ totalSamples' \in Int
           /\ CallTyped' /\ call'.packet = 0
           /\ heard' \in Seq(Int) /\ Len(heard') % Channels = 0
           /\ call' = Idle => result'.err # "eof"
<1> DEFINE F == Frames(len, pos)
<1>1. /\ F \in Nat /\ position' = pos + F * Channels /\ totalSamples' = totalSamples + F
      /\ position' \in Nat /\ position' % Channels = 0
      /\ F > 0 => position' <= len
      /\ Channels \in {1, 2} /\ Channels' = Channels
      /\ Packets' = Packets
  BY AdvanceFacts
<1>2. /\ call.want \in Nat /\ call.got \in Nat
      /\ call.want % 2 = 0 /\ call.got % 2 = 0
      /\ call.op \in {"read", "packet", "skip"}
  BY CallFacts DEF Renders
<1>3. len \in Nat /\ pos \in Nat /\ len % Channels = 0 /\ totalSamples \in Int
  BY DEF Renders, Whole
<1>4. Cap * Channels \in Nat /\ Len(Packets) \in Nat
  BY <1>1, StreamFacts, SMTT(30) DEF Renders, Under
<1> HIDE DEF F
<1>5. /\ Whole(len, position')
      /\ pos <= Cap * Channels /\ len <= Cap * Channels => position' <= Cap * Channels
      /\ totalSamples' \in Int
  <2>1. F = 0 => position' = pos
    BY <1>1, <1>3
  <2>2. pos <= Cap * Channels /\ len <= Cap * Channels => position' <= Cap * Channels
    BY <1>1, <1>3, <1>4, <2>1
  <2> QED BY <1>1, <1>3, <2>2 DEF Whole
<1>6. \/ call' = Idle /\ result'.err = "none"
      \/ /\ call.got + 2 * F < call.want
         /\ call' = [call EXCEPT !.packet = 0, !.got = call.got + 2 * F]
  BY DEF Renders, Advanced, F
<1>7. CallTyped' /\ call'.packet = 0 /\ (call' = Idle => result'.err # "eof")
  <2>1. CASE call' = Idle /\ result'.err = "none"
    <3>1. call'.packet = 0 /\ call'.op = "idle"
      BY <2>1 DEF Idle
    <3>2. call' \in Calls'
      BY <1>1, <1>4, <2>1 DEF Idle, Calls
    <3> QED BY <2>1, <3>1, <3>2 DEF CallTyped
  <2>2. CASE /\ call.got + 2 * F < call.want
             /\ call' = [call EXCEPT !.packet = 0, !.got = call.got + 2 * F]
    <3> DEFINE got == call.got + 2 * F
    <3>1. got \in Nat /\ got % 2 = 0 /\ got < call.want
      BY <1>1, <1>2, <2>2
    <3>2. call \in Calls
      BY DEF Renders, Under
    <3>3. call' = [call EXCEPT !.packet = 0, !.got = got]
      BY <2>2
    <3> HIDE DEF got
    <3>4. /\ call' \in Calls
          /\ call'.op = call.op /\ call'.packet = 0 /\ call'.want = call.want /\ call'.got = got
      BY <1>4, <3>1, <3>2, <3>3, CallStep
    <3>5. call' \in Calls' /\ call'.op # "idle"
      BY <1>1, <1>2, <3>4 DEF Calls
    <3>6. call' # Idle
      BY <3>5 DEF Idle
    <3> QED BY <1>2, <3>1, <3>4, <3>5, <3>6 DEF CallTyped
  <2> QED BY <1>6, <2>1, <2>2
<1>8. heard' \in Seq(Int) /\ Len(heard') % Channels = 0
  <2>1. heard \in Seq(Int) /\ Len(heard) \in Nat /\ Len(heard) % Channels = 0
    BY DEF Renders
  <2>2. CASE call.op = "skip"
    BY <2>1, <2>2 DEF Renders, Advanced
  <2>3. CASE call.op # "skip"
    <3>1. heard' \in Seq(Int) /\ Len(heard') = Len(heard) + F * Channels
      BY <2>3 DEF Renders, Advanced, F
    <3>2. (Len(heard) + F * Channels) % Channels = 0
      BY <1>1, <2>1, FurtherOnLength
    <3> QED BY <3>1, <3>2
  <2> QED BY <2>2, <2>3
<1> QED BY <1>5, <1>7, <1>8

LEMMA AdvanceCounts ==
    ASSUME NEW buf, NEW len, NEW pos, Renders(buf, len, pos), Counted, base' = base
    PROVE  Counted'
<1> DEFINE F == Frames(len, pos)
<1>1. /\ F \in Nat /\ totalSamples' = totalSamples + F
      /\ Channels \in {1, 2} /\ Channels' = Channels
  BY AdvanceFacts
<1>2. call.want \in Nat /\ call.got \in Nat /\ call.op \in {"read", "packet", "skip"}
  BY CallFacts DEF Renders
<1>3. /\ heard \in Seq(Int) /\ Len(heard) \in Nat /\ Len(heard) % Channels = 0
      /\ totalSamples \in Int /\ base \in Nat
  BY DEF Renders
<1>4. \/ call' = Idle /\ (call.op = "packet" \/ call.got + 2 * F = call.want)
      \/ call' = [call EXCEPT !.packet = 0, !.got = call.got + 2 * F]
  BY DEF Renders, Advanced, F
<1>5. call \in [op: {"idle", "read", "packet", "skip"}, packet: 0..Len(Packets), want: Nat, got: Nat]
  BY DEF Renders, Under, Calls
<1>6. CASE call.op = "skip"
  <2>1. heard' = heard
    BY <1>6 DEF Renders, Advanced
  <2>2. heard = <<>> /\ 2 * totalSamples + (call.want - call.got) = 2 * base
    BY <1>6 DEF Counted
  <2> HIDE DEF F
  <2>3. CASE call' = Idle /\ (call.op = "packet" \/ call.got + 2 * F = call.want)
    <3>1. call'.op # "skip"
      BY <2>3 DEF Idle
    <3>2. totalSamples' = base'
      BY <1>1, <1>2, <1>3, <1>6, <2>2, <2>3
    <3>3. Len(heard') \div Channels' = 0
      BY <1>1, <2>1, <2>2
    <3> QED BY <1>3, <3>1, <3>2, <3>3 DEF Counted
  <2>4. CASE call' = [call EXCEPT !.packet = 0, !.got = call.got + 2 * F]
    <3>1. call'.op = "skip" /\ call'.want = call.want /\ call'.got = call.got + 2 * F
      BY <1>5, <1>6, <2>4
    <3>2. 2 * totalSamples' + (call'.want - call'.got) = 2 * base'
      BY <1>1, <1>2, <1>3, <2>2, <3>1
    <3> QED BY <2>1, <2>2, <3>1, <3>2 DEF Counted
  <2> QED BY <1>4, <2>3, <2>4
<1>7. CASE call.op # "skip"
  <2>1. Len(heard') = Len(heard) + F * Channels
    BY <1>7 DEF Renders, Advanced
  <2>2. totalSamples = base + Len(heard) \div Channels
    BY <1>7 DEF Counted
  <2>3. call'.op # "skip"
    <3>1. Idle.op # "skip"
      BY DEF Idle
    <3>2. \A g \in Int : [call EXCEPT !.packet = 0, !.got = g].op = call.op
      BY <1>5
    <3>3. call.got + 2 * F \in Int
      BY <1>1, <1>2
    <3> HIDE DEF F
    <3> QED BY <1>4, <1>7, <3>1, <3>2, <3>3
  <2> HIDE DEF F
  <2>4. Len(heard') \div Channels = Len(heard) \div Channels + F
    BY <1>1, <1>3, <2>1, FurtherOnLength
  <2>5. Len(heard) \div Channels \in Int
    BY <1>1, <1>3
  <2>6. totalSamples' = base' + Len(heard') \div Channels'
    BY <1>1, <1>3, <2>2, <2>4, <2>5
  <2> QED BY <2>3, <2>6 DEF Counted
<1> QED BY <1>6, <1>7

(* Where a rendering from the buffer buf leaves the player. *)
Leaves(buf, len, rem, nxt) ==
    /\ store' = buf /\ blen' = len /\ preskipRemaining' = rem
    /\ base' = base /\ Upcoming' = nxt

LEMMA AdvanceHeard ==
    ASSUME NEW buf, NEW len, NEW pos, NEW rem, NEW nxt, Renders(buf, len, pos), Counted, rem \in Nat,
           Placed(buf, len, pos, rem, nxt), HeardRight, Leaves(buf, len, rem, nxt)
    PROVE  HeardRight'
<1> DEFINE F == Frames(len, pos)
           q == pos \div Channels
<1>1. /\ F \in Nat /\ F <= Left(len, pos) /\ Left(len, pos) \in Nat
      /\ Channels \in {1, 2} /\ Channels' = Channels /\ PreSkip' = PreSkip
  BY AdvanceFacts
<1>2. /\ heard \in Seq(Int) /\ Len(heard) \in Nat /\ Len(heard) % Channels = 0
      /\ totalSamples \in Int /\ base \in Nat /\ base' = base /\ PreSkip \in Nat
  BY StreamFacts DEF Renders, Leaves, Under
<1>3. \A i \in 1..Len(heard) : heard[i] = base + PreSkip + (i - 1) \div Channels
  BY <1>2 DEF HeardRight
<1>4. CASE call.op = "skip"
  <2>1. heard' = heard
    BY <1>4 DEF Renders, Advanced
  <2> QED BY <1>1, <1>2, <2>1 DEF HeardRight
<1>5. CASE call.op # "skip"
  <2>1. /\ heard' \in Seq(Int) /\ Len(heard') = Len(heard) + F * Channels
        /\ \A i \in 1..Len(heard) : heard'[i] = heard[i]
        /\ \A i \in 1..(F * Channels) : heard'[Len(heard) + i] = buf[q + (i - 1) \div Channels + 1]
    BY <1>5 DEF Renders, Advanced, F, q
  <2>2. totalSamples = base + Len(heard) \div Channels
    BY <1>5 DEF Counted
  <2>3. pos \in Nat /\ q \in Nat
    BY <1>1, WholeFrames DEF Renders, Whole, q
  <2>4. F > 0 => \A j \in 0..(Left(len, pos) - 1) : buf[q + 1 + j] = PreSkip + totalSamples + j
    <3>1. CASE rem > 0
      BY <1>1, <3>1 DEF Placed, Waits
    <3>2. CASE rem = 0
      BY <3>2 DEF Placed, GoesOn, q
    <3> QED BY <3>1, <3>2
  <2> HIDE DEF F, q
  <2>5. F * Channels \in Nat
    BY <1>1
  <2>6. ASSUME NEW i \in 1..(F * Channels)
        PROVE  heard'[Len(heard) + i] = base + PreSkip + (Len(heard) + i - 1) \div Channels
    <3> DEFINE j == (i - 1) \div Channels
    <3>1. j \in 0..(F - 1) /\ F > 0
      BY <1>1, <2>5
    <3>2. q + j + 1 = q + 1 + j
      BY <2>3, <3>1
    <3>3. buf[q + j + 1] = PreSkip + totalSamples + j
      BY <1>1, <2>4, <3>1, <3>2
    <3>4. (Len(heard) + i - 1) \div Channels = Len(heard) \div Channels + j
      <4>1. Len(heard) + i - 1 = Len(heard) + (i - 1) /\ i - 1 \in Nat
        BY <1>2, <2>5
      <4>2. (Len(heard) + (i - 1)) \div Channels = Len(heard) \div Channels + j
        BY <1>1, <1>2, <4>1, WholeFrames
      <4> QED BY <4>1, <4>2
    <3>5. Len(heard) \div Channels \in Int
      BY <1>1, <1>2
    <3>6. heard'[Len(heard) + i] = buf[q + j + 1]
      BY <2>1
    <3>7. j \in Int
      BY <3>1
    <3> HIDE DEF j
    <3>8. PreSkip + totalSamples + j = base + PreSkip + (Len(heard) \div Channels + j)
      BY <1>2, <2>2, <3>5, <3>7, SMTT(30)
    <3> QED BY <3>3, <3>4, <3>6, <3>8
  <2>7. ASSUME NEW k \in 1..Len(heard')
        PROVE  heard'[k] = base + PreSkip + (k - 1) \div Channels
    <3>1. CASE k <= Len(heard)
      BY <1>2, <1>3, <2>1, <3>1
    <3>2. CASE k > Len(heard)
      <4>1. k - Len(heard) \in 1..(F * Channels) /\ Len(heard) + (k - Len(heard)) = k
        BY <1>2, <2>1, <2>5, <3>2
      <4> QED BY <2>6, <4>1
    <3> QED BY <1>2, <2>1, <3>1, <3>2
  <2>8. DOMAIN heard' = 1..Len(heard')
    BY <2>1
  <2> QED BY <1>1, <1>2, <2>7, <2>8 DEF HeardRight
<1> QED BY <1>4, <1>5

LEMMA AdvancePlaced ==
    ASSUME NEW buf, NEW len, NEW pos, NEW rem, NEW nxt, Renders(buf, len, pos), Counted,
           rem \in Nat, nxt \in Nat,
           Placed(buf, len, pos, rem, nxt), Leaves(buf, len, rem, nxt)
    PROVE  Placed(store, blen, position, preskipRemaining, Upcoming)'
<1> DEFINE F == Frames(len, pos)
<1>1. /\ F \in Nat /\ F <= Left(len, pos) /\ Left(len, pos) \in Nat
      /\ totalSamples' = totalSamples + F
      /\ position' \in Nat
      /\ position' \div Channels = pos \div Channels + F
      /\ Left(len, position') = Left(len, pos) - F
      /\ Channels \in {1, 2} /\ Channels' = Channels /\ PreSkip' = PreSkip /\ Packets' = Packets
  BY AdvanceFacts
<1>2. /\ heard \in Seq(Int) /\ totalSamples \in Int /\ base' = base /\ PreSkip \in Nat /\ Len(Packets) \in Nat
      /\ \A k \in 1..Len(Packets) : Packets[k].from \in Nat
  BY StreamFacts DEF Renders, Leaves, Under, AudioPacket
<1>3. store' = buf /\ blen' = len /\ preskipRemaining' = rem /\ Upcoming' = nxt
  BY DEF Leaves
<1>4. Left(blen, position)' = Left(len, position')
  BY <1>1, <1>3 DEF Left
<1>5. CASE rem > 0
  <2>1. /\ totalSamples = 0 /\ heard = <<>> /\ base = 0 /\ call.op # "skip"
        /\ Left(len, pos) = 0
        /\ nxt <= Len(Packets) => Packets[nxt].from + rem = PreSkip
    BY <1>5 DEF Placed, Waits
  <2>2. F = 0
    BY <1>1, <2>1
  <2>3. totalSamples' = 0 /\ base' = 0 /\ Left(blen, position)' = 0
    BY <1>1, <1>2, <1>4, <2>1, <2>2
  <2>4. heard' = <<>>
    <3>1. heard' \in Seq(Int) /\ Len(heard') = Len(heard) + F * Channels
      BY <2>1 DEF Renders, Advanced, F
    <3> HIDE DEF F
    <3>2. Len(heard') = 0
      BY <1>1, <2>1, <2>2, <3>1
    <3> QED BY <3>1, <3>2
  <2>5. call'.op # "skip"
    <3>1. \/ call' = Idle
          \/ call' = [call EXCEPT !.packet = 0, !.got = call.got + 2 * F]
      BY DEF Renders, Advanced, F
    <3>2. Idle.op # "skip"
      BY DEF Idle
    <3>3. call \in Calls /\ call.got \in Nat
      BY CallFacts DEF Renders, Under
    <3> HIDE DEF F
    <3>4. call.got + 2 * F \in Nat
      BY <1>1, <3>3
    <3>5. [call EXCEPT !.packet = 0, !.got = call.got + 2 * F].op = call.op
      BY <1>2, <3>3, <3>4, CallStep
    <3> QED BY <2>1, <3>1, <3>2, <3>5
  <2>6. Waits(blen, position, preskipRemaining, Upcoming)'
    BY <1>1, <1>3, <2>1, <2>3, <2>4, <2>5 DEF Waits
  <2> QED BY <1>3, <1>5, <2>6 DEF Placed
<1>6. CASE rem = 0
  <2>1. /\ \A j \in 0..(Left(len, pos) - 1) : buf[pos \div Channels + 1 + j] = PreSkip + totalSamples + j
        /\ nxt <= Len(Packets) => PreSkip + totalSamples + Left(len, pos) = Packets[nxt].from
    BY <1>6 DEF Placed, GoesOn
  <2>2. pos \div Channels \in Nat
    BY <1>1, WholeFrames DEF Renders, Whole
  <2> DEFINE q == pos \div Channels
  <2> HIDE DEF F, q
  <2>3. ASSUME NEW j \in 0..(Left(len, position') - 1)
        PROVE  buf[q + F + 1 + j] = PreSkip + totalSamples' + j
    <3>1. F + j \in 0..(Left(len, pos) - 1) /\ q + F + 1 + j = q + 1 + (F + j)
      BY <1>1, <2>2 DEF q
    <3>2. buf[q + 1 + (F + j)] = PreSkip + totalSamples + (F + j)
      BY <2>1, <3>1 DEF q
    <3> QED BY <1>1, <1>2, <3>1, <3>2
  <2>4. nxt <= Len(Packets) => PreSkip + totalSamples' + Left(len, position') = Packets[nxt].from
    BY <1>1, <1>2, <2>1, SMTT(30)
  <2>5. GoesOn(store, blen, position, Upcoming)'
    BY <1>1, <1>3, <1>4, <2>3, <2>4 DEF GoesOn, q
  <2> QED BY <1>3, <1>6, <2>5 DEF Placed
<1> QED BY <1>5, <1>6

LEMMA AdvanceEnds ==
    ASSUME NEW buf, NEW len, NEW pos, NEW rem, NEW nxt, Renders(buf, len, pos),
           Ends(len, pos, rem, nxt), Leaves(buf, len, rem, nxt)
    PROVE  ToTheEnd'
<1> DEFINE F == Frames(len, pos)
<1>1. /\ F \in Nat /\ Left(len, pos) \in Nat
      /\ totalSamples' = totalSamples + F
      /\ Left(len, position') = Left(len, pos) - F
      /\ Channels' = Channels /\ PreSkip' = PreSkip /\ Packets' = Packets
  BY AdvanceFacts
<1>2. blen' = len /\ preskipRemaining' = rem /\ Upcoming' = nxt
  BY DEF Leaves
<1>3. Left(blen, position)' = Left(len, position')
  BY <1>1, <1>2 DEF Left
<1>4. DropsPackets' = DropsPackets /\ LastGranule' = LastGranule
  BY <1>1 DEF DropsPackets, LastGranule
<1>5. totalSamples \in Int /\ PreSkip \in Nat
  BY StreamFacts DEF Renders, Under
<1> HIDE DEF F
<1> QED BY <1>1, <1>2, <1>3, <1>4, <1>5 DEF ToTheEnd, Ends

----------------------------------------------------------------------------
(* Each action keeps the invariant.                                        *)
LEMMA SameStream ==
    ASSUME stream' = stream
    PROVE  /\ Channels' = Channels /\ PreSkip' = PreSkip /\ Packets' = Packets
           /\ LastGranule' = LastGranule
           /\ DropsPackets' = DropsPackets /\ PageEndsInPreSkip' = PageEndsInPreSkip
<1>1. Channels' = Channels /\ PreSkip' = PreSkip /\ Packets' = Packets
  BY DEF Channels, PreSkip, Packets
<1>2. LastGranule' = LastGranule
  BY <1>1 DEF LastGranule
<1> QED BY <1>1, <1>2 DEF DropsPackets, PageEndsInPreSkip

LEMMA BusyUnder ==
    ASSUME Typed, Busy
    PROVE  Under
  BY DEF Typed, CallTyped, Busy, Under

LEMMA TypedFacts ==
    ASSUME Typed
    PROVE  /\ Channels \in {1, 2} /\ PreSkip \in Nat /\ Cap \in Nat \ {0}
           /\ Len(Packets) \in Nat \ {0}
           /\ Cap * Channels \in Nat
           /\ Upcoming \in Nat
           /\ Left(blen, position) \in Nat
           /\ position >= blen => Left(blen, position) = 0
<1>1. /\ Channels \in {1, 2} /\ PreSkip \in Nat /\ Cap \in Nat \ {0}
      /\ Len(Packets) \in Nat \ {0}
  BY StreamFacts DEF Typed
<1>2. blen \in Nat /\ position \in Nat
  BY DEF Typed, Whole
<1>3. call.packet \in Nat /\ cursor \in Nat
  <2>1. call.packet \in 0..Len(Packets)
    BY DEF Typed, CallTyped, Calls
  <2> QED BY <1>1, <2>1 DEF Typed
<1>4. Cap * Channels \in Nat
  BY <1>1
<1>5. Left(blen, position) \in Nat /\ (position >= blen => Left(blen, position) = 0)
  BY <1>1, <1>2 DEF Left
<1> QED BY <1>1, <1>3, <1>4, <1>5 DEF Upcoming

LEMMA ServeKeeps ==
    ASSUME PInv, Serve
    PROVE  PInv'
<1>1. Typed
  BY DEF PInv
<1>2. Busy /\ call.packet = 0
  BY DEF Serve, Ready
<1>3. Under
  BY <1>1, <1>2, BusyUnder
<1>4. /\ stream' = stream /\ cursor' = cursor /\ store' = store /\ blen' = blen
      /\ preskipRemaining' = preskipRemaining /\ finished' = finished
      /\ cachedTotal' = cachedTotal /\ base' = base
      /\ undisturbed' = undisturbed /\ sought' = sought
  BY DEF Serve
<1>5. /\ store \in Seq(Int) /\ Whole(blen, position) /\ blen <= Len(store) * Channels
      /\ heard \in Seq(Int) /\ Len(heard) % Channels = 0
      /\ totalSamples \in Int /\ base \in Nat
      /\ preskipRemaining \in 0..PreSkip /\ cursor \in 1..(Len(Packets) + 1)
  BY <1>1 DEF Typed
<1>6. Renders(store, blen, position)
  <2>1. Advanced(store, blen, position)
    BY <1>3, <1>5, RenderAdvances DEF Serve
  <2> QED BY <1>3, <1>4, <1>5, <2>1 DEF Renders
<1>7. /\ Channels' = Channels /\ PreSkip' = PreSkip /\ Packets' = Packets
      /\ DropsPackets' = DropsPackets /\ PageEndsInPreSkip' = PageEndsInPreSkip
  BY <1>4, SameStream
<1>8. /\ Whole(blen, position') /\ (position <= Cap * Channels /\ blen <= Cap * Channels => position' <= Cap * Channels)
      /\ totalSamples' \in Int
      /\ CallTyped' /\ call'.packet = 0
      /\ heard' \in Seq(Int) /\ Len(heard') % Channels = 0
      /\ call' = Idle => result'.err # "eof"
  BY <1>6, AdvanceTyped
<1>9. Typed'
  <2>1. Whole(blen, position)'
    BY <1>4, <1>7, <1>8 DEF Whole
  <2>2. position' <= Cap * Channels
    <3>1. position <= Cap * Channels /\ blen <= Cap * Channels
      <4>1. Len(store) \in {0, Cap} /\ position <= Cap * Channels
        BY <1>1 DEF Typed
      <4>2. blen \in Nat /\ Channels \in {1, 2} /\ Cap \in Nat
        BY <1>1, TypedFacts DEF Typed, Whole
      <4> QED BY <1>5, <4>1, <4>2
    <3> QED BY <1>8, <3>1
  <2> QED BY <1>1, <1>4, <1>5, <1>7, <1>8, <2>1, <2>2 DEF Typed
<1>10. ASSUME undisturbed'
       PROVE  /\ Counted'
              /\ ~ PageEndsInPreSkip' => Straight' /\ ToTheEnd'
              /\ call' = Idle /\ result'.err = "eof" => cursor' > Len(Packets') /\ Empty'
              /\ ~ sought' /\ finished' => cursor' > Len(Packets')
  <2>1. undisturbed
    BY <1>4, <1>10
  <2>2. /\ Counted
        /\ ~ PageEndsInPreSkip => Straight /\ ToTheEnd
        /\ ~ sought /\ finished => cursor > Len(Packets)
    BY <2>1 DEF PInv
  <2>3. Counted'
    BY <1>4, <1>6, <2>2, AdvanceCounts
  <2>4. Upcoming = cursor /\ Upcoming' = cursor /\ cursor \in Nat /\ preskipRemaining \in Nat
    BY <1>1, <1>2, <1>4, <1>5, <1>8, TypedFacts DEF Upcoming
  <2>5. Leaves(store, blen, preskipRemaining, cursor)
    BY <1>4, <2>4 DEF Leaves
  <2>6. ASSUME ~ PageEndsInPreSkip
        PROVE  Straight' /\ ToTheEnd'
    <3>1. /\ Placed(store, blen, position, preskipRemaining, cursor) /\ HeardRight
          /\ Ends(blen, position, preskipRemaining, cursor)
      BY <2>2, <2>4, <2>6 DEF Straight, ToTheEnd
    <3>2. HeardRight'
      BY <1>6, <2>2, <2>4, <2>5, <3>1, AdvanceHeard
    <3>3. Placed(store, blen, position, preskipRemaining, Upcoming)'
      BY <1>6, <2>2, <2>4, <2>5, <3>1, AdvancePlaced
    <3>4. ToTheEnd'
      BY <1>6, <2>5, <3>1, AdvanceEnds
    <3> QED BY <3>2, <3>3, <3>4 DEF Straight
  <2> QED BY <1>4, <1>7, <1>8, <2>2, <2>3, <2>6
<1> QED BY <1>9, <1>10, Zenon DEF PInv

(* A step that leaves the stream, the buffer and what was heard alone, and *)
(* where the packet decoded next is the same.                              *)
Quiet ==
    /\ stream' = stream /\ store' = store /\ blen' = blen /\ position' = position
    /\ preskipRemaining' = preskipRemaining /\ totalSamples' = totalSamples
    /\ heard' = heard /\ base' = base

LEMMA QuietKeeps ==
    ASSUME Typed, Quiet, Upcoming' = Upcoming, (call.op # "skip" => call'.op # "skip")
    PROVE  (Straight => Straight') /\ (ToTheEnd => ToTheEnd')
<1>1. /\ Channels' = Channels /\ PreSkip' = PreSkip /\ Packets' = Packets
      /\ LastGranule' = LastGranule /\ DropsPackets' = DropsPackets
  BY SameStream DEF Quiet
<1>2. Left(blen, position)' = Left(blen, position)
  BY <1>1 DEF Left, Quiet
<1>3. Straight => Straight'
  <2>1. HeardRight => HeardRight'
    BY <1>1 DEF HeardRight, Quiet
  <2>2. Waits(blen, position, preskipRemaining, Upcoming)
        => Waits(blen, position, preskipRemaining, Upcoming)'
    BY <1>1, <1>2 DEF Waits, Quiet
  <2>3. GoesOn(store, blen, position, Upcoming) => GoesOn(store, blen, position, Upcoming)'
    BY <1>1, <1>2 DEF GoesOn, Quiet
  <2> QED BY <2>1, <2>2, <2>3 DEF Straight, Placed, Quiet
<1>4. ToTheEnd => ToTheEnd'
  BY <1>1, <1>2 DEF ToTheEnd, Ends, Quiet
<1> QED BY <1>3, <1>4

LEMMA CallReadKeeps ==
    ASSUME PInv, NEW op \in {"read", "packet"}, NEW r \in Requests, CallRead(op, r)
    PROVE  PInv'
<1>1. Typed
  BY DEF PInv
<1>2. /\ call = Idle /\ call' = [op |-> op, packet |-> 0, want |-> r, got |-> 0]
      /\ stream' = stream /\ cursor' = cursor /\ store' = store /\ blen' = blen
      /\ position' = position /\ preskipRemaining' = preskipRemaining
      /\ totalSamples' = totalSamples /\ finished' = finished /\ cachedTotal' = cachedTotal
      /\ heard' = heard /\ base' = base /\ undisturbed' = undisturbed /\ sought' = sought
  BY DEF CallRead, buffer, history
<1>3. Quiet
  BY <1>2 DEF Quiet
<1>4. /\ Channels' = Channels /\ PreSkip' = PreSkip /\ Packets' = Packets
      /\ PageEndsInPreSkip' = PageEndsInPreSkip
  BY <1>2, SameStream
<1>5. /\ call.op = "idle" /\ call.packet = 0
      /\ call'.op = op /\ call'.packet = 0 /\ call'.want = r /\ call'.got = 0
  BY <1>2 DEF Idle
<1>6. r \in Nat /\ r > 0 /\ r % 2 = 0 /\ Len(Packets) \in Nat
  BY <1>1, PlayerConstants, TypedFacts
<1>7. CallTyped'
  <2>1. call' \in Calls'
    BY <1>2, <1>4, <1>6 DEF Calls
  <2> QED BY <1>5, <1>6, <2>1 DEF CallTyped
<1>8. Typed'
  <2>1. Whole(blen, position)'
    BY <1>1, <1>2, <1>4 DEF Typed, Whole
  <2> QED BY <1>1, <1>2, <1>4, <1>7, <2>1 DEF Typed
<1>9. Upcoming' = Upcoming
  BY <1>2, <1>5 DEF Upcoming
<1>10. Counted => Counted'
  BY <1>2, <1>4, <1>5 DEF Counted
<1>11. /\ (Straight => Straight') /\ (ToTheEnd => ToTheEnd')
  BY <1>1, <1>3, <1>5, <1>9, QuietKeeps
<1>12. call' # Idle
  BY <1>5 DEF Idle
<1> QED BY <1>2, <1>4, <1>8, <1>10, <1>11, <1>12 DEF PInv

LEMMA FetchKeeps ==
    ASSUME PInv, Fetch
    PROVE  PInv'
<1>1. Typed
  BY DEF PInv
<1>2. /\ Busy /\ call.packet = 0 /\ position >= blen /\ cursor <= Len(Packets)
      /\ call' = [call EXCEPT !.packet = cursor] /\ cursor' = cursor + 1
      /\ finished' = (finished \/ Packets[cursor].eos)
      /\ stream' = stream /\ store' = store /\ blen' = blen
      /\ position' = position /\ preskipRemaining' = preskipRemaining
      /\ totalSamples' = totalSamples /\ cachedTotal' = cachedTotal
      /\ heard' = heard /\ base' = base /\ undisturbed' = undisturbed /\ sought' = sought
  BY DEF Fetch, Ready, Empty, EndsStream, buffer, history
<1>3. Quiet
  BY <1>2 DEF Quiet
<1>4. /\ Channels' = Channels /\ PreSkip' = PreSkip /\ Packets' = Packets
      /\ PageEndsInPreSkip' = PageEndsInPreSkip
  BY <1>2, SameStream
<1>5. Len(Packets) \in Nat \ {0} /\ cursor \in 1..Len(Packets)
  BY <1>1, <1>2, TypedFacts DEF Typed
<1>6. /\ call' \in Calls /\ call'.op = call.op /\ call'.packet = cursor
      /\ call'.want = call.want /\ call'.got = call.got
  <2> DEFINE last == Len(Packets)
  <2>1. call \in [op: {"idle", "read", "packet", "skip"}, packet: 0..last, want: Nat, got: Nat]
    BY <1>1 DEF Typed, CallTyped, Calls
  <2>2. cursor \in 0..last
    BY <1>5
  <2> HIDE DEF last
  <2>3. [call EXCEPT !.packet = cursor] \in [op: {"idle", "read", "packet", "skip"}, packet: 0..last, want: Nat, got: Nat]
    BY <2>1, <2>2
  <2>4. /\ call'.op = call.op /\ call'.packet = cursor
        /\ call'.want = call.want /\ call'.got = call.got
    BY <1>2, <2>1
  <2> QED BY <1>2, <2>3, <2>4 DEF Calls, last
<1>7. CallTyped'
  <2>1. call' \in Calls'
    BY <1>4, <1>6 DEF Calls
  <2>2. call'.op # "idle" /\ Busy'
    BY <1>2, <1>6 DEF Busy
  <2>3. call'.got < call'.want /\ call'.want % 2 = 0 /\ call'.got % 2 = 0
    BY <1>1, <1>2, <1>6 DEF Typed, CallTyped, Busy
  <2> QED BY <1>2, <1>6, <2>1, <2>2, <2>3 DEF CallTyped
<1>8. Typed'
  <2>1. Whole(blen, position)'
    BY <1>1, <1>2, <1>4 DEF Typed, Whole
  <2>2. cursor' \in 1..(Len(Packets) + 1) /\ finished' \in BOOLEAN
    <3>1. Packets[cursor].eos \in BOOLEAN /\ finished \in BOOLEAN
      BY <1>1, <1>5, PacketFacts DEF Typed
    <3> QED BY <1>2, <1>5, <3>1
  <2> QED BY <1>1, <1>2, <1>4, <1>7, <2>1, <2>2 DEF Typed
<1>9. Upcoming' = Upcoming
  BY <1>2, <1>5, <1>6 DEF Upcoming
<1>10. Counted => Counted'
  BY <1>2, <1>4, <1>6 DEF Counted
<1>11. /\ (Straight => Straight') /\ (ToTheEnd => ToTheEnd')
  BY <1>1, <1>3, <1>6, <1>9, QuietKeeps
<1>12. call' # Idle
  BY <1>5, <1>6 DEF Idle
<1>13. undisturbed /\ ~ sought /\ finished' => cursor' > Len(Packets)
  <2>1. Packets[cursor].eos => cursor = Len(Packets)
    BY <1>1, <1>5, PacketFacts DEF Typed
  <2>2. undisturbed /\ ~ sought /\ finished => cursor > Len(Packets)
    BY DEF PInv
  <2>3. finished' => finished \/ Packets[cursor].eos
    BY <1>2, Zenon
  <2>4. cursor' > Len(Packets) <=> cursor + 1 > Len(Packets)
    BY <1>2
  <2>5. cursor = Len(Packets) => cursor + 1 > Len(Packets)
    BY <1>5
  <2>6. ~ cursor > Len(Packets)
    BY <1>5
  <2> QED BY <2>1, <2>2, <2>3, <2>4, <2>5, <2>6, Zenon
<1> QED BY <1>2, <1>4, <1>8, <1>10, <1>11, <1>12, <1>13 DEF PInv

(* A call that has returned. *)
LEMMA Returned ==
    ASSUME call' = Idle, stream' = stream, stream \in Streams
    PROVE  CallTyped' /\ call'.op = "idle" /\ call'.packet = 0
<1>1. call'.op = "idle" /\ call'.packet = 0
  BY DEF Idle
<1>2. Packets' = Packets /\ Len(Packets) \in Nat
  BY StreamFacts, SameStream
<1>3. call' \in Calls'
  BY <1>2 DEF Idle, Calls
<1> QED BY <1>1, <1>3 DEF CallTyped

LEMMA FetchFailsKeeps ==
    ASSUME PInv, FetchFails
    PROVE  PInv'
<1>1. Typed
  BY DEF PInv
<1>2. /\ Busy /\ call.packet = 0 /\ position >= blen
      /\ call' = Idle /\ finished' = TRUE
      /\ stream' = stream /\ store' = store /\ blen' = blen
      /\ position' = position /\ preskipRemaining' = preskipRemaining
      /\ totalSamples' = totalSamples /\ cachedTotal' = cachedTotal
      /\ heard' = heard /\ base' = base /\ sought' = sought
  BY DEF FetchFails, Ready, Empty, Return, buffer
<1>3. \/ /\ cursor > Len(Packets) /\ cursor' = cursor
         /\ undisturbed' = (undisturbed /\ call.op # "skip")
      \/ /\ cursor <= Len(Packets) /\ cursor' = cursor + 1
         /\ undisturbed' = FALSE
  BY DEF FetchFails
<1>4. Quiet
  BY <1>2 DEF Quiet
<1>5. /\ Channels' = Channels /\ PreSkip' = PreSkip /\ Packets' = Packets
      /\ PageEndsInPreSkip' = PageEndsInPreSkip
  BY <1>2, SameStream
<1>6. CallTyped' /\ call'.op = "idle" /\ call'.packet = 0
  BY <1>1, <1>2, Returned DEF Typed
<1>7. Typed'
  <2>1. Whole(blen, position)'
    BY <1>1, <1>2, <1>5 DEF Typed, Whole
  <2>2. cursor' \in 1..(Len(Packets) + 1)
    BY <1>1, <1>3, TypedFacts DEF Typed
  <2>3. undisturbed' \in BOOLEAN
    BY <1>1, <1>3, Zenon DEF Typed
  <2> QED BY <1>1, <1>2, <1>5, <1>6, <2>1, <2>2, <2>3 DEF Typed
<1>8. ASSUME undisturbed'
      PROVE  /\ Counted'
             /\ ~ PageEndsInPreSkip' => Straight' /\ ToTheEnd'
             /\ cursor' > Len(Packets') /\ Empty'
  <2>1. undisturbed /\ call.op # "skip" /\ cursor > Len(Packets) /\ cursor' = cursor
    BY <1>3, <1>8, Zenon
  <2>2. Counted'
    <3>1. Counted
      BY <2>1 DEF PInv
    <3> QED BY <1>2, <1>5, <1>6, <2>1, <3>1 DEF Counted
  <2>3. Upcoming' = Upcoming
    BY <1>2, <1>6, <2>1 DEF Upcoming
  <2>4. ~ PageEndsInPreSkip' => Straight' /\ ToTheEnd'
    <3>1. ~ PageEndsInPreSkip => Straight /\ ToTheEnd
      BY <2>1 DEF PInv
    <3> QED BY <1>1, <1>4, <1>5, <1>6, <2>3, <3>1, QuietKeeps
  <2>5. cursor' > Len(Packets') /\ Empty'
    BY <1>2, <1>5, <2>1 DEF Empty
  <2> QED BY <2>2, <2>4, <2>5
<1> QED BY <1>7, <1>8, Zenon DEF PInv

LEMMA DisturbedKeeps ==
    ASSUME Typed', undisturbed' = FALSE
    PROVE  PInv'
  BY DEF PInv

LEMMA DecodeFailsKeeps ==
    ASSUME PInv, DecodeFails
    PROVE  PInv'
<1>1. Typed
  BY DEF PInv
<1>2. /\ position' = 0 /\ blen' = Len(store) * Channels /\ undisturbed' = FALSE
      /\ call' = Idle
      /\ stream' = stream /\ store' = store /\ cursor' = cursor
      /\ preskipRemaining' = preskipRemaining
      /\ totalSamples' = totalSamples /\ finished' = finished /\ cachedTotal' = cachedTotal
      /\ heard' = heard /\ base' = base /\ sought' = sought
  BY DEF DecodeFails, Return
<1>3. /\ Channels' = Channels /\ PreSkip' = PreSkip /\ Packets' = Packets
  BY <1>2, SameStream
<1>4. CallTyped'
  BY <1>1, <1>2, Returned DEF Typed
<1>5. /\ Whole(blen, position)' /\ blen' <= Len(store') * Channels' /\ position' <= Cap * Channels'
      /\ undisturbed' \in BOOLEAN
  <2>1. Len(store) \in Nat /\ Channels \in {1, 2} /\ Cap * Channels \in Nat
    BY <1>1, TypedFacts DEF Typed
  <2>2. Len(store) * Channels \in Nat /\ (Len(store) * Channels) % Channels = 0 /\ 0 % Channels = 0
    BY <2>1
  <2>3. blen' \in Nat /\ position' \in Nat /\ blen' % Channels' = 0 /\ position' % Channels' = 0
    BY <1>2, <1>3, <2>2
  <2> DEFINE n == Len(store) * Channels
  <2>4. blen' = n /\ Len(store') * Channels' = n /\ n \in Nat
    BY <1>2, <1>3, <2>2
  <2> HIDE DEF n
  <2>5. blen' <= Len(store') * Channels'
    BY <2>4
  <2>6. position' <= Cap * Channels'
    BY <1>2, <1>3, <2>1
  <2> QED BY <1>2, <2>3, <2>5, <2>6 DEF Whole
<1>6. Typed'
  BY <1>1, <1>2, <1>3, <1>4, <1>5 DEF Typed
<1> QED BY <1>2, <1>6, DisturbedKeeps

LEMMA TotalTyped ==
    ASSUME Typed
    PROVE  TotalOnce \in [known: BOOLEAN, ok: BOOLEAN, value: Int] /\ Length \in Int
<1> DEFINE ok == /\ Last(Packets).eos
                 /\ \A k \in DOMAIN Packets : Packets[k].state # "lost"
<1>1. Len(Packets) \in 1..Len(Packets)
  BY TypedFacts
<1>2. Last(Packets).eos \in BOOLEAN /\ LastGranule \in Nat /\ PreSkip \in Nat
  BY <1>1, PacketFacts, TypedFacts DEF Typed, LastGranule, Last
<1>3. ok \in BOOLEAN
  BY <1>2
<1>4. cachedTotal \in [known: BOOLEAN, ok: BOOLEAN, value: Int]
  BY DEF Typed
<1>5. TotalOnce = IF cachedTotal.known THEN cachedTotal
                  ELSE [known |-> TRUE, ok |-> ok, value |-> IF ok THEN LastGranule - PreSkip ELSE 0]
  BY DEF TotalOnce
<1> HIDE DEF ok
<1>6. TotalOnce \in [known: BOOLEAN, ok: BOOLEAN, value: Int]
  <2> DEFINE v == IF ok THEN LastGranule - PreSkip ELSE 0
  <2>1. v \in Int
    BY <1>2
  <2>2. TotalOnce = IF cachedTotal.known THEN cachedTotal ELSE [known |-> TRUE, ok |-> ok, value |-> v]
    BY <1>5
  <2> HIDE DEF v
  <2>3. [known |-> TRUE, ok |-> ok, value |-> v] \in [known: BOOLEAN, ok: BOOLEAN, value: Int]
    BY <1>3, <2>1
  <2> QED BY <1>4, <2>2, <2>3, Zenon
<1> QED BY <1>6 DEF Length

LEMMA CallLengthKeeps ==
    ASSUME PInv, CallLength
    PROVE  PInv'
<1>1. Typed
  BY DEF PInv
<1>2. /\ call = Idle /\ cachedTotal' = TotalOnce /\ result'.err = "none"
      /\ stream' = stream /\ store' = store /\ blen' = blen
      /\ position' = position /\ preskipRemaining' = preskipRemaining
      /\ totalSamples' = totalSamples /\ finished' = finished /\ call' = call
      /\ heard' = heard /\ base' = base /\ sought' = sought
  BY DEF CallLength, buffer
<1>3. \/ cursor' = cursor /\ undisturbed' = undisturbed
      \/ cursor' = Len(Packets) + 1 /\ undisturbed' = FALSE
  BY DEF CallLength
<1>4. Quiet
  BY <1>2 DEF Quiet
<1>5. /\ Channels' = Channels /\ PreSkip' = PreSkip /\ Packets' = Packets
      /\ PageEndsInPreSkip' = PageEndsInPreSkip
  BY <1>2, SameStream
<1>6. CallTyped' /\ call'.op = "idle" /\ call'.packet = 0
  BY <1>1, <1>2, Returned DEF Typed
<1>7. Typed'
  <2>1. Whole(blen, position)'
    BY <1>1, <1>2, <1>5 DEF Typed, Whole
  <2>2. cursor' \in 1..(Len(Packets) + 1) /\ undisturbed' \in BOOLEAN
    <3>1. cursor' \in 1..(Len(Packets) + 1)
      BY <1>1, <1>3, TypedFacts DEF Typed
    <3>2. undisturbed' \in BOOLEAN
      BY <1>1, <1>3, Zenon DEF Typed
    <3> QED BY <3>1, <3>2
  <2>3. cachedTotal' \in [known: BOOLEAN, ok: BOOLEAN, value: Int]
    BY <1>1, <1>2, TotalTyped
  <2> QED BY <1>1, <1>2, <1>5, <1>6, <2>1, <2>2, <2>3 DEF Typed
<1>8. ASSUME undisturbed'
      PROVE  /\ Counted'
             /\ ~ PageEndsInPreSkip' => Straight' /\ ToTheEnd'
             /\ ~ sought' /\ finished' => cursor' > Len(Packets')
  <2>1. undisturbed /\ cursor' = cursor
    BY <1>3, <1>8, Zenon
  <2>2. /\ Counted /\ (~ PageEndsInPreSkip => Straight /\ ToTheEnd)
        /\ ~ sought /\ finished => cursor > Len(Packets)
    BY <2>1 DEF PInv
  <2>3. Counted'
    BY <1>2, <1>5, <2>2 DEF Counted
  <2>4. Upcoming' = Upcoming
    BY <1>2, <2>1 DEF Upcoming
  <2>5. ~ PageEndsInPreSkip' => Straight' /\ ToTheEnd'
    BY <1>1, <1>2, <1>4, <1>5, <2>2, <2>4, QuietKeeps
  <2> QED BY <1>2, <1>5, <2>1, <2>2, <2>3, <2>5
<1>9. result'.err # "eof"
  BY <1>2
<1> QED BY <1>7, <1>8, <1>9, Zenon DEF PInv

(* Where a seek to the position g ends up: at the beginning of a packet,   *)
(* before g.                                                               *)
LEMMA SeekTarget ==
    ASSUME stream \in Streams, NEW g \in Nat, g # 0, Findable(g)
    PROVE  LET k == PageOf(g)
           IN  /\ k \in 1..Len(Packets)
               /\ EndBefore(k) = Packets[k].from
               /\ EndBefore(k) < g
<1> DEFINE S == Above(g)
           m == Min(S)
           k == PageOf(g)
<1>1. Len(Packets) \in Nat \ {0} /\ DOMAIN Packets = 1..Len(Packets)
  BY StreamFacts
<1>2. S \subseteq Nat /\ S # {}
  BY <1>1 DEF Above, Findable
<1>3. m \in S /\ \A x \in S : m <= x
  <2> HIDE DEF S
  <2>1. \E x \in S : \A y \in S : x <= y
    BY <1>2, LeastOf, Zenon
  <2> QED BY <2>1, Zenon DEF Min
<1> HIDE DEF m
<1>4. m \in 1..Len(Packets)
  BY <1>1, <1>3 DEF Above
<1>5. k = Packets[m].first
  BY DEF PageOf, m
<1>6. k \in 1..m /\ (k > 1 => Packets[k - 1].valid)
  BY <1>4, <1>5, PacketFacts
<1> HIDE DEF k
<1>7. k \in 1..Len(Packets)
  BY <1>1, <1>4, <1>6
<1>8. Packets[k].from = IF k = 1 THEN 0 ELSE Packets[k - 1].from + Packets[k - 1].n
  BY <1>7, PacketFacts
<1>9. EndBefore(k) = Packets[k].from /\ EndBefore(k) < g
  <2>1. CASE k = 1
    BY <1>8, <2>1 DEF EndBefore
  <2>2. CASE k # 1
    <3>1. k - 1 \in 1..Len(Packets) /\ k - 1 # Len(Packets) /\ k - 1 < m
      BY <1>1, <1>4, <1>6, <2>2
    <3>2. Packets[k - 1].valid
      BY <1>6, <1>7, <2>2
    <3>3. /\ Packets[k - 1].granule = Packets[k - 1].from + Packets[k - 1].n
          /\ Packets[k - 1].granule \in Nat
      BY <3>1, <3>2, PacketFacts
    <3>4. k - 1 \notin S
      BY <1>3, <1>4, <1>6, <3>1
    <3>5. ~ (Packets[k - 1].granule >= g)
      BY <1>1, <3>1, <3>4 DEF Above
    <3> QED BY <1>8, <2>2, <3>3, <3>5 DEF EndBefore
  <2> QED BY <2>1, <2>2
<1> QED BY <1>7, <1>9 DEF k

LEMMA SeekFoundKeeps ==
    ASSUME PInv, NEW s \in Nat, SeekFound(s),
           cachedTotal' \in [known: BOOLEAN, ok: BOOLEAN, value: Int]
    PROVE  PInv'
<1> DEFINE g     == s + PreSkip
           k     == IF g = 0 THEN 1 ELSE PageOf(g)
           start == IF g = 0 THEN 0 ELSE EndBefore(k)
<1>1. Typed
  BY DEF PInv
<1>2. /\ Findable(g) /\ cursor' = k
      /\ preskipRemaining' = 0 /\ totalSamples' = start - PreSkip
      /\ position' = 0 /\ blen' = 0 /\ base' = s /\ heard' = <<>>
      /\ undisturbed' = TRUE /\ sought' = TRUE
      /\ stream' = stream /\ store' = store /\ finished' = finished
      /\ IF g = start
         THEN call' = Idle /\ result'.err = "none"
         ELSE call' = [op |-> "skip", packet |-> 0, want |-> 2 * (g - start), got |-> 0]
  BY DEF SeekFound, Return
<1>3. stream \in Streams /\ PreSkip \in Nat /\ Len(Packets) \in Nat \ {0} /\ Channels \in {1, 2}
  BY <1>1, TypedFacts DEF Typed
<1>4. g \in Nat
  BY <1>3
<1>5. /\ k \in 1..Len(Packets) /\ start = Packets[k].from /\ start \in Nat
      /\ start <= g
  <2> HIDE DEF g
  <2>1. CASE g = 0
    <3>1. Packets[1].from = 0
      BY <1>3, PacketFacts
    <3> QED BY <1>3, <2>1, <3>1
  <2>2. CASE g # 0
    <3>1. /\ PageOf(g) \in 1..Len(Packets)
          /\ EndBefore(PageOf(g)) = Packets[PageOf(g)].from
          /\ EndBefore(PageOf(g)) < g
      BY <1>2, <1>3, <1>4, <2>2, SeekTarget
    <3>2. Packets[PageOf(g)].from \in Nat
      BY <1>3, <3>1, PacketFacts
    <3> QED BY <1>4, <2>2, <3>1, <3>2
  <2> QED BY <2>1, <2>2
<1>6. /\ Channels' = Channels /\ PreSkip' = PreSkip /\ Packets' = Packets
  BY <1>2, SameStream
<1>7. g = s + PreSkip
  OBVIOUS
<1> HIDE DEF g, k, start
<1>8. /\ CallTyped' /\ call'.packet = 0
      /\ call' = Idle => result'.err # "eof"
      /\ \/ call'.op = "idle" /\ g = start
         \/ call'.op = "skip" /\ call'.want = 2 * (g - start) /\ call'.got = 0
  <2>1. CASE g = start
    <3>1. call' = Idle /\ result'.err = "none"
      BY <1>2, <2>1
    <3> QED BY <1>2, <1>3, <2>1, <3>1, Returned
  <2>2. CASE g # start
    <3> DEFINE w == 2 * (g - start)
    <3>1. call' = [op |-> "skip", packet |-> 0, want |-> w, got |-> 0]
      BY <1>2, <2>2
    <3>2. w \in Nat /\ w > 0 /\ w % 2 = 0
      BY <1>4, <1>5, <2>2
    <3> HIDE DEF w
    <3>3. call'.op = "skip" /\ call'.packet = 0 /\ call'.want = w /\ call'.got = 0
      BY <3>1
    <3>4. call' \in Calls' /\ call' # Idle
      <4>1. 0 \in 0..Len(Packets') /\ 0 \in Nat
        BY <1>3, <1>6
      <4> QED BY <3>1, <3>2, <3>3, <4>1 DEF Calls, Idle
    <3> QED BY <3>2, <3>3, <3>4 DEF CallTyped, w
  <2> QED BY <2>1, <2>2
<1>9. Typed'
  <2>1. Whole(blen, position)'
    BY <1>2, <1>3, <1>6 DEF Whole
  <2>2. Len(store') * Channels' \in Nat /\ Cap * Channels' \in Nat /\ store' \in Seq(Int) /\ Len(store') \in {0, Cap}
    <3>1. store \in Seq(Int) /\ Len(store) \in {0, Cap} /\ Len(store) \in Nat
      BY <1>1 DEF Typed
    <3> QED BY <1>1, <1>2, <1>6, <3>1, <1>3, TypedFacts
  <2>3. <<>> \in Seq(Int) /\ Len(<<>>) = 0 /\ 0 % Channels' = 0
    BY <1>3, <1>6
  <2>4. totalSamples' \in Int /\ preskipRemaining' \in 0..PreSkip' /\ cursor' \in 1..(Len(Packets') + 1)
    BY <1>2, <1>3, <1>5, <1>6
  <2>5. finished \in BOOLEAN
    BY <1>1 DEF Typed
  <2>6. 0 <= Len(store') * Channels' /\ 0 <= Cap * Channels'
    BY <2>2
  <2> QED BY <1>2, <1>3, <1>8, <2>1, <2>2, <2>3, <2>4, <2>5, <2>6 DEF Typed
<1>10. Counted'
  <2>1. Len(heard') \div Channels' = 0
    BY <1>2, <1>3, <1>6
  <2>2. totalSamples' = start - PreSkip /\ base' = s /\ heard' = <<>>
    BY <1>2
  <2>3. CASE call'.op = "idle" /\ g = start
    <3>1. totalSamples' = base' + Len(heard') \div Channels'
      BY <1>3, <1>7, <2>1, <2>2, <2>3
    <3> QED BY <2>3, <3>1 DEF Counted
  <2>4. CASE call'.op = "skip" /\ call'.want = 2 * (g - start) /\ call'.got = 0
    <3>1. 2 * (start - PreSkip) + (2 * (g - start) - 0) = 2 * s
      BY <1>3, <1>4, <1>5, <1>7, SMTT(30)
    <3>2. 2 * totalSamples' + (call'.want - call'.got) = 2 * base'
      BY <2>2, <2>4, <3>1
    <3> QED BY <2>2, <2>4, <3>2 DEF Counted
  <2> QED BY <1>8, <2>3, <2>4
<1>11. Upcoming' = k
  BY <1>2, <1>8 DEF Upcoming
<1>12. Straight'
  <2>1. Left(blen, position)' = 0
    BY <1>2 DEF Left
  <2>2. GoesOn(store, blen, position, Upcoming)'
    <3>1. \A j \in 0..(0 - 1) : FALSE
      OBVIOUS
    <3>2. PreSkip + (start - PreSkip) + 0 = Packets[k].from
      BY <1>3, <1>5
    <3> QED BY <1>2, <1>6, <1>11, <2>1, <3>1, <3>2 DEF GoesOn
  <2>3. HeardRight'
    BY <1>2 DEF HeardRight
  <2> QED BY <1>2, <2>2, <2>3 DEF Straight, Placed
<1>13. ToTheEnd'
  <2>1. ~ (Upcoming' > Len(Packets'))
    BY <1>3, <1>5, <1>6, <1>11
  <2> QED BY <2>1 DEF ToTheEnd, Ends
<1>14. sought'
  BY <1>2
<1> QED BY <1>8, <1>9, <1>10, <1>12, <1>13, <1>14, Zenon DEF PInv

LEMMA SeekKeeps ==
    ASSUME PInv, NEW s \in Nat, SeekSample(s),
           cachedTotal' \in [known: BOOLEAN, ok: BOOLEAN, value: Int]
    PROVE  PInv'
<1>1. CASE SeekFound(s)
  BY <1>1, SeekFoundKeeps
<1>2. CASE SeekMissed(s)
  <2>1. Typed
    BY DEF PInv
  <2>2. /\ cursor' \in 1..(Len(Packets) + 1) /\ undisturbed' = FALSE /\ call' = Idle
        /\ stream' = stream /\ store' = store /\ blen' = blen
        /\ position' = position /\ preskipRemaining' = preskipRemaining
        /\ totalSamples' = totalSamples /\ finished' = finished
        /\ heard' = heard /\ base' = base /\ sought' = sought
    BY <1>2 DEF SeekMissed, buffer, Return
  <2>3. /\ Channels' = Channels /\ PreSkip' = PreSkip /\ Packets' = Packets
    BY <2>2, SameStream
  <2>4. CallTyped'
    BY <2>1, <2>2, Returned DEF Typed
  <2>5. Whole(blen, position)'
    BY <2>1, <2>2, <2>3 DEF Typed, Whole
  <2>6. Typed'
    BY <2>1, <2>2, <2>3, <2>4, <2>5 DEF Typed
  <2> QED BY <2>2, <2>6, DisturbedKeeps
<1> QED BY <1>1, <1>2 DEF SeekSample

LEMMA SeeksKeep ==
    ASSUME PInv, Seeks
    PROVE  PInv'
<1>1. Typed
  BY DEF PInv
<1>2. cachedTotal \in [known: BOOLEAN, ok: BOOLEAN, value: Int] /\ totalSamples \in Int
  BY <1>1 DEF Typed
<1>3. TotalOnce \in [known: BOOLEAN, ok: BOOLEAN, value: Int] /\ Length \in Int
  BY <1>1, TotalTyped
<1>4. \A b \in Samples : b \in Nat
  BY PlayerConstants
<1>5. CASE CallSeekStart
  <2>1. PICK s \in Samples : SeekSample(s)
    BY <1>5 DEF CallSeekStart
  <2>2. cachedTotal' = cachedTotal
    BY <1>5 DEF CallSeekStart
  <2> QED BY <1>2, <1>4, <2>1, <2>2, SeekKeeps
<1>6. CASE CallSeekCurrent
  <2>1. PICK b \in Samples : SeekSample(Max({0, totalSamples - b}))
    BY <1>6 DEF CallSeekCurrent
  <2>2. cachedTotal' = cachedTotal
    BY <1>6 DEF CallSeekCurrent
  <2>3. totalSamples - b \in Int
    BY <1>2, <1>4
  <2>4. Max({0, totalSamples - b}) \in Nat
    BY <2>3, NotBelowZero, Zenon
  <2> QED BY <1>2, <2>1, <2>2, <2>4, SeekKeeps
<1>7. CASE CallSeekEnd
  <2>1. PICK b \in Samples : SeekSample(Max({0, Length - b}))
    BY <1>7 DEF CallSeekEnd
  <2>2. cachedTotal' = TotalOnce
    BY <1>7 DEF CallSeekEnd
  <2>3. Length - b \in Int
    BY <1>3, <1>4
  <2>4. Max({0, Length - b}) \in Nat
    BY <2>3, NotBelowZero, Zenon
  <2> QED BY <1>3, <2>1, <2>2, <2>4, SeekKeeps
<1> QED BY <1>5, <1>6, <1>7 DEF Seeks

----------------------------------------------------------------------------
(* Decoding.                                                               *)
LEMMA WholeLeft ==
    ASSUME NEW c \in {1, 2}, NEW N \in Nat, NEW S \in Nat
    PROVE  /\ N * c \in Nat /\ S * c \in Nat /\ (N * c) % c = 0 /\ (S * c) % c = 0
           /\ (S * c) \div c = S
           /\ (IF S * c < N * c THEN (N * c - S * c) \div c ELSE 0) = IF S < N THEN N - S ELSE 0
           /\ \A M \in Nat : N <= M => N * c <= M * c
<1>1. CASE c = 1
  BY <1>1
<1>2. CASE c = 2
  BY <1>2
<1> QED BY <1>1, <1>2

(* The packet under way. *)
Current == Packets[call.packet]

LEMMA CurrentFacts ==
    ASSUME Typed, call.packet # 0
    PROVE  /\ call.packet \in 1..Len(Packets) /\ cursor = call.packet + 1 /\ position >= blen
           /\ Current.from \in Nat /\ Current.n \in 1..Cap /\ Current.granule \in Nat
           /\ Current.valid \in BOOLEAN
           /\ call.packet < Len(Packets) =>
                /\ Packets[call.packet + 1].from = Current.from + Current.n
                /\ Current.valid => Current.granule = Current.from + Current.n
           /\ call.packet = Len(Packets) =>
                /\ Current.valid /\ Current.granule <= Current.from + Current.n
                /\ Current = Last(Packets)
<1>1. call.packet \in 1..Len(Packets) /\ cursor = call.packet + 1 /\ position >= blen
  <2>1. call.packet \in 0..Len(Packets) /\ cursor = call.packet + 1 /\ position >= blen
    BY DEF Typed, CallTyped, Calls
  <2> QED BY <2>1
<1>2. stream \in Streams /\ Len(Packets) \in Nat
  BY TypedFacts DEF Typed
<1> DEFINE k == call.packet
<1>3. k \in 1..Len(Packets)
  BY <1>1
<1> HIDE DEF k
<1>4. /\ Packets[k].from \in Nat /\ Packets[k].n \in 1..Cap /\ Packets[k].granule \in Nat
      /\ Packets[k].valid \in BOOLEAN
      /\ k # Len(Packets) => (Packets[k].valid => Packets[k].granule = Packets[k].from + Packets[k].n)
      /\ k = Len(Packets) => Packets[k].valid /\ Packets[k].granule <= Packets[k].from + Packets[k].n
  BY <1>2, <1>3, PacketFacts
<1>5. k < Len(Packets) => Packets[k + 1].from = Packets[k].from + Packets[k].n
  <2> SUFFICES ASSUME k < Len(Packets) PROVE Packets[k + 1].from = Packets[k].from + Packets[k].n
    OBVIOUS
  <2>1. k + 1 \in 1..Len(Packets) /\ k + 1 # 1 /\ (k + 1) - 1 = k
    BY <1>2, <1>3
  <2>2. Packets[k + 1].from = IF k + 1 = 1 THEN 0 ELSE Packets[(k + 1) - 1].from + Packets[(k + 1) - 1].n
    BY <1>2, <2>1, PacketFacts
  <2> QED BY <2>1, <2>2
<1>6. k = Len(Packets) => Packets[k] = Last(Packets)
  BY DEF Last
<1>7. Current = Packets[k] /\ k = call.packet
  BY DEF Current, k
<1>8. k < Len(Packets) => k # Len(Packets)
  BY <1>2, <1>3
<1> QED BY <1>1, <1>4, <1>5, <1>6, <1>7, <1>8

LEMMA SkipFacts ==
    ASSUME Typed, call.packet # 0
    PROVE  /\ Skip(Current) \in Nat
           /\ Skip(Current) = IF Current.n <= preskipRemaining THEN Current.n ELSE preskipRemaining
           /\ preskipRemaining - Skip(Current) \in 0..PreSkip
<1>1. Current.n \in Nat /\ Current.n > 0
  BY CurrentFacts, TypedFacts
<1>2. preskipRemaining \in 0..PreSkip /\ PreSkip \in Nat
  BY TypedFacts DEF Typed
<1>3. Min({Current.n, preskipRemaining}) = IF Current.n <= preskipRemaining THEN Current.n ELSE preskipRemaining
  BY <1>1, <1>2, MinOfTwo
<1>4. Skip(Current) = IF Current.n <= preskipRemaining THEN Current.n ELSE preskipRemaining
  BY <1>1, <1>2, <1>3 DEF Skip
<1> QED BY <1>1, <1>2, <1>4

LEMMA SizeFacts ==
    ASSUME Typed, call.packet # 0
    PROVE  LET excess == (totalSamples + Current.n + PreSkip) - Current.granule
           IN  /\ NewSize(Current) = IF Current.valid /\ excess > 0 /\ excess < Current.n
                                     THEN Current.n - excess ELSE Current.n
               /\ NewSize(Current) \in 1..(Current.n)
<1> DEFINE excess == (totalSamples + Current.n + PreSkip) - Current.granule
<1>1. Current.n \in Nat /\ Current.n > 0 /\ Current.granule \in Nat /\ Current.valid \in BOOLEAN
  BY CurrentFacts, TypedFacts
<1>2. totalSamples \in Int /\ PreSkip \in Nat
  BY TypedFacts DEF Typed
<1>3. NewSize(Current) = IF Current.valid /\ excess > 0 /\ excess < Current.n
                         THEN Current.n - excess ELSE Current.n
  BY Zenon DEF NewSize, Actual, Kept
<1>4. excess \in Int
  BY <1>1, <1>2
<1> HIDE DEF excess
<1>5. NewSize(Current) \in 1..(Current.n)
  BY <1>1, <1>3, <1>4
<1> QED BY <1>3, <1>5 DEF excess

(* What the buffer holds after decoding: the packet's frames first. *)
Decoded(buf) ==
    /\ buf \in Seq(Int) /\ Len(buf) = Cap
    /\ \A i \in 1..(Current.n) : buf[i] = Current.from + i - 1

DecodedBuffer == [i \in 1..Cap |-> IF i <= Current.n THEN Current.from + i - 1
                                   ELSE IF i \in DOMAIN store THEN store[i] ELSE -1]

LEMMA DecodedIs ==
    ASSUME Typed, call.packet # 0
    PROVE  Decoded(DecodedBuffer)
<1>1. Current.from \in Nat /\ Current.n \in 1..Cap /\ Cap \in Nat
  BY CurrentFacts, TypedFacts
<1>2. store \in Seq(Int)
  BY DEF Typed
<1> DEFINE buf == DecodedBuffer
<1>3. \A i \in 1..Cap : buf[i] = IF i <= Current.n THEN Current.from + i - 1
                                 ELSE IF i \in DOMAIN store THEN store[i] ELSE -1
  BY DEF DecodedBuffer
<1>4. \A i \in DOMAIN store : store[i] \in Int
  BY <1>2
<1>5. \A i \in 1..Cap : buf[i] \in Int
  BY <1>1, <1>3, <1>4
<1>6. buf = [i \in 1..Cap |-> buf[i]]
  BY DEF DecodedBuffer
<1> HIDE DEF buf
<1>7. buf \in Seq(Int) /\ Len(buf) = Cap
  BY <1>1, <1>5, <1>6, IntsOf
<1>8. \A i \in 1..(Current.n) : buf[i] = Current.from + i - 1
  BY <1>1, <1>3
<1> QED BY <1>7, <1>8 DEF Decoded, buf

(* After decoding, before rendering, the player stands where it should:    *)
(* the pre-skip is taken off the packet's start, and of its end what the   *)
(* last granule position cuts, for only the last packet is cut.            *)
LEMMA DecodePlaced ==
    ASSUME Typed, call.packet # 0, ~ PageEndsInPreSkip, Straight, NEW buf, Decoded(buf)
    PROVE  LET len == NewSize(Current) * Channels
               pos == Skip(Current) * Channels
               rem == preskipRemaining - Skip(Current)
               nxt == call.packet + 1
           IN  Placed(buf, len, pos, rem, nxt) /\ Ends(len, pos, rem, nxt)
<1> DEFINE k == call.packet
           N == NewSize(Current)
           S == Skip(Current)
           len == N * Channels
           pos == S * Channels
           rem == preskipRemaining - S
           from == Current.from
           n == Current.n
           gran == Current.granule
           excess == (totalSamples + n + PreSkip) - gran
<1>1. /\ k \in 1..Len(Packets) /\ position >= blen
      /\ from \in Nat /\ n \in Nat /\ n > 0 /\ gran \in Nat /\ Current.valid \in BOOLEAN
      /\ k < Len(Packets) => /\ Packets[k + 1].from = from + n
                             /\ Current.valid => gran = from + n
      /\ k = Len(Packets) => Current.valid /\ gran <= from + n /\ Current = Last(Packets)
  BY CurrentFacts, TypedFacts
<1>2. /\ S \in Nat /\ S = IF n <= preskipRemaining THEN n ELSE preskipRemaining
      /\ rem \in 0..PreSkip
  BY SkipFacts
<1>3. /\ N = IF Current.valid /\ excess > 0 /\ excess < n THEN n - excess ELSE n
      /\ N \in Nat
  BY SizeFacts, <1>1
<1>4. /\ Channels \in {1, 2} /\ PreSkip \in Nat /\ Len(Packets) \in Nat \ {0}
      /\ totalSamples \in Int /\ preskipRemaining \in Nat /\ base \in Nat
      /\ Left(blen, position) = 0
  BY <1>1, TypedFacts DEF Typed
<1>5. Upcoming = k
  BY DEF Upcoming
<1>6. /\ Left(len, pos) = (IF S < N THEN N - S ELSE 0)
      /\ pos \div Channels = S
  BY <1>2, <1>3, <1>4, WholeLeft DEF Left
<1>7. \A i \in 1..n : buf[i] = from + i - 1
  BY DEF Decoded
<1>8. Placed(store, blen, position, preskipRemaining, k)
  BY <1>5 DEF Straight
<1>9. Current = Packets[k] /\ DOMAIN Packets = 1..Len(Packets) /\ stream \in Streams
  <2>1. stream \in Streams
    BY DEF Typed
  <2> QED BY <2>1, StreamFacts DEF Current
<1>10. Current.valid => from >= PreSkip
  <2>1. Current.valid => ~ (from < PreSkip)
    BY <1>1, <1>9 DEF PageEndsInPreSkip
  <2> QED BY <1>1, <1>4, <2>1
<1> HIDE DEF k, N, S, len, pos, rem, from, n, gran, excess
<1>11. CASE preskipRemaining > 0
  <2>1. /\ totalSamples = 0 /\ heard = <<>> /\ base = 0 /\ call.op # "skip"
        /\ from + preskipRemaining = PreSkip
    <3>1. Waits(blen, position, preskipRemaining, k)
      BY <1>8, <1>11 DEF Placed
    <3>2. k <= Len(Packets) /\ from = Packets[k].from
      <4>1. from = Packets[k].from
        BY <1>9, Zenon DEF from
      <4>2. k <= Len(Packets)
        BY <1>1, <1>4
      <4> QED BY <4>1, <4>2
    <3> QED BY <3>1, <3>2 DEF Waits
  <2>2. ~ Current.valid
    BY <1>1, <1>4, <1>10, <1>11, <2>1
  <2>3. N = n /\ k # Len(Packets) /\ k < Len(Packets)
    BY <1>1, <1>3, <1>4, <2>2
  <2>4. k + 1 <= Len(Packets) => Packets[k + 1].from = from + n
    BY <1>1, <2>3
  <2>5. rem = preskipRemaining - S
    BY DEF rem
  <2>6. rem > 0 => Waits(len, pos, rem, k + 1)
    <3> SUFFICES ASSUME rem > 0 PROVE Waits(len, pos, rem, k + 1)
      OBVIOUS
    <3>1. S = n /\ Left(len, pos) = 0
      BY <1>1, <1>2, <1>4, <1>6, <2>3, <2>5
    <3>2. k + 1 <= Len(Packets) => Packets[k + 1].from + rem = PreSkip
      BY <1>1, <1>4, <2>1, <2>4, <2>5, <3>1
    <3> QED BY <2>1, <3>1, <3>2 DEF Waits
  <2>7. rem = 0 => GoesOn(buf, len, pos, k + 1)
    <3> SUFFICES ASSUME rem = 0 PROVE GoesOn(buf, len, pos, k + 1)
      OBVIOUS
    <3>1. S = preskipRemaining /\ S <= n /\ Left(len, pos) = n - S
      BY <1>1, <1>2, <1>4, <1>6, <2>3, <2>5
    <3>2. ASSUME NEW j \in 0..(Left(len, pos) - 1)
          PROVE  buf[S + 1 + j] = PreSkip + totalSamples + j
      <4>1. S + 1 + j \in 1..n
        BY <1>1, <1>2, <3>1
      <4>2. buf[S + 1 + j] = from + (S + 1 + j) - 1
        BY <1>7, <4>1
      <4> QED BY <1>1, <1>2, <1>4, <2>1, <3>1, <4>2
    <3>3. k + 1 <= Len(Packets) => PreSkip + totalSamples + Left(len, pos) = Packets[k + 1].from
      BY <1>1, <1>2, <1>4, <2>1, <2>4, <3>1
    <3> QED BY <1>6, <3>2, <3>3 DEF GoesOn
  <2>8. ~ (k + 1 > Len(Packets))
    BY <1>1, <1>4, <2>3
  <2>9. Placed(buf, len, pos, rem, k + 1) /\ Ends(len, pos, rem, k + 1)
    BY <2>6, <2>7, <2>8 DEF Placed, Ends
  <2> QED BY <2>9 DEF k, len, pos, rem, N, S
<1>12. CASE preskipRemaining = 0
  <2>1. PreSkip + totalSamples = from
    <3>1. GoesOn(store, blen, position, k)
      BY <1>8, <1>12 DEF Placed
    <3>2. k <= Len(Packets) /\ from = Packets[k].from
      <4>1. from = Packets[k].from
        BY <1>9, Zenon DEF from
      <4>2. k <= Len(Packets)
        BY <1>1, <1>4
      <4> QED BY <4>1, <4>2
    <3>3. PreSkip + totalSamples + Left(blen, position) = Packets[k].from
      BY <3>1, <3>2 DEF GoesOn
    <3> QED BY <1>4, <3>2, <3>3
  <2>2. S = 0 /\ rem = 0
    <3>1. S = 0
      BY <1>1, <1>2, <1>12
    <3> QED BY <1>12, <3>1 DEF rem
  <2>3. excess = (from + n) - gran
    BY <1>1, <1>4, <2>1 DEF excess
  <2>4. k < Len(Packets) => N = n
    BY <1>1, <1>3, <2>3
  <2>5. N <= n /\ Left(len, pos) = N
    BY <1>1, <1>3, <1>6, <2>2, <2>3
  <2>6. ASSUME NEW j \in 0..(Left(len, pos) - 1)
        PROVE  buf[S + 1 + j] = PreSkip + totalSamples + j
    <3>1. S + 1 + j \in 1..n
      BY <1>1, <1>3, <2>2, <2>5
    <3>2. buf[S + 1 + j] = from + (S + 1 + j) - 1
      BY <1>7, <3>1
    <3> QED BY <1>1, <1>4, <2>1, <2>2, <3>2
  <2>7. k + 1 <= Len(Packets) => PreSkip + totalSamples + Left(len, pos) = Packets[k + 1].from
    BY <1>1, <1>3, <1>4, <2>1, <2>4, <2>5
  <2>8. GoesOn(buf, len, pos, k + 1)
    BY <1>6, <2>6, <2>7 DEF GoesOn
  <2>9. Ends(len, pos, rem, k + 1)
    <3> SUFFICES ASSUME ~ DropsPackets, k + 1 > Len(Packets)
                 PROVE  PreSkip + totalSamples + Left(len, pos) = LastGranule
      BY <2>2 DEF Ends
    <3>1. k = Len(Packets)
      BY <1>1, <1>4
    <3>2. Current.valid /\ gran <= from + n /\ Current = Last(Packets)
      BY <1>1, <3>1
    <3>3. LastGranule = gran /\ Last(Packets).from = from
      BY <3>2 DEF LastGranule, gran, from
    <3>4. ~ (gran <= from)
      BY <3>3 DEF DropsPackets
    <3>5. excess < n /\ excess >= 0
      BY <1>1, <2>3, <3>2, <3>4
    <3>6. N = n - excess
      BY <1>1, <1>3, <2>3, <3>2, <3>5
    <3> QED BY <1>1, <1>4, <2>1, <2>3, <2>5, <3>3, <3>6
  <2>10. Placed(buf, len, pos, rem, k + 1)
    BY <2>2, <2>8 DEF Placed
  <2> QED BY <2>9, <2>10 DEF k, len, pos, rem, N, S
<1> QED BY <1>4, <1>11, <1>12

LEMMA DecodeKeeps ==
    ASSUME PInv, Decode
    PROVE  PInv'
<1> DEFINE buf == DecodedBuffer
           N == NewSize(Current)
           S == Skip(Current)
           len == N * Channels
           pos == S * Channels
           rem == preskipRemaining - S
           nxt == call.packet + 1
<1>1. Typed
  BY DEF PInv
<1>2. /\ Busy /\ call.packet # 0
      /\ store' = buf /\ blen' = len /\ preskipRemaining' = rem
      /\ Render(buf, len, pos)
      /\ stream' = stream /\ cursor' = cursor /\ finished' = finished
      /\ cachedTotal' = cachedTotal /\ base' = base
      /\ undisturbed' = undisturbed /\ sought' = sought
  BY DEF Decode, DecodedBuffer, Current
<1>3. Under
  BY <1>1, <1>2, BusyUnder
<1>4. cursor = nxt /\ nxt \in Nat /\ Current.n \in 1..Cap
  <2>1. call.packet \in 1..Len(Packets) /\ cursor = call.packet + 1 /\ Current.n \in 1..Cap
    BY <1>1, <1>2, CurrentFacts
  <2>2. Len(Packets) \in Nat
    BY <1>1, TypedFacts
  <2> QED BY <2>1, <2>2
<1>5. /\ heard \in Seq(Int) /\ Len(heard) % Channels = 0
      /\ totalSamples \in Int /\ base \in Nat /\ cursor \in 1..(Len(Packets) + 1)
  BY <1>1 DEF Typed
<1>6. Channels \in {1, 2} /\ PreSkip \in Nat /\ Cap \in Nat /\ Cap * Channels \in Nat
  BY <1>1, TypedFacts
<1>7. /\ S \in Nat /\ S <= Current.n /\ rem \in 0..PreSkip
  <2>1. preskipRemaining \in Nat
    BY <1>1, <1>6 DEF Typed
  <2> QED BY <1>1, <1>2, <1>4, <1>6, <2>1, SkipFacts
<1>8. N \in 1..(Current.n)
  BY <1>1, <1>2, SizeFacts
<1>9. Decoded(buf)
  BY <1>1, <1>2, DecodedIs
<1>10. buf \in Seq(Int) /\ Len(buf) = Cap
  BY <1>9 DEF Decoded
<1> HIDE DEF buf
<1>11. /\ Whole(len, pos) /\ len <= Cap * Channels /\ pos <= Cap * Channels
  <2>1. N \in Nat /\ N <= Cap /\ S <= Cap
    BY <1>4, <1>6, <1>7, <1>8
  <2> HIDE DEF N, S
  <2>2. /\ N * Channels \in Nat /\ S * Channels \in Nat
        /\ (N * Channels) % Channels = 0 /\ (S * Channels) % Channels = 0
        /\ N * Channels <= Cap * Channels /\ S * Channels <= Cap * Channels
    BY <1>6, <1>7, <2>1, WholeLeft
  <2> QED BY <2>2 DEF Whole
<1> HIDE DEF len, pos, N, S, rem
<1>12. Renders(buf, len, pos)
  <2>1. Advanced(buf, len, pos)
    BY <1>2, <1>3, <1>5, <1>10, <1>11, RenderAdvances
  <2> QED BY <1>2, <1>3, <1>5, <1>11, <2>1 DEF Renders
<1>13. /\ Channels' = Channels /\ PreSkip' = PreSkip /\ Packets' = Packets
       /\ DropsPackets' = DropsPackets /\ PageEndsInPreSkip' = PageEndsInPreSkip
  BY <1>2, SameStream
<1>14. /\ Whole(len, position') /\ position' <= Cap * Channels
       /\ totalSamples' \in Int
       /\ CallTyped' /\ call'.packet = 0
       /\ heard' \in Seq(Int) /\ Len(heard') % Channels = 0
       /\ call' = Idle => result'.err # "eof"
  BY <1>11, <1>12, AdvanceTyped
<1>15. Typed'
  <2>1. Whole(blen, position)'
    BY <1>2, <1>13, <1>14 DEF Whole
  <2>2. blen' <= Len(store') * Channels'
    BY <1>2, <1>10, <1>11, <1>13
  <2>3. preskipRemaining' \in 0..PreSkip' /\ store' \in Seq(Int) /\ Len(store') \in {0, Cap}
    BY <1>2, <1>7, <1>10, <1>13
  <2>4. /\ stream \in Streams /\ cachedTotal \in [known: BOOLEAN, ok: BOOLEAN, value: Int]
        /\ undisturbed \in BOOLEAN /\ finished \in BOOLEAN /\ sought \in BOOLEAN
    BY <1>1 DEF Typed
  <2> QED BY <1>2, <1>5, <1>13, <1>14, <2>1, <2>2, <2>3, <2>4 DEF Typed
<1>16. ASSUME undisturbed'
       PROVE  /\ Counted'
              /\ ~ PageEndsInPreSkip' => Straight' /\ ToTheEnd'
              /\ ~ sought' /\ finished' => cursor' > Len(Packets')
  <2>1. undisturbed
    BY <1>2, <1>16
  <2>2. /\ Counted
        /\ ~ PageEndsInPreSkip => Straight /\ ToTheEnd
        /\ ~ sought /\ finished => cursor > Len(Packets)
    BY <2>1 DEF PInv
  <2>3. Counted'
    BY <1>2, <1>12, <2>2, AdvanceCounts
  <2>4. Upcoming' = nxt
    BY <1>2, <1>4, <1>14 DEF Upcoming
  <2>5. Leaves(buf, len, rem, nxt)
    BY <1>2, <2>4 DEF Leaves
  <2>6. rem \in Nat
    BY <1>6, <1>7
  <2>7. ASSUME ~ PageEndsInPreSkip
        PROVE  Straight' /\ ToTheEnd'
    <3>1. Placed(buf, len, pos, rem, nxt) /\ Ends(len, pos, rem, nxt)
      BY <1>1, <1>2, <1>9, <2>2, <2>7, DecodePlaced DEF len, pos, rem, N, S
    <3> HIDE DEF nxt
    <3>2. HeardRight
      BY <2>2, <2>7 DEF Straight
    <3>3. HeardRight'
      BY <1>12, <2>2, <2>5, <2>6, <3>1, <3>2, AdvanceHeard
    <3>4. Placed(store, blen, position, preskipRemaining, Upcoming)'
      BY <1>4, <1>12, <2>2, <2>5, <2>6, <3>1, AdvancePlaced
    <3>5. ToTheEnd'
      BY <1>12, <2>5, <3>1, AdvanceEnds
    <3> QED BY <3>3, <3>4, <3>5 DEF Straight
  <2>8. ~ sought' /\ finished' => cursor' > Len(Packets')
    BY <1>2, <1>13, <2>2
  <2> QED BY <1>13, <2>3, <2>7, <2>8
<1> QED BY <1>14, <1>15, <1>16, Zenon DEF PInv

----------------------------------------------------------------------------
LEMMA InitEstablishes ==
    ASSUME Init
    PROVE  PInv
<1>1. /\ stream \in Streams /\ cursor = 1 /\ store = <<>> /\ blen = 0 /\ position = 0
      /\ preskipRemaining = PreSkip /\ totalSamples = 0 /\ finished = FALSE
      /\ cachedTotal = [known |-> FALSE, ok |-> TRUE, value |-> 0]
      /\ call = Idle /\ result.err = "none"
      /\ heard = <<>> /\ base = 0 /\ undisturbed = TRUE /\ sought = FALSE
  BY DEF Init
<1>2. /\ Channels \in {1, 2} /\ PreSkip \in Nat /\ Cap \in Nat /\ Len(Packets) \in Nat \ {0}
  BY <1>1, StreamFacts
<1>3. call.op = "idle" /\ call.packet = 0
  BY <1>1 DEF Idle
<1>4. CallTyped
  <2>1. call \in Calls
    BY <1>1, <1>2 DEF Idle, Calls
  <2> QED BY <1>1, <1>3, <2>1 DEF CallTyped
<1>5. Typed
  <2>1. Whole(blen, position)
    BY <1>1, <1>2 DEF Whole
  <2>2. Len(store) * Channels \in Nat /\ Cap * Channels \in Nat
        /\ <<>> \in Seq(Int) /\ Len(<<>>) = 0 /\ 0 % Channels = 0
    BY <1>1, <1>2
  <2>3. cachedTotal \in [known: BOOLEAN, ok: BOOLEAN, value: Int]
    BY <1>1
  <2>4. blen <= Len(store) * Channels /\ position <= Cap * Channels
    BY <1>1, <2>2
  <2>5. cursor \in 1..(Len(Packets) + 1) /\ preskipRemaining \in 0..PreSkip
    BY <1>1, <1>2
  <2> QED BY <1>1, <1>4, <2>1, <2>2, <2>3, <2>4, <2>5 DEF Typed
<1>6. Counted
  BY <1>1, <1>2, <1>3 DEF Counted
<1>7. Upcoming = 1 /\ Left(blen, position) = 0 /\ Packets[1].from = 0
  <2>1. Packets[1].from = 0
    <3>1. 1 \in 1..Len(Packets)
      BY <1>2
    <3> QED BY <1>1, <3>1, PacketFacts
  <2> QED BY <1>1, <1>3, <2>1 DEF Upcoming, Left
<1>8. Straight
  <2>1. HeardRight
    BY <1>1 DEF HeardRight
  <2>2. preskipRemaining > 0 => Waits(blen, position, preskipRemaining, Upcoming)
    BY <1>1, <1>2, <1>3, <1>7 DEF Waits
  <2>3. preskipRemaining = 0 => GoesOn(store, blen, position, Upcoming)
    <3>1. \A j \in 0..(0 - 1) : FALSE
      OBVIOUS
    <3> QED BY <1>1, <1>2, <1>7, <3>1 DEF GoesOn
  <2> QED BY <2>1, <2>2, <2>3 DEF Straight, Placed
<1>9. ToTheEnd
  BY <1>2, <1>7 DEF ToTheEnd, Ends
<1> QED BY <1>1, <1>5, <1>6, <1>8, <1>9 DEF PInv

LEMMA NextKeeps ==
    ASSUME PInv, [Next]_vars
    PROVE  PInv'
<1>1. CASE Reads
  BY <1>1, CallReadKeeps DEF Reads
<1>2. CASE Seeks
  BY <1>2, SeeksKeep
<1>3. CASE CallLength
  BY <1>3, CallLengthKeeps
<1>4. CASE Steps
  BY <1>4, ServeKeeps, FetchKeeps, FetchFailsKeeps, DecodeKeeps, DecodeFailsKeeps DEF Steps
<1>5. CASE UNCHANGED vars
  <2>1. Quiet /\ cursor' = cursor /\ finished' = finished /\ cachedTotal' = cachedTotal
        /\ call' = call /\ result' = result /\ undisturbed' = undisturbed /\ sought' = sought
    BY <1>5 DEF vars, buffer, history, Quiet
  <2>2. /\ Channels' = Channels /\ PreSkip' = PreSkip /\ Packets' = Packets
        /\ PageEndsInPreSkip' = PageEndsInPreSkip
    BY <2>1, SameStream DEF Quiet
  <2>3. Typed
    BY DEF PInv
  <2>4. Typed'
    <3>1. CallTyped' /\ Whole(blen, position)'
      BY <2>1, <2>2, <2>3 DEF Typed, CallTyped, Calls, Busy, Whole, Quiet
    <3> QED BY <2>1, <2>2, <2>3, <3>1 DEF Typed, Quiet
  <2>5. Counted => Counted'
    BY <2>1, <2>2 DEF Counted, Quiet
  <2>6. (Straight => Straight') /\ (ToTheEnd => ToTheEnd')
    <3>1. Upcoming' = Upcoming
      BY <2>1 DEF Upcoming
    <3> QED BY <2>1, <2>3, <3>1, QuietKeeps
  <2>7. Empty => Empty'
    BY <2>1 DEF Empty, Quiet
  <2> QED BY <2>1, <2>2, <2>4, <2>5, <2>6, <2>7 DEF PInv
<1> QED BY <1>1, <1>2, <1>3, <1>4, <1>5 DEF Next

THEOREM PlayerInvariant == Spec => []PInv
<1>1. Init => PInv
  BY InitEstablishes
<1>2. PInv /\ [Next]_vars => PInv'
  BY NextKeeps
<1> QED BY <1>1, <1>2, PTL DEF Spec

(* Without errors the sound starts where the caller asked and has no gap   *)
(* and no repetition, and CurrentSample is the sample that comes next      *)
(* (Read, handleSkip and SeekSample of player.go): for every muxed stream, *)
(* mono or stereo, every way its packets lie on pages, every buffer size   *)
(* and every sequence of reads of whole frames and of seeks.               *)
THEOREM PlayerGapless == Spec => []Gapless
<1>1. PInv => Gapless
  <2> SUFFICES ASSUME PInv, undisturbed
               PROVE  /\ ~ PageEndsInPreSkip =>
                           \A i \in DOMAIN heard :
                               heard[i] = base + PreSkip + (i - 1) \div Channels
                      /\ call = Idle => totalSamples = base + Len(heard) \div Channels
    BY DEF Gapless
  <2>1. call = Idle => call.op # "skip"
    BY DEF Idle
  <2> QED BY <2>1 DEF PInv, Straight, HeardRight, Counted
<1> QED BY <1>1, PlayerInvariant, PTL

(* Played to its end from anywhere a stream whose first page ends after    *)
(* the pre-skip and whose last page drops no packet has the length that    *)
(* Length() tells (handleSkip's trimming of the end).                      *)
THEOREM PlayerLength == Spec => []LengthPlayed
<1>1. PInv => LengthPlayed
  <2> SUFFICES ASSUME PInv, undisturbed, Plain, call = Idle, result.err = "eof"
               PROVE  base + Len(heard) \div Channels = LastGranule - PreSkip
    BY DEF LengthPlayed
  <2>1. Typed /\ Counted /\ ToTheEnd /\ cursor > Len(Packets) /\ Empty
    BY DEF PInv, Plain
  <2>2. call.op = "idle" /\ call.packet = 0
    BY DEF Idle
  <2>3. Left(blen, position) = 0 /\ Upcoming = cursor
    BY <2>1, <2>2, TypedFacts DEF Empty, Upcoming
  <2>4. PreSkip + totalSamples + Left(blen, position) = LastGranule
    BY <2>1, <2>3 DEF ToTheEnd, Ends, Plain
  <2>5. totalSamples = base + Len(heard) \div Channels
    BY <2>1, <2>2 DEF Counted
  <2>6. totalSamples \in Int /\ PreSkip \in Nat
    BY <2>1, TypedFacts DEF Typed
  <2> QED BY <2>3, <2>4, <2>5, <2>6
<1> QED BY <1>1, PlayerInvariant, PTL

(* IsFinished says so only when the last packet was taken, decoded and     *)
(* read to its end (of a stream played without a seek).                    *)
THEOREM PlayerFinished == Spec => []FinishedMeansOverUnsought
<1>1. PInv => FinishedMeansOverUnsought
  <2> SUFFICES ASSUME PInv, IsFinished, call = Idle, undisturbed, ~ sought
               PROVE  Over
    BY DEF FinishedMeansOverUnsought
  <2>1. finished /\ position >= blen
    BY DEF IsFinished
  <2>2. cursor > Len(Packets)
    BY <2>1 DEF PInv
  <2>3. call.packet = 0
    BY DEF Idle
  <2> QED BY <2>1, <2>2, <2>3 DEF Over, Empty
<1> QED BY <1>1, PlayerInvariant, PTL
=============================================================================
