------------------------- MODULE OpusDecoderProofs -------------------------
(***************************************************************************)
(* Proofs about OpusDecoder, for any number of goroutines, every packet a  *)
(* TOC byte can announce and every frame size a caller asks for.           *)
(*                                                                         *)
(* Between frames a decoder is Live: a codec its remembered modes let it   *)
(* come back to without a reset was heard up to the last sample.  Every    *)
(* round of opusDecodeFrame gets it from one such history to another       *)
(* (DecodedFits), whatever the loops around it do.  They stay on course      *)
(* (OnCourse): what is left to decode is a whole number of 2.5 ms, what is *)
(* counted is in the scratch, and frames end where the packet says.        *)
(***************************************************************************)
EXTENDS OpusDecoder, TLAPS

States == [mode : Mode, frame_size : Int, prev_mode : Mode, prev_redundancy : BOOLEAN,
           last_packet_duration : Nat, end : [Codec -> Int], stale : SUBSET Codec,
           fatal : BOOLEAN]

Phases == {"none", "check", "conceal", "excess", "fec", "frames", "return", "done"}

Calls == [phase : Phases, packet : Packet \cup {NoPacket}, total : Int, goal : Int,
          count : Int, inner : Int, next : Int, written : Int, ret : Int, copied : Int,
          duration_copy : Int, touched : BOOLEAN]

Typed ==
  /\ st \in States /\ call \in Calls
  /\ closed \in BOOLEAN /\ holder \in Caller \cup {NoCaller} /\ lastRet \in Nat
  /\ pc \in [Caller -> {"idle", "decode", "close"}]

(* The codecs the next frame may go on with.                               *)
Live(s) ==
  /\ s.stale = {} /\ ~s.fatal
  /\ s.prev_mode # "CELT" => s.end["SILK"] # Stale
  /\ s.prev_mode # "SILK" \/ s.prev_redundancy => s.end["CELT"] # Stale
  /\ s.prev_mode = "none" => ~s.prev_redundancy

(* Sizes a frame or a concealed piece can have.                            *)
CeltSizes == {F2_5, F5, F10, F20}
SilkSizes == {F10, F20, F40, F60}
Sizes == CeltSizes \cup SilkSizes

(* A whole number of 2.5 ms.                                               *)
Whole(x) == \E j \in Int : x = j * F2_5

Working == {"conceal", "excess", "fec", "frames"}

(* The frame the packet holds is decoded with its mode and size.           *)
Following ==
  /\ call.packet \in Packet /\ Parses(call.packet)
  /\ st.frame_size = call.packet.size /\ st.mode = call.packet.mode

(* Where the loops are.                                                    *)
OnCourse ==
  /\ call.phase \in {"check", "conceal", "excess", "fec"} => call.next = 1
  /\ call.phase = "check" => call.count = 0 /\ call.inner = 0 /\ call.written = 0
  /\ call.phase \in Working =>
      /\ call.written = call.count /\ call.count >= 0
      /\ call.inner >= 0 /\ Whole(call.inner)
      /\ call.inner > 0 => st.prev_mode # "none"
      /\ call.phase \in {"conceal", "excess"} =>
           /\ call.count < call.goal /\ Whole(call.goal - call.count)
           /\ call.inner <= call.goal - call.count
      /\ call.phase = "excess" =>
           /\ call.packet \in Packet /\ Parses(call.packet)
           /\ call.goal = call.total - call.packet.size
           /\ call.duration_copy = lastRet
      /\ call.phase = "fec" =>
           /\ Following /\ call.goal = call.total
           /\ call.inner < call.packet.size
           /\ call.count = call.total - (IF call.inner > 0 THEN call.inner ELSE call.packet.size)
      /\ call.phase = "frames" =>
           /\ Following /\ call.next \in 1 .. Len(call.packet.frames)
           /\ call.goal >= Samples(call.packet)
           /\ call.inner < call.packet.size
           /\ call.count = call.next * call.packet.size
                             - (IF call.inner > 0 THEN call.inner ELSE call.packet.size)

(* The duration the decoder remembers, within and between calls.           *)
Remembered ==
  /\ call.phase \notin {"fec", "return"} => st.last_packet_duration = lastRet
  /\ call.phase = "return" =>
       st.last_packet_duration = IF call.ret < 0 THEN lastRet ELSE call.ret

(* What a call brings back.                                                *)
Returned ==
  /\ call.phase = "return" /\ call.ret >= 0 => call.written = call.ret
  /\ call.phase = "return" /\ call.ret \in {BadArg, TooSmall, Invalid} => ~call.touched
  /\ call.phase = "done" => call.copied = IF call.ret < 0 THEN 0 ELSE call.written

(* The mutex covers a call from its checks to its copy.                    *)
Covered ==
  /\ Free <=> call.phase = "none"
  /\ call.phase \in Working => ~closed

IInv ==
  /\ Typed /\ Live(st) /\ st.frame_size \in Sizes
  /\ OnCourse /\ Remembered /\ Returned /\ Covered

-----------------------------------------------------------------------------
(***************************************************************************)
(* Lengths.                                                                *)
(***************************************************************************)
LEMMA Unit == F2_5 \in Int /\ F2_5 >= 1
  BY DecoderAssumption

LEMMA WholeRest ==
  ASSUME NEW x \in Int, x % F2_5 = 0
  PROVE  Whole(x)
<1>1. x \div F2_5 \in Int /\ x = F2_5 * (x \div F2_5) + (x % F2_5)
  BY Unit
<1>2. x = (x \div F2_5) * F2_5
  BY <1>1, Unit
<1>3. QED BY <1>1, <1>2 DEF Whole

LEMMA WholeDifference ==
  ASSUME NEW x, NEW y, Whole(x), Whole(y)
  PROVE  x \in Int /\ y \in Int /\ Whole(x - y)
<1>1. PICK i \in Int : x = i * F2_5
  BY DEF Whole
<1>2. PICK j \in Int : y = j * F2_5
  BY DEF Whole
<1>3. x - y = (i - j) * F2_5 /\ i - j \in Int
  BY <1>1, <1>2, Unit
<1>4. Whole(x - y)
  BY <1>3 DEF Whole
<1>5. QED BY <1>1, <1>2, <1>4, Unit

LEMMA WholeSizes ==
  /\ Whole(0)
  /\ \A n \in Sizes : Whole(n)
<1>1. /\ 0 = 0 * F2_5 /\ F2_5 = 1 * F2_5 /\ F5 = 2 * F2_5 /\ F10 = 4 * F2_5 /\ F20 = 8 * F2_5
      /\ F40 = 16 * F2_5 /\ F60 = 24 * F2_5
  BY Unit DEF F5, F10, F20, F40, F60
<1>2. \A x : \A j \in Int : x = j * F2_5 => Whole(x)
  BY DEF Whole
<1>3. Whole(0) /\ Whole(F2_5) /\ Whole(F5) /\ Whole(F10) /\ Whole(F20) /\ Whole(F40) /\ Whole(F60)
  BY <1>1, <1>2
<1>4. QED BY <1>3 DEF Sizes, CeltSizes, SilkSizes

(* Nothing whole lies between nothing and 2.5 ms, or between those and 5.  *)
LEMMA WholePositive ==
  ASSUME NEW x, Whole(x), x > 0
  PROVE  x >= F2_5 /\ (x < F5 => x = F2_5)
<1>1. PICK j \in Int : x = j * F2_5
  BY DEF Whole
<1>2. j >= 1
  <2>1. CASE j <= 0
    BY <1>1, <2>1, Unit
  <2>2. QED BY <2>1
<1>3. j * F2_5 >= F2_5
  BY <1>2, Unit
<1>4. CASE j = 1
  BY <1>1, <1>4, Unit
<1>5. CASE j >= 2
  <2>1. j * F2_5 >= 2 * F2_5
    BY <1>5, Unit
  <2>2. QED BY <1>1, <1>3, <2>1, Unit DEF F5
<1>6. QED BY <1>2, <1>4, <1>5

(* Concealment takes a length it knows, the whole piece if it is one.      *)
LEMMA PlcSizeFits ==
  ASSUME NEW mode, NEW n, Whole(n), n > 0
  PROVE  LET k == PlcSize(mode, Least(n, F20))
         IN  /\ k \in Int /\ 0 < k /\ k <= n /\ k <= F20 /\ Whole(k)
             /\ mode # "SILK" => k \in CeltSizes
             /\ k <= F10 \/ k = F20
             /\ n \in CeltSizes => k = n
             /\ n >= F20 => k = F20
<1> DEFINE a == Least(n, F20)
           k == PlcSize(mode, a)
<1>1. n \in Int /\ F2_5 \in Int /\ F2_5 >= 1
  BY Unit DEF Whole
<1>2. /\ a \in Int /\ 0 < a /\ a <= n /\ a <= F20 /\ (a = n \/ a = F20)
      /\ n >= F20 => a = F20
  BY <1>1 DEF Least, F20
<1>3. Whole(a)
  BY <1>2, WholeSizes DEF Sizes, CeltSizes
<1>4. a < F5 => a = F2_5
  BY <1>2, <1>3, WholePositive
<1> HIDE DEF a
<1>5. CASE a >= F20
  <2>1. k = F20
    BY <1>1, <1>2, <1>5 DEF PlcSize, F20, F10, F5
  <2>2. QED
    BY <1>1, <1>2, <1>5, <2>1, WholeSizes DEF a, Sizes, CeltSizes, F20, F10, F5
<1>6. CASE a > F10 /\ a < F20
  <2>1. k = F10
    BY <1>1, <1>2, <1>6 DEF PlcSize, F20, F10, F5
  <2>2. QED
    BY <1>1, <1>2, <1>6, <2>1, WholeSizes DEF a, Sizes, CeltSizes, F20, F10, F5
<1>7. CASE a > F5 /\ a < F10 /\ mode # "SILK"
  <2>1. k = F5
    BY <1>1, <1>2, <1>7 DEF PlcSize, F20, F10, F5
  <2>2. QED
    BY <1>1, <1>2, <1>7, <2>1, WholeSizes DEF a, Sizes, CeltSizes, F20, F10, F5
<1>8. CASE ~(a >= F20) /\ ~(a > F10 /\ a < F20) /\ ~(a > F5 /\ a < F10 /\ mode # "SILK")
  <2>1. k = a
    BY <1>8 DEF PlcSize
  <2>2. mode # "SILK" => a \in CeltSizes
    BY <1>1, <1>2, <1>4, <1>8 DEF CeltSizes, F20, F10, F5
  <2>3. QED
    BY <1>1, <1>2, <1>3, <1>8, <2>1, <2>2 DEF a, CeltSizes, F20, F10, F5
<1>9. QED BY <1>5, <1>6, <1>7, <1>8

LEMMA QuotientUp ==
  ASSUME NEW p \in Int, p >= 1, NEW j \in 1 .. 3, NEW n \in Int, (j - 1) * p < n, n <= j * p
  PROVE  (n + p - 1) \div p = j
<1> DEFINE q == (n + p - 1) \div p
<1>1. q \in Int /\ p * q <= n + p - 1 /\ n + p - 1 < p * q + p
  OBVIOUS
<1> HIDE DEF q
<1>2. CASE q <= j - 1
  <2>1. p * q <= p * (j - 1)
    BY <1>1, <1>2
  <2>2. QED BY <1>1, <2>1
<1>3. CASE q >= j + 1
  <2>1. p * q >= p * (j + 1)
    BY <1>1, <1>3
  <2>2. QED BY <1>1, <2>1
<1>4. QED BY <1>1, <1>2, <1>3 DEF q

(* SILK fills the frame, or a frame of 10 ms if that is shorter.           *)
LEMMA SilkLengths ==
  ASSUME NEW n \in Int, n > 0, n < F10 \/ n \in SilkSizes
  PROVE  /\ SilkOutput(n) \in Int /\ SilkOutput(n) >= n
         /\ SilkPayload(n) \in SilkSizes
         /\ n < F10 \/ SilkOutput(n) = n
<1> DEFINE p == SilkPayload(n)
           piece == IF p = F10 THEN F10 ELSE F20
<1>1. /\ F10 \in Int /\ F20 \in Int /\ F10 >= 4 /\ F20 = 2 * F10
      /\ F40 = 2 * F20 /\ F60 = 3 * F20
  BY Unit DEF F10, F20, F40, F60
<1>2. p = IF n < F10 THEN F10 ELSE n
  BY DEF SilkPayload
<1>3. SilkOutput(n) = piece * ((n + piece - 1) \div piece)
  BY DEF SilkOutput
<1> HIDE DEF p
<1>4. CASE n <= F10
  <2>1. p = F10 /\ piece = F10
    BY <1>1, <1>2, <1>4 DEF SilkSizes
  <2>2. (n + F10 - 1) \div F10 = 1
    BY <1>1, <1>4, QuotientUp
  <2>3. SilkOutput(n) = F10
    BY <1>1, <1>3, <2>1, <2>2
  <2>4. QED BY <1>1, <1>4, <2>1, <2>3 DEF SilkSizes, p
<1>5. CASE n \in {F20, F40, F60}
  <2>1. p = n /\ piece = F20 /\ n >= F20
    BY <1>1, <1>2, <1>5
  <2>2. PICK j \in 1 .. 3 : n = j * F20
    <3>1. n = 1 * F20 \/ n = 2 * F20 \/ n = 3 * F20
      BY <1>1, <1>5
    <3>2. QED BY <3>1
  <2>3. (n + F20 - 1) \div F20 = j
    BY <1>1, <2>2, QuotientUp
  <2>4. SilkOutput(n) = n
    BY <1>1, <1>3, <2>1, <2>2, <2>3
  <2>5. QED BY <1>1, <1>5, <2>1, <2>4 DEF SilkSizes, p
<1>6. QED BY <1>1, <1>4, <1>5 DEF SilkSizes
-----------------------------------------------------------------------------
(***************************************************************************)
(* The parts of opusDecodeFrame.                                           *)
(***************************************************************************)
(* What decoding a frame never changes.                                    *)
Alike(s, t) ==
  /\ t \in States
  /\ t.mode = s.mode /\ t.frame_size = s.frame_size
  /\ t.last_packet_duration = s.last_packet_duration

(* ... and what a part of it leaves to Finish.                             *)
SameModes(s, t) == t.prev_mode = s.prev_mode /\ t.prev_redundancy = s.prev_redundancy

Sane(s) == s.stale = {} /\ ~s.fatal

LEMMA ResetFields ==
  ASSUME NEW s \in States, NEW c \in Codec
  PROVE  LET t == Reset(s, c)
         IN  /\ Alike(s, t) /\ SameModes(s, t) /\ (Sane(s) => Sane(t))
             /\ t.end[c] = Fresh
             /\ \A d \in Codec : d # c => t.end[d] = s.end[d]
<1> DEFINE e == [s.end EXCEPT ![c] = Fresh]
<1>1. e \in [Codec -> Int] /\ e[c] = Fresh /\ \A d \in Codec : d # c => e[d] = s.end[d]
  BY DEF States, Fresh
<1>2. Reset(s, c) = [s EXCEPT !.end = e]
  BY DEF Reset
<1> HIDE DEF e
<1>3. QED BY <1>1, <1>2 DEF States, Alike, SameModes, Sane

LEMMA DecodesFields ==
  ASSUME NEW s \in States, NEW c \in Codec, NEW n \in Int, NEW heard \in BOOLEAN,
         heard => s.end[c] # Stale
  PROVE  LET t == Decodes(s, c, n, heard)
         IN  /\ Alike(s, t) /\ SameModes(s, t) /\ (Sane(s) => Sane(t))
             /\ t.end[c] = n
             /\ \A d \in Codec : d # c => t.end[d] = s.end[d]
<1> DEFINE e == [s.end EXCEPT ![c] = n]
<1>1. e \in [Codec -> Int] /\ e[c] = n /\ \A d \in Codec : d # c => e[d] = s.end[d]
  BY DEF States
<1>2. Decodes(s, c, n, heard) = [s EXCEPT !.end = e, !.stale = s.stale]
  BY DEF Decodes
<1> HIDE DEF e
<1>3. QED BY <1>1, <1>2 DEF States, Alike, SameModes, Sane

(* ... to the output.                                                      *)
Heard(s, c, n) == Decodes(s, c, n, TRUE)

LEMMA HeardFields ==
  ASSUME NEW s \in States, NEW c \in Codec, NEW n \in Int, s.end[c] # Stale
  PROVE  LET t == Heard(s, c, n)
         IN  /\ Alike(s, t) /\ SameModes(s, t) /\ (Sane(s) => Sane(t))
             /\ t.end[c] = n
             /\ \A d \in Codec : d # c => t.end[d] = s.end[d]
<1> DEFINE e == [s.end EXCEPT ![c] = n]
<1>1. e \in [Codec -> Int] /\ e[c] = n /\ \A d \in Codec : d # c => e[d] = s.end[d]
  BY DEF States
<1>2. Heard(s, c, n) = [s EXCEPT !.end = e, !.stale = s.stale]
  BY DEF Heard, Decodes
<1> HIDE DEF e
<1>3. QED BY <1>1, <1>2 DEF States, Alike, SameModes, Sane

LEMMA CheckHolds ==
  ASSUME NEW s \in States, NEW holds, holds
  PROVE  Check(s, holds) = s
<1>1. PICK b \in BOOLEAN : b <=> holds
  OBVIOUS
<1>2. (s.fatal \/ ~holds) = s.fatal
  BY <1>1 DEF States
<1>3. Check(s, holds) = [s EXCEPT !.fatal = s.fatal]
  BY <1>2 DEF Check
<1>4. QED BY <1>3 DEF States

LEMMA SilkPartFits ==
  ASSUME NEW s \in States, NEW mode \in {"SILK", "HYBRID", "CELT"}, NEW n \in Int, Sane(s),
         mode # "CELT" => n > 0 /\ (n < F10 \/ n \in SilkSizes),
         mode # "CELT" /\ s.prev_mode # "CELT" => s.end["SILK"] # Stale
  PROVE  LET t == SilkPart(s, mode, n)
         IN  /\ Alike(s, t) /\ SameModes(s, t) /\ Sane(t)
             /\ t.end["CELT"] = s.end["CELT"]
             /\ mode # "CELT" => t.end["SILK"] >= n
             /\ mode = "CELT" => t = s
<1>0. "SILK" \in Codec /\ "CELT" \in Codec
  BY DEF Codec
<1>1. CASE mode = "CELT"
  BY <1>1 DEF SilkPart, Alike, SameModes
<1>2. CASE mode # "CELT"
  <2> DEFINE ready == IF s.prev_mode = "CELT" THEN Reset(s, "SILK") ELSE s
             d == Heard(ready, "SILK", SilkOutput(n))
             known == SilkPayload(n) \in {F10, F20, F40, F60}
             fits == n < F10 \/ SilkOutput(n) = n
  <2>1. SilkOutput(n) \in Int /\ SilkOutput(n) >= n /\ known /\ fits
    BY <1>2, SilkLengths DEF SilkSizes
  <2>2. /\ Alike(s, ready) /\ SameModes(s, ready) /\ Sane(ready)
        /\ ready.end["SILK"] # Stale /\ ready.end["CELT"] = s.end["CELT"]
    <3>1. CASE s.prev_mode = "CELT"
      BY <1>0, <3>1, ResetFields DEF Fresh, Stale
    <3>2. CASE s.prev_mode # "CELT"
      BY <1>2, <3>2 DEF Alike, SameModes
    <3>3. QED BY <3>1, <3>2
  <2> HIDE DEF ready
  <2>3. /\ Alike(ready, d) /\ SameModes(ready, d) /\ Sane(d)
        /\ d.end["SILK"] = SilkOutput(n) /\ d.end["CELT"] = ready.end["CELT"]
    BY <1>0, <2>1, <2>2, HeardFields DEF Alike
  <2>4. SilkPart(s, mode, n) = Check(d, known /\ fits)
    BY <1>2 DEF SilkPart, ready, Heard
  <2> HIDE DEF d, known, fits
  <2>5. SilkPart(s, mode, n) = d
    BY <2>1, <2>3, <2>4, CheckHolds DEF Alike
  <2>6. QED BY <1>2, <2>1, <2>2, <2>3, <2>5 DEF Alike, SameModes
<1>3. QED BY <1>1, <1>2

LEMMA CeltPartFits ==
  ASSUME NEW s \in States, NEW mode \in {"SILK", "HYBRID", "CELT"}, NEW n \in Int, NEW red,
         Sane(s), mode # "SILK" => n \in CeltSizes,
         mode # "SILK" /\ ~DiscardsCelt(s, mode) => s.end["CELT"] # Stale,
         mode = "SILK" /\ FadesOut(s, red) => s.end["CELT"] # Stale
  PROVE  LET t == CeltPart(s, mode, n, red)
         IN  /\ Alike(s, t) /\ SameModes(s, t) /\ Sane(t)
             /\ t.end["SILK"] = s.end["SILK"]
             /\ mode # "SILK" => t.end["CELT"] = n
<1>0. "SILK" \in Codec /\ "CELT" \in Codec /\ F2_5 \in Int
  BY Unit DEF Codec
<1>1. CASE mode = "SILK"
  <2>1. CASE FadesOut(s, red)
    <3>1. CeltPart(s, mode, n, red) = Heard(s, "CELT", F2_5)
      BY <1>1, <2>1 DEF CeltPart, Heard
    <3>2. QED BY <1>0, <1>1, <2>1, <3>1, HeardFields
  <2>2. CASE ~FadesOut(s, red)
    BY <1>1, <2>2 DEF CeltPart, Alike, SameModes
  <2>3. QED BY <2>1, <2>2
<1>2. CASE mode # "SILK"
  <2> DEFINE ready == IF DiscardsCelt(s, mode) THEN Reset(s, "CELT") ELSE s
             d == Heard(ready, "CELT", n)
  <2>1. Least(F20, n) = n /\ CeltKnows(n)
    BY <1>2, Unit DEF Least, CeltKnows, CeltSizes, F5, F10, F20
  <2>2. /\ Alike(s, ready) /\ SameModes(s, ready) /\ Sane(ready)
        /\ ready.end["CELT"] # Stale /\ ready.end["SILK"] = s.end["SILK"]
    <3>1. CASE DiscardsCelt(s, mode)
      BY <1>0, <3>1, ResetFields DEF Fresh, Stale
    <3>2. CASE ~DiscardsCelt(s, mode)
      BY <1>2, <3>2 DEF Alike, SameModes
    <3>3. QED BY <3>1, <3>2
  <2> HIDE DEF ready
  <2>3. /\ Alike(ready, d) /\ SameModes(ready, d) /\ Sane(d)
        /\ d.end["CELT"] = n /\ d.end["SILK"] = ready.end["SILK"]
    BY <1>0, <2>2, HeardFields DEF Alike
  <2>4. CeltPart(s, mode, n, red) = Check(d, CeltKnows(n))
    BY <1>2, <2>1 DEF CeltPart, ready, Heard
  <2> HIDE DEF d
  <2>5. CeltPart(s, mode, n, red) = d
    BY <2>1, <2>3, <2>4, CheckHolds DEF Alike
  <2>6. QED BY <1>2, <2>2, <2>3, <2>5 DEF Alike, SameModes
<1>3. QED BY <1>1, <1>2

LEMMA FinishFields ==
  ASSUME NEW s \in States, NEW mode \in Mode, NEW red
  PROVE  LET t == Finish(s, mode, red)
         IN  /\ Alike(s, t) /\ (Sane(s) => Sane(t)) /\ t.end = s.end
             /\ t.prev_mode = mode /\ (t.prev_redundancy <=> red = "s2c")
<1>1. PICK b \in BOOLEAN : b <=> red = "s2c"
  OBVIOUS
<1>2. b = (red = "s2c")
  BY <1>1
<1>3. Finish(s, mode, red) = [s EXCEPT !.prev_mode = mode, !.prev_redundancy = b]
  BY <1>2 DEF Finish
<1>4. QED BY <1>1, <1>3 DEF States, Alike, Sane

(* Concealment keeps the modes heard last, and uses what they left.        *)
LEMMA ConcealFits ==
  ASSUME NEW s \in States, Live(s), s.prev_mode # "none", NEW k \in Int, k > 0,
         PlcMode(s) # "SILK" => k \in CeltSizes, k <= F10 \/ k = F20
  PROVE  LET t == Conceal(s, PlcMode(s), k)
         IN  /\ Alike(s, t) /\ Sane(t)
             /\ t.prev_mode = PlcMode(s) /\ ~t.prev_redundancy
             /\ PlcMode(s) # "CELT" => t.end["SILK"] >= k
             /\ PlcMode(s) = "CELT" => t.end["SILK"] = s.end["SILK"]
             /\ PlcMode(s) # "SILK" => t.end["CELT"] = k
<1> DEFINE m == PlcMode(s)
           a == SilkPart(s, m, k)
           b == CeltPart(a, m, k, "no")
<1>1. m \in {"SILK", "HYBRID", "CELT"} /\ m \in Mode
  BY DEF PlcMode, States, Mode
<1>2. m # "CELT" => s.prev_mode = m /\ ~s.prev_redundancy
  BY DEF PlcMode
<1>3. /\ m # "CELT" => k < F10 \/ k \in SilkSizes
      /\ m # "CELT" /\ s.prev_mode # "CELT" => s.end["SILK"] # Stale
      /\ Sane(s)
  BY Unit DEF Live, Sane, SilkSizes, F10
<1>4. m = "CELT" => s.prev_redundancy \/ s.prev_mode = "CELT"
  BY DEF PlcMode
<1>5. m # "SILK" => k \in CeltSizes
  OBVIOUS
<1>6. Conceal(s, m, k) = Finish(b, m, "no")
  BY DEF Conceal
<1> HIDE DEF m
<1>7. /\ Alike(s, a) /\ SameModes(s, a) /\ Sane(a)
      /\ a.end["CELT"] = s.end["CELT"]
      /\ m # "CELT" => a.end["SILK"] >= k
      /\ m = "CELT" => a = s
  BY <1>1, <1>3, SilkPartFits
<1> HIDE DEF a
<1>8. /\ m # "SILK" /\ ~DiscardsCelt(a, m) => a.end["CELT"] # Stale
      /\ ~(m = "SILK" /\ FadesOut(a, "no"))
  BY <1>1, <1>2, <1>4, <1>7 DEF Live, SameModes, DiscardsCelt, FadesOut
<1>9. /\ Alike(a, b) /\ SameModes(a, b) /\ Sane(b)
      /\ b.end["SILK"] = a.end["SILK"]
      /\ m # "SILK" => b.end["CELT"] = k
  BY <1>1, <1>5, <1>7, <1>8, CeltPartFits DEF Alike
<1> HIDE DEF b
<1>10. /\ Alike(b, Finish(b, m, "no")) /\ Sane(Finish(b, m, "no"))
       /\ Finish(b, m, "no").end = b.end
       /\ Finish(b, m, "no").prev_mode = m /\ ~Finish(b, m, "no").prev_redundancy
  BY <1>1, <1>9, FinishFields DEF Alike
<1>11. QED BY <1>6, <1>7, <1>9, <1>10 DEF Alike, m

LEMMA TransitionFits ==
  ASSUME NEW s \in States, Live(s), s.prev_mode # "none", NEW n \in Sizes
  PROVE  LET t == Transition(s, n)
         IN  /\ Alike(s, t) /\ Sane(t)
             /\ t.prev_mode = PlcMode(s) /\ ~t.prev_redundancy
             /\ PlcMode(s) = "CELT" => t.end["SILK"] = s.end["SILK"]
<1> DEFINE k == PlcSize(PlcMode(s), Least(F5, n))
<1>1. Least(F5, n) \in {F2_5, F5}
  BY Unit DEF Sizes, CeltSizes, SilkSizes, Least, F5, F10, F20, F40, F60
<1>2. k \in {F2_5, F5}
  BY <1>1, Unit DEF PlcSize, F5, F10, F20
<1>3. k \in Int /\ k > 0 /\ k \in CeltSizes /\ k <= F10
  BY <1>2, Unit DEF CeltSizes, F5, F10
<1>4. Transition(s, n) = Conceal(s, PlcMode(s), k)
  BY DEF Transition
<1> HIDE DEF k
<1>5. QED BY <1>3, <1>4, ConcealFits

(* How far the codecs were heard that the next frame may go on with.       *)
Reached(t, n) ==
  /\ t.prev_mode # "none"
  /\ t.prev_mode # "CELT" => t.end["SILK"] >= n
  /\ t.prev_mode # "SILK" \/ t.prev_redundancy => t.end["CELT"] >= n

LEMMA LeadInFits ==
  ASSUME NEW s \in States, NEW red, Sane(s),
         red = "c2s" /\ HearsRedundant(s) => s.end["CELT"] # Stale
  PROVE  LET t == LeadIn(s, red)
         IN  /\ Alike(s, t) /\ SameModes(s, t) /\ Sane(t)
             /\ t.end["SILK"] = s.end["SILK"]
             /\ t.end["CELT"] = IF red = "c2s" THEN F5 ELSE s.end["CELT"]
<1>1. CASE red = "c2s"
  <2>1. PICK b \in BOOLEAN : b <=> HearsRedundant(s)
    OBVIOUS
  <2>2. LeadIn(s, red) = Decodes(s, "CELT", F5, b)
    <3>1. b = HearsRedundant(s)
      BY <2>1, Zenon DEF HearsRedundant
    <3>2. QED BY <1>1, <3>1, Zenon DEF LeadIn
  <2>3. QED BY <1>1, <2>1, <2>2, Unit, DecodesFields DEF Codec, F5
<1>2. CASE red # "c2s"
  BY <1>2 DEF LeadIn, Alike, SameModes
<1>3. QED BY <1>1, <1>2

LEMMA LeadOutFits ==
  ASSUME NEW s \in States, NEW red, NEW n \in Int, Sane(s)
  PROVE  LET t == LeadOut(s, n, red)
         IN  /\ Alike(s, t) /\ SameModes(s, t) /\ Sane(t)
             /\ t.end["SILK"] = s.end["SILK"]
             /\ t.end["CELT"] = IF red = "s2c" THEN n ELSE s.end["CELT"]
<1>1. CASE red = "s2c"
  <2> DEFINE r == Reset(s, "CELT")
             d == Heard(r, "CELT", n)
  <2>1. /\ Alike(s, r) /\ SameModes(s, r) /\ Sane(r)
        /\ r.end["CELT"] # Stale /\ r.end["SILK"] = s.end["SILK"]
    BY ResetFields DEF Codec, Fresh, Stale
  <2>2. LeadOut(s, n, red) = d
    BY <1>1 DEF LeadOut, Heard
  <2> HIDE DEF r
  <2>3. /\ Alike(r, d) /\ SameModes(r, d) /\ Sane(d)
        /\ d.end["CELT"] = n /\ d.end["SILK"] = r.end["SILK"]
    BY <2>1, HeardFields DEF Codec, Alike
  <2> HIDE DEF d
  <2>4. QED BY <1>1, <2>1, <2>2, <2>3 DEF Alike, SameModes
<1>2. CASE red # "s2c"
  BY <1>2 DEF LeadOut, Alike, SameModes
<1>3. QED BY <1>1, <1>2

LEMMA FrameSizesFit ==
  ASSUME NEW mode \in {"SILK", "HYBRID", "CELT"}, NEW n \in FrameSizes(mode)
  PROVE  /\ n \in Sizes /\ n \in Int /\ n > 0
         /\ mode # "CELT" => n \in SilkSizes
         /\ mode # "SILK" => n \in CeltSizes
  BY Unit DEF FrameSizes, Sizes, CeltSizes, SilkSizes, F5, F10, F20, F40, F60

(* A frame with data: every codec that is heard goes on from what it       *)
(* decoded last or starts over, by way of the switch where there is one.   *)
LEMMA SynthesizeFits ==
  ASSUME NEW s \in States, Live(s), NEW mode \in {"SILK", "HYBRID", "CELT"},
         NEW n \in FrameSizes(mode), NEW red, mode = "CELT" => red = "no"
  PROVE  LET t == Synthesize(s, mode, n, red)
         IN  /\ Alike(s, t) /\ Sane(t) /\ t.prev_mode = mode
             /\ Reached(t, n)
<1> DEFINE early == Switches(s, mode) /\ mode = "CELT"
           late  == Switches(s, mode) /\ mode # "CELT" /\ red = "no"
           s1 == IF early THEN Transition(s, n) ELSE s
           s2 == SilkPart(s1, mode, n)
           s3 == IF late THEN Transition(s2, n) ELSE s2
           l  == LeadIn(s3, red)
           c  == CeltPart(l, mode, n, red)
           o  == LeadOut(c, n, red)
<1>1. /\ n \in Sizes /\ n \in Int /\ n > 0
      /\ mode # "CELT" => n \in SilkSizes
      /\ mode # "SILK" => n \in CeltSizes
      /\ mode \in Mode
  BY FrameSizesFit DEF Mode
<1>2. Synthesize(s, mode, n, red) = Finish(o, mode, red)
  BY DEF Synthesize
<1>3. /\ Alike(s, s1) /\ Sane(s1)
      /\ early => s1.prev_mode = PlcMode(s) /\ ~s1.prev_redundancy
      /\ ~early => s1 = s
  <2>1. CASE early
    <3>1. s.prev_mode # "none"
      BY <2>1 DEF Switches
    <3>2. QED BY <1>1, <2>1, <3>1, TransitionFits
  <2>2. CASE ~early
    BY <2>2 DEF Live, Sane, Alike
  <2>3. QED BY <2>1, <2>2
<1>4. mode # "CELT" => s1 = s
  OBVIOUS
<1>5. /\ early => s.prev_mode # "CELT" /\ ~s.prev_redundancy /\ s.prev_mode # "none"
      /\ late => s.prev_mode = "CELT"
      /\ mode # "CELT" /\ ~late /\ red = "no" => s.prev_mode # "CELT"
      /\ mode = "CELT" /\ ~early => s.prev_mode \in {"CELT", "none"} \/ s.prev_redundancy
  BY DEF Switches
<1> HIDE DEF early, s1
<1>6. /\ Alike(s1, s2) /\ SameModes(s1, s2) /\ Sane(s2)
      /\ s2.end["CELT"] = s1.end["CELT"]
      /\ mode # "CELT" => s2.end["SILK"] >= n
      /\ mode = "CELT" => s2 = s1
  <2>1. mode # "CELT" /\ s1.prev_mode # "CELT" => s1.end["SILK"] # Stale
    BY <1>4 DEF Live
  <2>2. s1 \in States
    BY <1>3 DEF Alike
  <2>3. QED BY <1>1, <1>3, <2>1, <2>2, SilkPartFits
<1> HIDE DEF s2
<1>7. /\ Alike(s2, s3) /\ Sane(s3)
      /\ late => s3.prev_mode = "CELT" /\ ~s3.prev_redundancy
      /\ mode # "CELT" => s3.end["SILK"] >= n
      /\ ~late => s3 = s2
  <2>1. CASE late
    <3>1. /\ Alike(s, s2) /\ SameModes(s, s2) /\ s2 \in States
          /\ s2.end["CELT"] = s.end["CELT"] /\ s2.end["SILK"] >= n
          /\ s.prev_mode = "CELT"
      BY <1>4, <1>5, <1>6, <2>1 DEF Alike, SameModes
    <3>2. Live(s2) /\ s2.prev_mode # "none" /\ PlcMode(s2) = "CELT"
      BY <1>6, <3>1 DEF Live, Sane, SameModes, PlcMode
    <3>3. s3 = Transition(s2, n)
      BY <2>1
    <3> HIDE DEF s3
    <3>4. QED BY <1>1, <2>1, <3>1, <3>2, <3>3, TransitionFits
  <2>2. CASE ~late
    BY <1>6, <2>2 DEF Alike
  <2>3. QED BY <2>1, <2>2
<1> HIDE DEF late, s3
<1>8. ~late => SameModes(s1, s3) /\ s3.end["CELT"] = s1.end["CELT"]
  BY <1>6, <1>7
<1>9. /\ Alike(s3, l) /\ SameModes(s3, l) /\ Sane(l)
      /\ l.end["SILK"] = s3.end["SILK"]
      /\ l.end["CELT"] = IF red = "c2s" THEN F5 ELSE s3.end["CELT"]
  <2>1. red = "c2s" => ~late /\ mode # "CELT"
    BY DEF late
  <2>2. red = "c2s" /\ HearsRedundant(s3) => s3.end["CELT"] # Stale
    BY <1>4, <1>8, <2>1 DEF HearsRedundant, Live, SameModes
  <2>3. s3 \in States
    BY <1>7 DEF Alike
  <2>4. QED BY <1>7, <2>2, <2>3, LeadInFits
<1> HIDE DEF l
<1>10. F5 # Stale
  BY Unit DEF F5, Stale
<1>11. /\ mode # "SILK" /\ ~DiscardsCelt(l, mode) => l.end["CELT"] # Stale
       /\ mode = "SILK" /\ FadesOut(l, red) => l.end["CELT"] # Stale
  <2>1. CASE mode = "CELT"
    <3>1. ~late /\ red = "no"
      BY <2>1 DEF late
    <3>2. SameModes(s1, l) /\ l.end["CELT"] = s1.end["CELT"]
      BY <1>8, <1>9, <3>1 DEF SameModes
    <3>3. CASE early
      <4>1. DiscardsCelt(l, mode)
        BY <1>3, <1>5, <2>1, <3>2, <3>3 DEF DiscardsCelt, SameModes, PlcMode
      <4>2. QED BY <2>1, <4>1
    <3>4. CASE ~early
      BY <1>3, <1>5, <2>1, <3>2, <3>4 DEF Live, SameModes
    <3>5. QED BY <3>3, <3>4
  <2>2. CASE mode # "CELT" /\ late
    BY <1>7, <1>9, <2>2 DEF SameModes, DiscardsCelt, FadesOut
  <2>3. CASE mode # "CELT" /\ ~late
    <3>1. SameModes(s, l) /\ l.end["CELT"] = IF red = "c2s" THEN F5 ELSE s.end["CELT"]
      BY <1>4, <1>8, <1>9, <2>3 DEF SameModes
    <3>2. QED
      BY <1>10, <2>3, <3>1 DEF Live, SameModes, DiscardsCelt, FadesOut
  <2>4. QED BY <2>1, <2>2, <2>3
<1>12. /\ Alike(l, c) /\ SameModes(l, c) /\ Sane(c)
       /\ c.end["SILK"] = l.end["SILK"]
       /\ mode # "SILK" => c.end["CELT"] = n
  BY <1>1, <1>9, <1>11, CeltPartFits DEF Alike
<1> HIDE DEF c
<1>13. /\ Alike(c, o) /\ SameModes(c, o) /\ Sane(o)
       /\ o.end["SILK"] = c.end["SILK"]
       /\ o.end["CELT"] = IF red = "s2c" THEN n ELSE c.end["CELT"]
  BY <1>1, <1>12, LeadOutFits DEF Alike
<1> HIDE DEF o
<1> DEFINE t == Finish(o, mode, red)
<1>14. /\ Alike(o, t) /\ Sane(t) /\ t.end = o.end
       /\ t.prev_mode = mode /\ (t.prev_redundancy <=> red = "s2c")
  BY <1>1, <1>13, FinishFields DEF Alike
<1> HIDE DEF t
<1>15. Alike(s, t)
  BY <1>3, <1>6, <1>7, <1>9, <1>12, <1>13, <1>14 DEF Alike
<1>16. Reached(t, n)
  BY <1>1, <1>7, <1>9, <1>12, <1>13, <1>14 DEF Reached
<1>17. QED BY <1>2, <1>14, <1>15, <1>16 DEF t

(* The output moves on: what was heard up to its end still is.             *)
LEMMA AdvanceFits ==
  ASSUME NEW s \in States, NEW n \in Int, n > 0, Sane(s), Reached(s, n)
  PROVE  LET t == Advance(s, n)
         IN  Alike(s, t) /\ SameModes(s, t) /\ Live(t)
<1> DEFINE e == [c \in Codec |-> Moved(s.end[c], n)]
<1>1. e \in [Codec -> Int]
  BY DEF States, Moved, Stale
<1>2. \A c \in Codec : s.end[c] >= n => e[c] # Stale
  BY DEF States, Moved, Stale
<1>3. Advance(s, n) = [s EXCEPT !.end = e]
  BY DEF Advance
<1> HIDE DEF e
<1>4. /\ Alike(s, Advance(s, n)) /\ SameModes(s, Advance(s, n))
      /\ Sane(Advance(s, n)) /\ Advance(s, n).end = e
  BY <1>1, <1>3 DEF States, Alike, SameModes, Sane
<1>5. QED BY <1>2, <1>4 DEF Live, Sane, SameModes, Reached, Codec
-----------------------------------------------------------------------------
(***************************************************************************)
(* A round of opusDecodeFrame.                                             *)
(***************************************************************************)
PieceOf(s, n) == PlcSize(PlcMode(s), Least(n, F20))
AfterPiece(s, n) == Advance(Conceal(s, PlcMode(s), PieceOf(s, n)), PieceOf(s, n))

LEMMA PieceFits ==
  ASSUME NEW s \in States, Live(s), s.prev_mode # "none", NEW n, Whole(n), n > 0
  PROVE  LET k == PieceOf(s, n)
             t == AfterPiece(s, n)
         IN  /\ Alike(s, t) /\ Live(t) /\ t.prev_mode # "none"
             /\ k \in Int /\ 0 < k /\ k <= n /\ Whole(k) /\ Whole(n - k)
             /\ n \in CeltSizes => k = n
             /\ n >= F20 => k = F20
<1> DEFINE k == PieceOf(s, n)
           m == PlcMode(s)
           t == Conceal(s, m, k)
<1>1. /\ k \in Int /\ 0 < k /\ k <= n /\ Whole(k)
      /\ m # "SILK" => k \in CeltSizes
      /\ k <= F10 \/ k = F20
      /\ n \in CeltSizes => k = n
      /\ n >= F20 => k = F20
  BY PlcSizeFits DEF PieceOf
<1>2. Whole(n - k)
  BY <1>1, WholeDifference
<1>3. m # "none"
  BY DEF PlcMode
<1>4. AfterPiece(s, n) = Advance(t, k)
  BY DEF AfterPiece
<1> HIDE DEF k
<1>5. /\ Alike(s, t) /\ Sane(t) /\ t.prev_mode = m /\ ~t.prev_redundancy
      /\ m # "CELT" => t.end["SILK"] >= k
      /\ m # "SILK" => t.end["CELT"] = k
  BY <1>1, ConcealFits
<1> HIDE DEF t, m
<1>6. Reached(t, k)
  BY <1>1, <1>3, <1>5 DEF Reached
<1>7. Alike(t, Advance(t, k)) /\ SameModes(t, Advance(t, k)) /\ Live(Advance(t, k))
  BY <1>1, <1>5, <1>6, AdvanceFits DEF Alike
<1>8. QED BY <1>1, <1>2, <1>3, <1>4, <1>5, <1>7 DEF Alike, SameModes, k

(* The packet being decoded: what its TOC byte announced.                  *)
LEMMA PacketFacts ==
  ASSUME NEW p \in Packet, Parses(p)
  PROVE  /\ p.mode \in {"SILK", "HYBRID", "CELT"} /\ p.size \in FrameSizes(p.mode)
         /\ p.size \in Sizes /\ p.size \in Int /\ p.size > 0
         /\ Len(p.frames) \in Int /\ Len(p.frames) >= 1
         /\ Samples(p) \in Int /\ Samples(p) = p.size * Len(p.frames)
         /\ \A i \in 1 .. Len(p.frames) : i * p.size <= Samples(p)
<1>1. /\ p.mode \in {"SILK", "HYBRID", "CELT"} /\ p.size \in FrameSizes(p.mode)
      /\ p.frames \in Seq([red : {"no", "c2s", "s2c", "empty"}, over : BOOLEAN])
  BY DecoderAssumption
<1>2. p.size \in Sizes /\ p.size \in Int /\ p.size > 0
  BY <1>1, FrameSizesFit
<1>3. Len(p.frames) \in Int /\ Len(p.frames) >= 1
  BY <1>1 DEF Parses
<1> DEFINE size == p.size
           len == Len(p.frames)
<1> HIDE DEF size, len
<1>4. size * len \in Int /\ \A i \in 1 .. len : i * size <= size * len
  <2>1. size \in Int /\ len \in Int /\ size > 0
    BY <1>2, <1>3 DEF size, len
  <2>2. QED BY <2>1
<1>5. QED BY <1>1, <1>2, <1>3, <1>4 DEF Samples, size, len

LEMMA SizesWhole ==
  /\ \A n \in Sizes : n \in Int /\ n > 0 /\ n <= F120 /\ Whole(n)
  /\ \A n \in Sizes : n \in CeltSizes \/ n > F20
  /\ F120 \in Int /\ F20 \in Int /\ F120 > 0 /\ F20 > 0 /\ Whole(F120)
<1>1. /\ F120 = 48 * F2_5
      /\ F120 \in Int /\ F20 \in Int /\ F120 > 0 /\ F20 > 0
  BY Unit DEF F120, F20
<1>2. Whole(F120)
  BY <1>1 DEF Whole
<1>3. \A n \in Sizes : n \in Int /\ n > 0 /\ n <= F120 /\ (n \in CeltSizes \/ n > F20)
  BY Unit DEF Sizes, CeltSizes, SilkSizes, F5, F10, F20, F40, F60, F120
<1>4. QED BY <1>1, <1>2, <1>3, WholeSizes

(* What there is to decode before the next frame or the end of the call.   *)
Due ==
  CASE call.inner > 0 -> call.inner
    [] call.inner <= 0 /\ call.phase \in {"fec", "frames"} -> call.packet.size
    [] OTHER -> call.goal - call.count

(* A round decodes something, never more than is due, all of a frame, and  *)
(* only a frame that overruns its data fails.                              *)
RoundFits(r) ==
  /\ Alike(st, r.s) /\ Live(r.s)
  /\ r.ret \in Int /\ r.rest \in Int
  /\ r.ret < 0 => r.ret = Internal /\ call.phase = "frames"
  /\ r.ret >= 0 =>
       /\ r.ret > 0 /\ r.rest >= 0 /\ r.ret + r.rest <= Due
       /\ Whole(r.ret) /\ Whole(r.rest)
       /\ r.rest > 0 => r.s.prev_mode # "none"
       /\ call.phase \in {"fec", "frames"} => r.ret + r.rest = Due

LEMMA LeftFits ==
  ASSUME IInv, call.phase \in Working, call.inner = 0
  PROVE  /\ Left \in Int /\ Left > 0 /\ Whole(Due) /\ Due <= Left /\ Due > 0
         /\ call.phase \in {"conceal", "excess"} => Due = Left
         /\ call.phase \in {"fec", "frames"} => Due = st.frame_size
<1>1. OnCourse /\ Typed /\ call \in Calls
  BY DEF IInv, Typed
<1>2. CASE call.phase \in {"conceal", "excess"}
  <2>1. /\ call.count < call.goal /\ Whole(call.goal - call.count)
        /\ call.goal \in Int /\ call.count \in Int
    BY <1>1, <1>2 DEF OnCourse, Calls
  <2>2. Left = call.goal - call.count /\ Due = call.goal - call.count
    BY <1>2 DEF Left, Due
  <2>3. QED BY <1>2, <2>1, <2>2
<1>3. CASE call.phase \in {"fec", "frames"}
  <2>1. Following
    BY <1>1, <1>3 DEF OnCourse
  <2> DEFINE size == call.packet.size
  <2>2. /\ size \in Int /\ size > 0 /\ size \in Sizes
        /\ Samples(call.packet) \in Int /\ Len(call.packet.frames) \in Int
        /\ \A i \in 1 .. Len(call.packet.frames) : i * size <= Samples(call.packet)
    BY <2>1, PacketFacts DEF Following
  <2>3. Due = size /\ st.frame_size = size
    BY <1>3, <2>1 DEF Due, Following
  <2>4. Left >= size /\ Left \in Int
    <3>1. CASE call.phase = "fec"
      BY <2>2, <3>1 DEF Left
    <3>2. CASE call.phase = "frames"
      <4>1. /\ call.next \in 1 .. Len(call.packet.frames)
            /\ call.goal >= Samples(call.packet)
            /\ call.count = call.next * size - size
            /\ call.goal \in Int /\ call.count \in Int /\ call.next \in Int
        BY <1>1, <3>2 DEF OnCourse, Calls
      <4>2. Left = call.goal - call.count
        BY <3>2 DEF Left
      <4>3. call.next * size <= Samples(call.packet)
        BY <2>2, <4>1
      <4>4. call.next * size \in Int
        BY <2>2, <4>1
      <4> HIDE DEF size
      <4>5. QED BY SMTT(30), <2>2, <4>1, <4>2, <4>3, <4>4
    <3>3. QED BY <1>3, <3>1, <3>2
  <2>5. QED BY <1>3, <2>2, <2>3, <2>4, WholeSizes
<1>4. QED BY <1>2, <1>3 DEF Working

LEMMA DecodedFits ==
  ASSUME IInv, call.phase \in Working
  PROVE  RoundFits(Decoded)
<1>1. /\ st \in States /\ Live(st) /\ st.frame_size \in Sizes /\ OnCourse
      /\ call \in Calls /\ call.inner \in Int /\ call.inner >= 0
  BY DEF IInv, Typed, Calls, OnCourse
<1>2. CASE call.inner > 0
  <2> DEFINE k == PieceOf(st, call.inner)
             r == Round(AfterPiece(st, call.inner), k, call.inner - k)
  <2>1. /\ Alike(st, AfterPiece(st, call.inner)) /\ Live(AfterPiece(st, call.inner))
        /\ AfterPiece(st, call.inner).prev_mode # "none"
        /\ k \in Int /\ 0 < k /\ k <= call.inner /\ Whole(k) /\ Whole(call.inner - k)
    BY <1>1, <1>2, PieceFits DEF OnCourse
  <2>2. Decoded = r
    BY <1>2 DEF Decoded, Piece, AfterPiece, PieceOf
  <2>3. Due = call.inner
    BY <1>1, <1>2 DEF Due
  <2>4. r.s = AfterPiece(st, call.inner) /\ r.ret = k /\ r.rest = call.inner - k
    BY DEF Round
  <2> HIDE DEF k, r
  <2>5. QED BY <1>1, <1>2, <2>1, <2>2, <2>3, <2>4 DEF RoundFits
<1>3. CASE call.inner = 0 /\ Lost
  <2> DEFINE n == Least(Least(Left, F120), st.frame_size)
             k == PieceOf(st, n)
  <2>1. /\ Left \in Int /\ Left > 0 /\ Whole(Due) /\ Due <= Left /\ Due > 0
        /\ call.phase \in {"conceal", "excess"} => Due = Left
        /\ call.phase \in {"fec", "frames"} => Due = st.frame_size
    BY <1>3, LeftFits
  <2>2. st.frame_size \in Int /\ st.frame_size > 0 /\ st.frame_size <= F120
    BY <1>1, SizesWhole
  <2>3. /\ n \in Int /\ n > 0 /\ Whole(n) /\ n <= Due
        /\ call.phase \in {"fec", "frames"} => n = Due /\ n \in Sizes
    <3>1. CASE call.phase \in {"conceal", "excess"}
      BY <1>1, <2>1, <2>2, <3>1, SizesWhole DEF Least
    <3>2. CASE call.phase \in {"fec", "frames"}
      BY <1>1, <2>1, <2>2, <3>2, SizesWhole DEF Least
    <3>3. QED BY <3>1, <3>2 DEF Working
  <2>4. ~(Left < F2_5) /\ Left >= F2_5
    <3>1. Due >= F2_5 /\ Due \in Int
      BY <2>1, WholePositive DEF Whole
    <3>2. QED BY <2>1, <3>1, Unit
  <2>5. CASE PlcMode(st) = "none"
    <3>1. Decoded = Round(st, n, 0)
      BY <1>3, <2>4, <2>5 DEF Decoded, LostFrame
    <3>2. Round(st, n, 0).s = st /\ Round(st, n, 0).ret = n /\ Round(st, n, 0).rest = 0
      BY DEF Round
    <3> HIDE DEF n
    <3>3. Whole(0) /\ n + 0 = n
      BY <2>3, WholeSizes
    <3>4. QED
      BY <1>1, <2>1, <2>3, <3>1, <3>2, <3>3 DEF RoundFits, Alike
  <2>6. CASE PlcMode(st) # "none"
    <3> DEFINE r == Round(AfterPiece(st, n), k, IF n > F20 THEN n - k ELSE 0)
    <3>1. Decoded = r
      BY <1>3, <2>4, <2>6 DEF Decoded, LostFrame, Piece, AfterPiece, PieceOf
    <3>2. r.s = AfterPiece(st, n) /\ r.ret = k /\ r.rest = IF n > F20 THEN n - k ELSE 0
      BY DEF Round
    <3>3. st.prev_mode # "none"
      BY <1>1, <2>6 DEF Live, PlcMode
    <3> HIDE DEF n
    <3>4. /\ Alike(st, AfterPiece(st, n)) /\ Live(AfterPiece(st, n))
          /\ AfterPiece(st, n).prev_mode # "none"
          /\ k \in Int /\ 0 < k /\ k <= n /\ Whole(k) /\ Whole(n - k)
          /\ n \in CeltSizes => k = n
      BY <1>1, <2>3, <3>3, PieceFits
    <3>5. call.phase \in {"fec", "frames"} => n > F20 \/ k = n
      BY <2>3, <3>4, SizesWhole
    <3> HIDE DEF k, r
    <3>6. r.rest \in Int /\ r.rest >= 0 /\ Whole(r.rest) /\ r.ret + r.rest <= n
          /\ (call.phase \in {"fec", "frames"} => r.ret + r.rest = n)
      BY <2>3, <3>2, <3>4, <3>5, WholeSizes, SizesWhole
    <3>7. r.ret + r.rest <= Due
      BY <2>1, <2>3, <3>2, <3>4, <3>6 DEF Whole
    <3>8. QED
      BY <1>1, <2>3, <3>1, <3>2, <3>4, <3>6, <3>7 DEF RoundFits
  <2>7. QED BY <2>5, <2>6
<1>4. CASE call.inner = 0 /\ ~Lost
  <2>1. call.phase \in {"fec", "frames"} /\ Following
    BY <1>1, <1>4 DEF Lost, Working, OnCourse
  <2> DEFINE p == call.packet
             fr == p.frames[call.next]
             n == st.frame_size
             red == IF call.phase = "fec" \/ st.mode = "CELT" THEN "no" ELSE fr.red
             t == Synthesize(st, st.mode, n, red)
  <2>2. /\ st.mode \in {"SILK", "HYBRID", "CELT"} /\ n \in FrameSizes(st.mode)
        /\ n \in Sizes /\ n \in Int /\ n > 0 /\ Whole(n) /\ n = p.size
    BY <2>1, PacketFacts, SizesWhole DEF Following
  <2>3. n <= Left /\ Due = n
    BY <1>4, <2>1, LeftFits DEF Whole
  <2>4. \E ret \in {n, Internal} :
          Decoded = Round(Advance(t, n), ret, 0) /\ (ret = Internal => call.phase = "frames")
    <3>1. Decoded = Round(Advance(t, n),
                          IF fr.over /\ ~(call.phase = "fec") /\ st.mode # "SILK"
                          THEN Internal ELSE n, 0)
      <4>1. Left \in Int /\ ~(n > Left)
        BY <1>4, <2>2, <2>3, LeftFits
      <4>2. QED BY <1>4, <4>1 DEF Decoded, DataFrame
    <3>2. QED BY <2>1, <3>1, <2>2 DEF Internal
  <2>5. PICK ret \in {n, Internal} :
          Decoded = Round(Advance(t, n), ret, 0) /\ (ret = Internal => call.phase = "frames")
    BY <2>4
  <2> HIDE DEF red
  <2>6. st.mode = "CELT" => red = "no"
    BY DEF red
  <2>7. Alike(st, t) /\ Sane(t) /\ Reached(t, n)
    BY <1>1, <2>2, <2>6, SynthesizeFits
  <2> HIDE DEF t, n
  <2>8. Alike(st, Advance(t, n)) /\ Live(Advance(t, n))
    BY <2>2, <2>7, AdvanceFits DEF Alike
  <2>9. /\ Decoded.s = Advance(t, n) /\ Decoded.ret = ret /\ Decoded.rest = 0
    BY <2>5 DEF Round
  <2>10. Whole(0) /\ n + 0 = n
    BY <2>2, WholeSizes
  <2>11. QED
    BY <2>1, <2>2, <2>3, <2>5, <2>8, <2>9, <2>10 DEF RoundFits, Internal
<1>5. QED BY <1>1, <1>2, <1>3, <1>4
-----------------------------------------------------------------------------
(***************************************************************************)
(* Calls.                                                                  *)
(***************************************************************************)
LEMMA NoCallTyped == NoCall \in Calls
  BY DEF NoCall, Calls, Phases

LEMMA InitInv == Init => IInv
<1> SUFFICES ASSUME Init PROVE IInv
  OBVIOUS
<1>1. /\ st = InitState /\ closed = FALSE /\ holder = NoCaller /\ call = NoCall /\ lastRet = 0
      /\ pc = [c \in Caller |-> "idle"]
  BY DEF Init
<1>2. st \in States
  BY <1>1, Unit DEF InitState, States, Mode, Fresh
<1>3. Typed
  <2>1. closed \in BOOLEAN
    BY DEF Init
  <2>2. call \in Calls /\ holder \in Caller \cup {NoCaller} /\ lastRet \in Nat
    BY <1>1, NoCallTyped
  <2>3. pc \in [Caller -> {"idle", "decode", "close"}]
    BY <1>1
  <2>4. QED BY <1>2, <2>1, <2>2, <2>3 DEF Typed
<1>4. Live(st)
  BY <1>1 DEF Live, InitState, Codec, Fresh, Stale
<1>5. st.frame_size \in Sizes /\ st.last_packet_duration = lastRet
  BY <1>1 DEF InitState, Sizes, CeltSizes
<1>6. call.phase = "none" /\ Free
  BY <1>1 DEF NoCall, Free
<1>7. OnCourse /\ Remembered /\ Returned /\ Covered
  BY <1>5, <1>6 DEF OnCourse, Remembered, Returned, Covered, Working
<1>8. QED BY <1>3, <1>4, <1>5, <1>7 DEF IInv

(* What a caller asks and the checks let through.                          *)
LEMMA Accepted ==
  ASSUME NEW p \in Packet \cup {NoPacket}, NEW size \in AskedSize \ {0},
         NEW fec \in BOOLEAN, NEW clips \in BOOLEAN, NEW room
  PROVE  LET ph == Phase(st, p, room, fec)
         IN  room = Room(p, size, clips, fec) /\ Refusal(p, room, fec) = 0 =>
               /\ room \in Int /\ room > 0
               /\ ph \in Working
               /\ ph # "conceal" => p \in Packet /\ Parses(p)
               /\ ph = "conceal" => Whole(room)
               /\ ph = "excess" => room - p.size > 0 /\ Whole(room - p.size)
               /\ ph = "fec" => room = p.size
               /\ ph = "frames" => Samples(p) <= room
<1> DEFINE ph == Phase(st, p, room, fec)
<1>0. SUFFICES ASSUME room = Room(p, size, clips, fec), Refusal(p, room, fec) = 0
               PROVE  /\ room \in Int /\ room > 0
                      /\ ph \in Working
                      /\ ph # "conceal" => p \in Packet /\ Parses(p)
                      /\ ph = "conceal" => Whole(room)
                      /\ ph = "excess" => room - p.size > 0 /\ Whole(room - p.size)
                      /\ ph = "fec" => room = p.size
                      /\ ph = "frames" => Samples(p) <= room
  BY Zenon
<1>1. size \in Int /\ size > 0
  BY DecoderAssumption
<1>2. /\ ~((fec \/ p = NoPacket) /\ room % F2_5 # 0)
      /\ p # NoPacket => Parses(p)
      /\ p # NoPacket /\ ~fec => ~(Samples(p) > room)
  BY <1>0 DEF Refusal, BadArg, Invalid, TooSmall
<1>3. p # NoPacket => /\ p \in Packet
                      /\ p.size \in Int /\ p.size > 0 /\ Whole(p.size)
                      /\ Samples(p) \in Int /\ Samples(p) >= p.size
  <2> SUFFICES ASSUME p # NoPacket PROVE /\ p \in Packet
                      /\ p.size \in Int /\ p.size > 0 /\ Whole(p.size)
                      /\ Samples(p) \in Int /\ Samples(p) >= p.size
    OBVIOUS
  <2>1. p \in Packet /\ Parses(p)
    BY <1>2
  <2>2. /\ p.size \in Int /\ p.size > 0 /\ p.size \in Sizes
        /\ Len(p.frames) \in Int /\ Len(p.frames) >= 1
        /\ Samples(p) \in Int
        /\ \A i \in 1 .. Len(p.frames) : i * p.size <= Samples(p)
    BY <2>1, PacketFacts
  <2>3. 1 * p.size <= Samples(p)
    BY <2>2
  <2>4. QED BY <2>1, <2>2, <2>3, SizesWhole
<1>4. /\ room \in Int /\ room > 0
      /\ fec \/ p = NoPacket => Whole(room)
  <2>1. room \in Int /\ room > 0
    BY <1>0, <1>1, <1>3 DEF Room, Least
  <2>2. QED BY <1>2, <2>1, WholeRest
<1>5. ph = CASE p = NoPacket -> "conceal"
             [] p # NoPacket /\ ~fec -> "frames"
             [] p # NoPacket /\ fec /\ NoFec(st, p, room) -> "conceal"
             [] p # NoPacket /\ fec /\ ~NoFec(st, p, room) /\ room > p.size -> "excess"
             [] OTHER -> "fec"
  BY DEF Phase
<1> HIDE DEF ph
<1>6. CASE p = NoPacket
  BY <1>4, <1>5, <1>6 DEF Working, ph
<1>7. CASE p # NoPacket /\ ~fec
  <2>1. ph = "frames"
    BY <1>5, <1>7
  <2>2. QED BY <1>2, <1>3, <1>4, <1>7, <2>1 DEF Working, ph
<1>8. CASE p # NoPacket /\ fec /\ NoFec(st, p, room)
  <2>1. ph = "conceal"
    BY <1>5, <1>8
  <2>2. QED BY <1>4, <1>8, <2>1 DEF Working, ph
<1>9. CASE p # NoPacket /\ fec /\ ~NoFec(st, p, room) /\ room > p.size
  <2>1. ph = "excess"
    BY <1>5, <1>9
  <2>2. Whole(room - p.size) /\ room - p.size > 0
    BY <1>3, <1>4, <1>9, WholeDifference
  <2>3. QED BY <1>2, <1>3, <1>4, <1>9, <2>1, <2>2 DEF Working, ph
<1>10. CASE p # NoPacket /\ fec /\ ~NoFec(st, p, room) /\ ~(room > p.size)
  <2>1. ph = "fec"
    BY <1>5, <1>10
  <2>2. room = p.size
    BY <1>3, <1>4, <1>10 DEF NoFec
  <2>3. QED BY <1>2, <1>3, <1>4, <1>10, <2>1, <2>2 DEF Working, ph
<1>11. QED BY <1>6, <1>7, <1>8, <1>9, <1>10

(* Steps that leave the call and the decoder alone.                        *)
LEMMA QuietInv ==
  ASSUME IInv, st' = st, call' = call, lastRet' = lastRet, holder' = holder,
         closed' = closed \/ Free, closed' \in BOOLEAN,
         pc' \in [Caller -> {"idle", "decode", "close"}]
  PROVE  IInv'
<1>1. Typed' /\ Live(st)' /\ (st.frame_size \in Sizes)'
  BY DEF IInv, Typed, Live
<1>2. OnCourse' /\ Remembered' /\ Returned'
  BY DEF IInv, OnCourse, Following, Remembered, Returned
<1>3. Covered'
  BY DEF IInv, Covered, Free, Working
<1>4. QED BY <1>1, <1>2, <1>3 DEF IInv

LEMMA LockInv == ASSUME NEW c \in Caller, IInv, Lock(c) PROVE IInv'
<1>1. /\ holder' = c /\ c # NoCaller /\ Free /\ st' = st /\ closed' = closed /\ pc' = pc
      /\ lastRet' = lastRet /\ call' = [NoCall EXCEPT !.phase = "check"]
  BY DecoderAssumption DEF Lock
<1>2. /\ call' \in Calls /\ call'.phase = "check" /\ call'.next = 1
      /\ call'.count = 0 /\ call'.inner = 0 /\ call'.written = 0
  BY <1>1, NoCallTyped DEF Calls, Phases, NoCall
<1>3. st.last_packet_duration = lastRet
  BY <1>1 DEF IInv, Covered, Remembered
<1>4. Typed' /\ Live(st)' /\ (st.frame_size \in Sizes)'
  BY <1>1, <1>2 DEF IInv, Typed, Live
<1>5. OnCourse' /\ Remembered' /\ Returned' /\ Covered'
  BY <1>1, <1>2, <1>3 DEF OnCourse, Remembered, Returned, Covered, Working, Free
<1>6. QED BY <1>4, <1>5 DEF IInv

(* A call refused: nothing touched, nothing remembered.                    *)
LEMMA RefuseInv ==
  ASSUME NEW ret \in {BadArg, TooSmall, Invalid}, IInv, Refuse(ret), call.phase = "check",
         UNCHANGED <<closed, holder, pc, lastRet>>
  PROVE  IInv'
<1>1. /\ st' = st /\ closed' = closed /\ holder' = holder /\ pc' = pc /\ lastRet' = lastRet
      /\ ret \in Int /\ ret < 0
  BY DEF Refuse, BadArg, TooSmall, Invalid
<1>2. /\ call' \in Calls /\ call'.phase = "return" /\ call'.ret = ret /\ call'.written = 0
      /\ ~call'.touched
  <2>1. PICK no \in BOOLEAN : ~no
    OBVIOUS
  <2>2. PICK zero \in Int : zero = 0
    OBVIOUS
  <2>3. call' = [NoCall EXCEPT !.phase = "return", !.ret = ret, !.written = zero,
                               !.touched = no]
    <3>1. no = FALSE
      BY <2>1
    <3>2. QED BY <2>2, <3>1 DEF Refuse, Outcome
  <2>4. /\ call' \in Calls /\ call'.phase = "return" /\ call'.ret = ret
        /\ call'.written = zero /\ call'.touched = no
    <3>1. ret \in Int
      BY <1>1
    <3>2. QED BY <3>1, <2>1, <2>2, <2>3, NoCallTyped DEF Calls, Phases
  <2>5. QED BY <2>1, <2>2, <2>4
<1>3. st.last_packet_duration = lastRet /\ ~Free
  BY DEF IInv, Remembered, Covered
<1>4. Typed' /\ Live(st)' /\ (st.frame_size \in Sizes)'
  BY <1>1, <1>2 DEF IInv, Typed, Live
<1>5. OnCourse' /\ Remembered' /\ Returned' /\ Covered'
  BY <1>1, <1>2, <1>3 DEF OnCourse, Remembered, Returned, Covered, Working, Free
<1>6. QED BY <1>4, <1>5 DEF IInv

LEMMA AcceptInv ==
  ASSUME NEW p \in Packet \cup {NoPacket}, NEW room \in Int, NEW ph \in Working,
         room > 0, ph # "conceal" => p \in Packet /\ Parses(p),
         ph = "conceal" => Whole(room),
         ph = "excess" => room - p.size > 0 /\ Whole(room - p.size),
         ph = "fec" => room = p.size,
         ph = "frames" => Samples(p) <= room,
         IInv, Accept(p, room, ph), call.phase = "check", ~closed,
         UNCHANGED <<closed, holder, pc, lastRet>>
  PROVE  IInv'
<1>1. /\ closed' = closed /\ holder' = holder /\ pc' = pc /\ lastRet' = lastRet
      /\ st' = Configured(st, p, ph)
      /\ st \in States /\ call \in Calls /\ st.frame_size \in Sizes
      /\ st.last_packet_duration = lastRet /\ ~Free
      /\ call.next = 1 /\ call.count = 0 /\ call.inner = 0 /\ call.written = 0
  BY DEF Accept, IInv, Typed, Remembered, Covered, OnCourse
<1>2. ph # "conceal" => /\ p.mode \in {"SILK", "HYBRID", "CELT"}
                        /\ p.size \in Sizes /\ p.size \in Int /\ p.size > 0
                        /\ p.size <= Samples(p) /\ Samples(p) \in Int
                        /\ Len(p.frames) \in Int /\ Len(p.frames) >= 1
  <2> SUFFICES ASSUME ph # "conceal"
               PROVE  /\ p.mode \in {"SILK", "HYBRID", "CELT"}
                      /\ p.size \in Sizes /\ p.size \in Int /\ p.size > 0
                      /\ p.size <= Samples(p) /\ Samples(p) \in Int
                      /\ Len(p.frames) \in Int /\ Len(p.frames) >= 1
    OBVIOUS
  <2>1. /\ p.mode \in {"SILK", "HYBRID", "CELT"}
        /\ p.size \in Sizes /\ p.size \in Int /\ p.size > 0 /\ Samples(p) \in Int
        /\ Len(p.frames) \in Int /\ Len(p.frames) >= 1
        /\ \A i \in 1 .. Len(p.frames) : i * p.size <= Samples(p)
    BY PacketFacts
  <2>2. 1 * p.size <= Samples(p)
    BY <2>1
  <2>3. QED BY <2>1, <2>2
<1>3. /\ Alike([st EXCEPT !.mode = st'.mode, !.frame_size = st'.frame_size], st')
      /\ SameModes(st, st') /\ st'.end = st.end /\ st'.stale = st.stale /\ st'.fatal = st.fatal
      /\ st'.last_packet_duration = st.last_packet_duration /\ st' \in States
      /\ st'.frame_size \in Sizes
      /\ ph \in {"fec", "frames"} => st'.frame_size = p.size /\ st'.mode = p.mode
  <2>1. CASE ph \in {"fec", "frames"}
    <3>1. st' = [st EXCEPT !.mode = p.mode, !.frame_size = p.size]
      BY <1>1, <2>1 DEF Configured, Configure
    <3>2. p.mode \in Mode
      BY <1>2, <2>1 DEF Mode
    <3>3. QED BY <1>1, <1>2, <2>1, <3>1, <3>2 DEF States, Alike, SameModes
  <2>2. CASE ph \notin {"fec", "frames"}
    BY <1>1, <2>2 DEF Configured, States, Alike, SameModes
  <2>3. QED BY <2>1, <2>2
<1>4. /\ call' \in Calls /\ call'.phase = ph /\ call'.packet = p /\ call'.total = room
      /\ call'.goal = Goal(p, room, ph)
      /\ ph = "excess" => call'.duration_copy = lastRet
      /\ call'.next = 1 /\ call'.count = 0 /\ call'.inner = 0 /\ call'.written = 0
  <2>1. PICK goal \in Int : goal = Goal(p, room, ph)
    BY <1>2 DEF Goal
  <2>2. PICK dur \in Int : dur = IF ph = "excess" THEN st.last_packet_duration ELSE 0
    BY <1>1 DEF States
  <2>3. PICK touched \in BOOLEAN : touched <=> Configured(st, p, ph) # st
    OBVIOUS
  <2>4. touched = (Configured(st, p, ph) # st)
    BY <2>3
  <2>5. call' = [call EXCEPT !.phase = ph, !.packet = p, !.total = room, !.goal = goal,
                             !.duration_copy = dur, !.touched = touched]
    BY <2>1, <2>2, <2>4 DEF Accept
  <2>6. QED BY ZenonT(40), <1>1, <2>1, <2>2, <2>5 DEF Calls, Phases, Working
<1>5. Live(st') /\ Typed'
  BY <1>1, <1>3, <1>4 DEF IInv, Live, SameModes, Typed
<1>6. OnCourse'
  <2>1. Whole(0)
    BY WholeSizes
  <2>2. CASE ph \in {"conceal", "excess"}
    <3>1. call'.goal > 0 /\ call'.goal \in Int /\ Whole(call'.goal)
          /\ (ph = "excess" => call'.goal = room - p.size)
      BY <1>2, <1>4, <2>2 DEF Goal
    <3>2. call'.goal - 0 = call'.goal
      BY <3>1
    <3>3. QED BY <1>1, <1>4, <2>1, <2>2, <3>1, <3>2 DEF OnCourse, Working
  <2>3. CASE ph = "fec"
    <3>1. call'.goal = room /\ call'.total = p.size /\ p.size - p.size = 0
      BY <1>2, <1>4, <2>3 DEF Goal
    <3>2. Following'
      BY <1>3, <1>4, <2>3 DEF Following
    <3>3. QED BY <1>1, <1>2, <1>4, <2>1, <2>3, <3>1, <3>2 DEF OnCourse, Working
  <2>4. CASE ph = "frames"
    <3>1. call'.goal = room /\ 1 * p.size - p.size = 0
      BY <1>2, <1>4, <2>4 DEF Goal
    <3>2. Following'
      BY <1>3, <1>4, <2>4 DEF Following
    <3>3. QED BY <1>1, <1>2, <1>4, <2>1, <2>4, <3>1, <3>2 DEF OnCourse, Working
  <2>5. QED BY <2>2, <2>3, <2>4 DEF Working
<1>7. Remembered' /\ Returned' /\ Covered'
  BY <1>1, <1>3, <1>4 DEF Remembered, Returned, Covered, Working, Free
<1>8. QED BY <1>3, <1>5, <1>6, <1>7 DEF IInv

LEMMA EnterInv == ASSUME NEW c \in Caller, IInv, Enter(c) PROVE IInv'
<1>1. call.phase = "check" /\ UNCHANGED <<closed, holder, pc, lastRet>>
  BY DEF Enter, Decoding
<1>2. CASE Refuse(BadArg)
  BY <1>1, <1>2, RefuseInv
<1>3. CASE /\ ~closed
           /\ \E p \in Packet \cup {NoPacket}, size \in AskedSize \ {0},
                 fec \in BOOLEAN, clips \in BOOLEAN :
                LET room == Room(p, size, clips, fec)
                    no   == Refusal(p, room, fec)
                IN  \/ no # 0 /\ Refuse(no)
                    \/ no = 0 /\ Accept(p, room, Phase(st, p, room, fec))
  <2>1. PICK p \in Packet \cup {NoPacket}, size \in AskedSize \ {0},
             fec \in BOOLEAN, clips \in BOOLEAN :
               LET room == Room(p, size, clips, fec)
                   no   == Refusal(p, room, fec)
               IN  \/ no # 0 /\ Refuse(no)
                   \/ no = 0 /\ Accept(p, room, Phase(st, p, room, fec))
    BY <1>3, Zenon
  <2> DEFINE room == Room(p, size, clips, fec)
             no == Refusal(p, room, fec)
             ph == Phase(st, p, room, fec)
  <2>2. no = 0 => /\ room \in Int /\ room > 0
                  /\ ph \in Working
                  /\ ph # "conceal" => p \in Packet /\ Parses(p)
                  /\ ph = "conceal" => Whole(room)
                  /\ ph = "excess" => room - p.size > 0 /\ Whole(room - p.size)
                  /\ ph = "fec" => room = p.size
                  /\ ph = "frames" => Samples(p) <= room
    BY Accepted, ZenonT(40)
  <2>3. no # 0 => no \in {BadArg, TooSmall, Invalid}
    BY DEF Refusal
  <2>4. (no # 0 /\ Refuse(no)) \/ (no = 0 /\ Accept(p, room, ph))
    BY <2>1, Zenon
  <2> HIDE DEF room, no, ph
  <2>5. QED BY <1>1, <1>3, <2>2, <2>3, <2>4, RefuseInv, AcceptInv
<1>4. QED BY <1>2, <1>3, Zenon DEF Enter

(* What a round adds to the count, in each of the loops.                   *)
LEMMA CountFits ==
  ASSUME IInv, call.phase \in Working, NEW k \in Int, NEW rest \in Int,
         k > 0, rest >= 0, k + rest <= Due, Whole(k),
         call.phase \in {"fec", "frames"} => k + rest = Due
  PROVE  LET cnt == call.count + k
         IN  /\ cnt \in Int /\ cnt > 0
             /\ Offset = call.written /\ call.written = call.count
             /\ call.phase \in {"conceal", "excess"} =>
                  cnt + rest <= call.goal /\ Whole(call.goal - cnt)
             /\ call.phase = "fec" => cnt + rest = call.total /\ rest < call.packet.size
             /\ call.phase = "frames" =>
                  cnt + rest = call.next * call.packet.size /\ rest < call.packet.size
<1> DEFINE cnt == call.count + k
<1>1. /\ OnCourse /\ call \in Calls /\ call.count \in Int /\ call.goal \in Int
      /\ call.inner \in Int /\ call.total \in Int /\ call.next \in Int /\ call.inner >= 0
      /\ call.count >= 0 /\ call.written = call.count
  BY DEF IInv, Typed, Calls, OnCourse
<1>2. cnt \in Int /\ cnt > 0
  BY <1>1
<1>3. CASE call.phase \in {"conceal", "excess"}
  <2>1. Offset = call.written
    BY <1>1, <1>3 DEF Offset
  <2>2. /\ Due \in Int /\ Due <= call.goal - call.count
        /\ Whole(call.goal - call.count)
    BY <1>1, <1>3 DEF Due, OnCourse, Working
  <2>3. Whole((call.goal - call.count) - k)
    BY <2>2, WholeDifference
  <2>4. (call.goal - call.count) - k = call.goal - cnt /\ cnt + rest <= call.goal
    BY <1>1, <1>3, <2>2
  <2>5. QED BY <1>1, <1>2, <1>3, <2>1, <2>3, <2>4
<1>4. CASE call.phase \in {"fec", "frames"}
  <2>1. call.packet.size \in Int /\ call.packet.size > 0 /\ call.inner < call.packet.size
    BY <1>1, <1>4, PacketFacts DEF OnCourse, Following
  <2>2. Due = IF call.inner > 0 THEN call.inner ELSE call.packet.size
    BY <1>1, <1>4 DEF Due
  <2>3. rest < call.packet.size
    BY <1>1, <1>4, <2>1, <2>2
  <2>4. CASE call.phase = "fec"
    <3>1. call.count = call.total - Due
      BY <1>1, <2>2, <2>4 DEF OnCourse
    <3>2. Left = Due
      BY <1>1, <2>2, <2>4 DEF Left
    <3>3. Offset = call.written
      BY <1>1, <2>1, <2>2, <2>4, <3>1, <3>2 DEF Offset
    <3>4. cnt + rest = call.total
      BY <1>1, <1>4, <2>1, <2>2, <3>1
    <3>5. QED BY <1>1, <1>2, <2>3, <2>4, <3>3, <3>4
  <2>5. CASE call.phase = "frames"
    <3>1. call.count = call.next * call.packet.size - Due
      BY <1>1, <2>2, <2>5 DEF OnCourse
    <3>2. PICK end \in Int : end = call.next * call.packet.size
      BY <1>1, <2>1
    <3>3. cnt + rest = end
      BY <1>1, <1>4, <2>1, <2>2, <3>1, <3>2
    <3>4. Offset = call.written
      BY <1>1, <2>5 DEF Offset
    <3>5. QED BY <1>1, <1>2, <2>3, <2>5, <3>2, <3>3, <3>4
  <2>6. QED BY <1>4, <2>4, <2>5
<1>5. QED BY <1>3, <1>4 DEF Working

LEMMA GrownFields ==
  ASSUME NEW k \in Int, NEW rest \in Int, call \in Calls,
         Offset = call.written, call.written = call.count
  PROVE  LET g == Grown(k, rest)
         IN  /\ g \in Calls /\ g.phase = call.phase /\ g.packet = call.packet
             /\ g.total = call.total /\ g.goal = call.goal /\ g.next = call.next
             /\ g.duration_copy = call.duration_copy /\ g.inner = rest
             /\ g.count = call.count + k /\ g.written = call.count + k
<1>1. PICK yes \in BOOLEAN : yes <=> TRUE
  OBVIOUS
<1>2. PICK cnt \in Int : cnt = call.count + k
  BY DEF Calls
<1>3. yes = TRUE
  BY <1>1
<1>4. Grown(k, rest) = [call EXCEPT !.count = cnt, !.inner = rest, !.touched = yes,
                                    !.written = cnt]
  BY <1>2, <1>3 DEF Grown, Counted
<1> HIDE DEF Grown
<1>5. QED BY <1>2, <1>4 DEF Calls

(* A call that has decoded comes to an end, well or badly.                 *)
LEMMA ReturnInv ==
  ASSUME IInv, call.phase \in Working,
         NEW ret \in Int, NEW written \in Int, NEW touched \in BOOLEAN,
         call' = [NoCall EXCEPT !.phase = "return", !.ret = ret, !.written = written,
                                !.touched = touched],
         st' \in States, Live(st'), st'.frame_size \in Sizes,
         st'.last_packet_duration = IF ret < 0 THEN lastRet ELSE ret,
         ret >= 0 => written = ret, ret \notin {BadArg, TooSmall, Invalid},
         UNCHANGED <<closed, holder, pc, lastRet>>
  PROVE  IInv'
<1>1. closed' = closed /\ holder' = holder /\ pc' = pc /\ lastRet' = lastRet
  OBVIOUS
<1>2. /\ call' \in Calls /\ call'.phase = "return" /\ call'.ret = ret
      /\ call'.written = written
  BY NoCallTyped DEF Calls, Phases
<1>3. ~Free
  BY DEF IInv, Covered, Working
<1>4. Typed' /\ Live(st)' /\ (st.frame_size \in Sizes)'
  BY <1>1, <1>2 DEF IInv, Typed, Live
<1>5. OnCourse' /\ Remembered' /\ Returned' /\ Covered'
  BY <1>1, <1>2, <1>3 DEF OnCourse, Remembered, Returned, Covered, Working, Free
<1>6. QED BY <1>4, <1>5 DEF IInv

(* The call once a round is over.                                          *)
GoneOn(k, rest, next) ==
  /\ call' \in Calls /\ call'.phase = call.phase /\ call'.packet = call.packet
  /\ call'.total = call.total /\ call'.goal = call.goal /\ call'.next = next
  /\ call'.duration_copy = call.duration_copy /\ call'.inner = rest
  /\ call'.count = call.count + k /\ call'.written = call.count + k

(* The loops go on: to the next piece, the next frame, more concealment.   *)
LEMMA GoesOnInv ==
  ASSUME IInv, call.phase \in Working, NEW r, RoundFits(r), r.ret >= 0,
         NEW next \in Int, next = call.next \/ call.phase = "frames",
         GoneOn(r.ret, r.rest, next), st' = r.s,
         r.rest > 0 => next = call.next,
         r.rest = 0 => /\ call.phase # "fec"
                       /\ call.phase = "frames" =>
                            next = call.next + 1 /\ next <= Len(call.packet.frames)
                       /\ call.phase \in {"conceal", "excess"} =>
                            call.count + r.ret < call.goal,
         UNCHANGED <<closed, holder, pc, lastRet>>
  PROVE  IInv'
<1> DEFINE k == r.ret
           rest == r.rest
           cnt == call.count + k
<1>1. /\ closed' = closed /\ holder' = holder /\ pc' = pc /\ lastRet' = lastRet
      /\ OnCourse /\ st \in States /\ call \in Calls /\ call.count \in Int /\ call.next \in Int
      /\ call.goal \in Int /\ call.total \in Int /\ call.count >= 0
  BY DEF IInv, Typed, Calls, OnCourse
<1>2. /\ k \in Int /\ rest \in Int /\ k > 0 /\ rest >= 0 /\ k + rest <= Due
      /\ Whole(k) /\ Whole(rest)
      /\ rest > 0 => st'.prev_mode # "none"
      /\ call.phase \in {"fec", "frames"} => k + rest = Due
  BY DEF RoundFits
<1>3. /\ cnt \in Int /\ cnt > 0
      /\ Offset = call.written /\ call.written = call.count
      /\ call.phase \in {"conceal", "excess"} =>
           cnt + rest <= call.goal /\ Whole(call.goal - cnt)
      /\ call.phase = "fec" => cnt + rest = call.total /\ rest < call.packet.size
      /\ call.phase = "frames" =>
           cnt + rest = call.next * call.packet.size /\ rest < call.packet.size
  BY <1>2, CountFits
<1>4. /\ call' \in Calls /\ call'.phase = call.phase /\ call'.packet = call.packet
      /\ call'.total = call.total /\ call'.goal = call.goal /\ call'.next = next
      /\ call'.duration_copy = call.duration_copy /\ call'.inner = rest
      /\ call'.count = cnt /\ call'.written = cnt
  BY DEF GoneOn
<1>5. /\ st' \in States /\ Live(st') /\ st'.frame_size = st.frame_size /\ st'.mode = st.mode
      /\ st'.last_packet_duration = st.last_packet_duration
  BY DEF RoundFits, Alike
<1> HIDE DEF k, rest, cnt
<1>6. Typed' /\ Live(st)' /\ (st.frame_size \in Sizes)'
  BY <1>1, <1>4, <1>5 DEF IInv, Typed, Live
<1>7. Remembered' /\ Returned' /\ Covered'
  <2>1. st.last_packet_duration = lastRet \/ call.phase = "fec"
    BY DEF IInv, Remembered, Working
  <2>2. QED BY <1>1, <1>4, <1>5, <2>1
            DEF IInv, Remembered, Returned, Covered, Working, Free
<1>8. call.phase \in {"fec", "frames"} => Following' /\ call.packet.size \in Int
                                          /\ call.packet.size > 0
  BY <1>1, <1>4, <1>5, PacketFacts DEF OnCourse, Following
<1>9. OnCourse'
  <2>1. CASE call.phase \in {"conceal", "excess"}
    <3>1. cnt < call.goal /\ rest <= call.goal - cnt
      <4>1. cnt + rest <= call.goal
        BY <1>3, <2>1
      <4>2. rest = 0 => cnt < call.goal
        BY <2>1 DEF cnt, rest, k
      <4>3. QED BY <1>1, <1>2, <1>3, <4>1, <4>2
    <3>2. QED BY <1>1, <1>2, <1>3, <1>4, <2>1, <3>1 DEF OnCourse, Working, k, rest
  <2>2. CASE call.phase = "fec"
    <3>1. rest > 0 /\ cnt = call.total - rest
      BY <1>1, <1>2, <1>3, <2>2 DEF rest
    <3>2. QED BY <1>1, <1>2, <1>3, <1>4, <1>8, <2>2, <3>1 DEF OnCourse, Working, k, rest
  <2>3. CASE call.phase = "frames"
    <3>1. CASE rest > 0
      <4>1. PICK end \in Int : end = call.next * call.packet.size
        BY <1>1, <1>8, <2>3
      <4>2. cnt = end - rest /\ next = call.next
        BY <1>2, <1>3, <2>3, <3>1, <4>1 DEF rest
      <4>3. QED BY <1>1, <1>2, <1>3, <1>4, <1>8, <2>3, <3>1, <4>1, <4>2
               DEF OnCourse, Working, k, rest
    <3>2. CASE rest = 0
      <4>1. next = call.next + 1 /\ next <= Len(call.packet.frames)
        BY <2>3, <3>2 DEF rest
      <4>2. PICK size \in Int : size = call.packet.size
        BY <1>8, <2>3
      <4>3. cnt = call.next * size
        BY <1>3, <2>3, <3>2, <4>2
      <4>4. next * size = call.next * size + size
        BY <1>1, <4>1, <4>2
      <4>5. cnt = next * size - size
        BY <1>1, <1>3, <4>2, <4>3, <4>4
      <4>6. next \in 1 .. Len(call.packet.frames)
        BY <1>1, <2>3, <4>1 DEF OnCourse, Working
      <4>7. QED BY <1>1, <1>2, <1>3, <1>4, <1>8, <2>3, <3>2, <4>2, <4>5, <4>6
               DEF OnCourse, Working
    <3>3. QED BY <1>2, <3>1, <3>2
  <2>4. QED BY <2>1, <2>2, <2>3 DEF Working
<1>10. QED BY <1>6, <1>7, <1>9 DEF IInv

LEMMA GoneOnFields ==
  ASSUME NEW k \in Int, NEW rest \in Int, NEW next \in Int, call \in Calls,
         Offset = call.written, call.written = call.count
  PROVE  /\ call' = [Grown(k, rest) EXCEPT !.next = next] => GoneOn(k, rest, next)
         /\ call' = Grown(k, rest) /\ next = call.next => GoneOn(k, rest, next)
<1>1. PICK g : g = Grown(k, rest)
  OBVIOUS
<1>2. /\ g \in Calls /\ g.phase = call.phase /\ g.packet = call.packet
      /\ g.total = call.total /\ g.goal = call.goal /\ g.next = call.next
      /\ g.duration_copy = call.duration_copy /\ g.inner = rest
      /\ g.count = call.count + k /\ g.written = call.count + k
  BY <1>1, GrownFields
<1>3. ASSUME call' = [g EXCEPT !.next = next] PROVE GoneOn(k, rest, next)
  BY <1>2, <1>3 DEF Calls, GoneOn
<1>4. ASSUME call' = g, next = call.next PROVE GoneOn(k, rest, next)
  BY <1>2, <1>4 DEF GoneOn
<1>5. QED BY <1>1, <1>3, <1>4, Zenon

(* The concealment before an FEC frame is done: its packet is next.        *)
LEMMA FecNextInv ==
  ASSUME IInv, call.phase = "excess", NEW r, RoundFits(r), r.ret >= 0, r.rest = 0,
         call.count + r.ret = call.goal, NEW last \in Nat,
         NEW mode, mode = call.packet.mode, NEW size, size = call.packet.size,
         NEW s \in States, s = r.s,
         st' = [s EXCEPT !.last_packet_duration = last, !.mode = mode, !.frame_size = size],
         NEW g \in Calls, NEW total, total = call.total,
         call' = [g EXCEPT !.phase = "fec", !.goal = total],
         g.packet = call.packet, g.total = total, g.next = call.next, g.inner = 0,
         g.count = call.goal, g.written = call.goal,
         UNCHANGED <<closed, holder, pc, lastRet>>
  PROVE  IInv'
<1>1. /\ closed' = closed /\ holder' = holder /\ pc' = pc /\ lastRet' = lastRet
      /\ call \in Calls /\ call.count \in Int /\ call.count >= 0
      /\ call.goal \in Int /\ total \in Int /\ call.next = 1
      /\ call.packet \in Packet /\ Parses(call.packet)
      /\ call.goal = total - size
  BY DEF IInv, Typed, Calls, OnCourse, Working
<1>2. mode \in Mode /\ size \in Int /\ size > 0 /\ size \in Sizes /\ Whole(0)
  BY <1>1, PacketFacts, WholeSizes DEF Mode
<1>3. /\ st' \in States /\ Live(st') /\ st'.frame_size = size /\ st'.mode = mode
  <2>1. Live(s)
    BY DEF RoundFits
  <2>2. /\ st' \in States /\ st'.frame_size = size /\ st'.mode = mode
        /\ st'.stale = s.stale /\ st'.fatal = s.fatal /\ st'.end = s.end
        /\ st'.prev_mode = s.prev_mode /\ st'.prev_redundancy = s.prev_redundancy
    BY <1>2 DEF States
  <2>3. QED BY <2>1, <2>2 DEF Live
<1>4. /\ call' \in Calls /\ call'.phase = "fec" /\ call'.packet = call.packet
      /\ call'.total = total /\ call'.goal = total /\ call'.next = 1 /\ call'.inner = 0
      /\ call'.count = call.goal /\ call'.written = call.goal
  BY <1>1 DEF Calls, Phases
<1>5. ~Free /\ ~closed
  BY DEF IInv, Covered, Working
<1>6. Typed' /\ Live(st)' /\ (st.frame_size \in Sizes)'
  BY <1>1, <1>2, <1>3, <1>4 DEF IInv, Typed
<1>7. Following'
  BY <1>1, <1>3, <1>4 DEF Following
<1>8. call.goal >= 0
  BY <1>1 DEF RoundFits
<1>9. OnCourse' /\ Remembered' /\ Returned' /\ Covered'
  BY <1>1, <1>2, <1>4, <1>5, <1>7, <1>8
     DEF OnCourse, Remembered, Returned, Covered, Working, Free
<1>10. QED BY <1>6, <1>9 DEF IInv

(* What a step of the loops may do with a round r that succeeded.          *)
NextPiece(r) ==
  r.rest > 0 /\ st' = r.s /\ call' = Grown(r.ret, r.rest)
NextFrame(r, s) ==
  /\ r.rest = 0 /\ MoreFrames(call.count + r.ret) /\ st' = s
  /\ call' = [Grown(r.ret, 0) EXCEPT !.next = IF call.phase = "frames" THEN @ + 1 ELSE @]
NowFec(r, s) ==
  /\ r.rest = 0 /\ ~MoreFrames(call.count + r.ret) /\ call.phase = "excess"
  /\ st' = Configure([s EXCEPT !.last_packet_duration = call.count + r.ret], call.packet)
  /\ call' = [Grown(r.ret, 0) EXCEPT !.phase = "fec", !.goal = call.total]
Over(r, s) ==
  /\ r.rest = 0 /\ ~MoreFrames(call.count + r.ret) /\ call.phase # "excess"
  /\ st' = [s EXCEPT !.last_packet_duration = call.count + r.ret]
  /\ call' = Outcome(call.count + r.ret, Grown(r.ret, 0).written, TRUE)

LEMMA DecodeStepInv == ASSUME NEW c \in Caller, IInv, DecodeStep(c) PROVE IInv'
<1>1. call.phase \in Working /\ UNCHANGED <<closed, holder, pc, lastRet>>
  BY DEF DecodeStep, Decoding, Working
<1>2. PICK r \in {Decoded} :
        LET cnt  == Counted(r.ret)
            s    == IF r.rest = 0 THEN Check(r.s, Exact(cnt)) ELSE r.s
            last == [s EXCEPT !.last_packet_duration = cnt]
        IN  \/ /\ r.ret < 0
               /\ call' = Outcome(r.ret, 0, call.touched \/ r.s # st)
               /\ st' = Failed(r.s)
            \/ /\ r.ret >= 0 /\ r.rest > 0
               /\ st' = s
               /\ call' = Grown(r.ret, r.rest)
            \/ /\ r.ret >= 0 /\ r.rest = 0
               /\ MoreFrames(cnt)
               /\ st' = s
               /\ call' = [Grown(r.ret, 0) EXCEPT
                             !.next = IF call.phase = "frames" THEN @ + 1 ELSE @]
            \/ /\ r.ret >= 0 /\ r.rest = 0
               /\ ~MoreFrames(cnt) /\ call.phase = "excess"
               /\ st' = Configure(last, call.packet)
               /\ call' = [Grown(r.ret, 0) EXCEPT !.phase = "fec", !.goal = call.total]
            \/ /\ r.ret >= 0 /\ r.rest = 0
               /\ ~MoreFrames(cnt) /\ call.phase # "excess"
               /\ st' = last
               /\ call' = Outcome(cnt, Grown(r.ret, 0).written, TRUE)
  BY Zenon DEF DecodeStep
<1> DEFINE cnt == call.count + r.ret
           s == IF r.rest = 0 THEN Check(r.s, Exact(cnt)) ELSE r.s
<1>3. \/ /\ r.ret < 0
         /\ call' = Outcome(r.ret, 0, call.touched \/ r.s # st)
         /\ st' = Failed(r.s)
      \/ r.ret >= 0 /\ (NextPiece(r) \/ NextFrame(r, s) \/ NowFec(r, s) \/ Over(r, s))
  <2>1. r.rest > 0 => s = r.s
    <3>1. r.rest > 0 => r.rest # 0
      OBVIOUS
    <3>2. QED BY <3>1, Zenon
  <2>2. QED BY <1>2, <2>1, Zenon DEF Counted, NextPiece, NextFrame, NowFec, Over
<1>4. RoundFits(r)
  BY <1>1, DecodedFits
<1>5. /\ OnCourse /\ call \in Calls /\ call.count \in Int /\ call.next \in Int
      /\ call.goal \in Int /\ st.frame_size \in Sizes /\ st.last_packet_duration \in Int
      /\ call.phase # "fec" => st.last_packet_duration = lastRet
  BY <1>1 DEF IInv, Typed, Calls, States, Remembered, Working
<1>6. CASE r.ret < 0
  <2>1. PICK touched \in BOOLEAN : touched <=> (call.touched \/ r.s # st)
    OBVIOUS
  <2>2. PICK zero \in Int : zero = 0
    OBVIOUS
  <2>3. PICK ret \in Int : ret = r.ret
    BY <1>4 DEF RoundFits
  <2>4. ret < 0 /\ ret \notin {BadArg, TooSmall, Invalid} /\ call.phase = "frames"
    BY <1>4, <1>6, <2>3 DEF RoundFits, Internal, BadArg, TooSmall, Invalid
  <2>5. call' = Outcome(ret, zero, touched)
    <3>1. touched = (call.touched \/ r.s # st)
      BY <2>1
    <3>2. QED BY <1>4, <1>3, <1>6, <2>2, <2>3, <3>1 DEF RoundFits
  <2>6. st' = r.s
    BY <1>4, <1>3, <1>6, <2>4 DEF Failed, RoundFits
  <2>7. /\ st' \in States /\ Live(st') /\ st'.frame_size \in Sizes
        /\ st'.last_packet_duration = lastRet
    BY <1>4, <1>5, <2>4, <2>6 DEF RoundFits, Alike
  <2>8. call' = [NoCall EXCEPT !.phase = "return", !.ret = ret, !.written = zero,
                               !.touched = touched]
    BY <2>5 DEF Outcome
  <2>9. (ret >= 0 => zero = ret) /\ st'.last_packet_duration = IF ret < 0 THEN lastRet ELSE ret
    BY <2>4, <2>7
  <2>10. QED BY <1>1, <2>4, <2>7, <2>8, <2>9, ReturnInv
<1>7. CASE r.ret >= 0
  <2>1. /\ r.ret \in Int /\ r.rest \in Int /\ r.ret > 0 /\ r.rest >= 0
        /\ r.ret + r.rest <= Due /\ Whole(r.ret)
        /\ call.phase \in {"fec", "frames"} => r.ret + r.rest = Due
        /\ r.s \in States
    BY <1>4, <1>7 DEF RoundFits, Alike
  <2>2. /\ cnt \in Int /\ cnt > 0 /\ Offset = call.written /\ call.written = call.count
        /\ call.phase \in {"conceal", "excess"} =>
             cnt + r.rest <= call.goal /\ Whole(call.goal - cnt)
        /\ call.phase = "fec" => cnt + r.rest = call.total /\ r.rest < call.packet.size
        /\ call.phase = "frames" =>
             cnt + r.rest = call.next * call.packet.size /\ r.rest < call.packet.size
    BY <1>1, <2>1, CountFits
  <2>3. s = r.s
    <3>1. CASE r.rest = 0
      <4>1. call.phase # "frames" => cnt <= call.goal
        BY <1>1, <1>5, <2>1, <2>2, <3>1 DEF OnCourse, Working
      <4>2. call.phase = "frames" => cnt = call.next * call.packet.size
        BY <2>1, <2>2, <3>1
      <4>3. Exact(cnt)
        BY <1>5, <2>2, <4>1, <4>2 DEF Exact
      <4>4. QED BY <2>1, <3>1, <4>3, CheckHolds
    <3>2. CASE r.rest # 0
      BY <3>2
    <3>3. QED BY <3>1, <3>2
  <2> HIDE DEF s
  <2>4. /\ Grown(r.ret, 0) \in Calls /\ Grown(r.ret, 0).packet = call.packet
        /\ Grown(r.ret, 0).total = call.total /\ Grown(r.ret, 0).next = call.next
        /\ Grown(r.ret, 0).inner = 0 /\ Grown(r.ret, 0).count = cnt
        /\ Grown(r.ret, 0).written = cnt
    <3>1. PICK k \in Int : k = r.ret
      BY <2>1
    <3>2. PICK zero \in Int : zero = 0
      OBVIOUS
    <3>3. LET g == Grown(k, zero)
          IN  /\ g \in Calls /\ g.packet = call.packet /\ g.total = call.total
              /\ g.next = call.next /\ g.inner = zero
              /\ g.count = call.count + k /\ g.written = call.count + k
      BY <1>5, <2>2, GrownFields
    <3>4. QED BY <3>1, <3>2, <3>3
  <2>5. CASE NextPiece(r)
    <3>1. GoneOn(r.ret, r.rest, call.next)
      BY <1>5, <2>1, <2>2, <2>5, GoneOnFields DEF NextPiece
    <3>2. QED BY <1>1, <1>4, <1>5, <1>7, <2>1, <2>5, <3>1, GoesOnInv DEF NextPiece
  <2>6. CASE NextFrame(r, s)
    <3>1. /\ r.rest = 0 /\ MoreFrames(cnt) /\ st' = r.s
      BY <2>3, <2>6 DEF NextFrame
    <3>2. PICK next \in Int : next = IF call.phase = "frames" THEN call.next + 1 ELSE call.next
      BY <1>5
    <3>3. call' = [Grown(r.ret, r.rest) EXCEPT !.next = next]
      BY <2>6, <2>4, <3>1, <3>2 DEF NextFrame
    <3>4. GoneOn(r.ret, r.rest, next)
      BY <1>5, <2>1, <2>2, <3>3, GoneOnFields
    <3>5. /\ call.phase # "fec"
          /\ call.phase = "frames" => next <= Len(call.packet.frames)
          /\ call.phase \in {"conceal", "excess"} => call.count + r.ret < call.goal
      BY <1>1, <1>5, <2>1, <2>2, <3>1, <3>2, PacketFacts
         DEF MoreFrames, OnCourse, Working, Following
    <3>6. QED BY <1>1, <1>4, <1>7, <2>1, <3>1, <3>2, <3>4, <3>5, GoesOnInv
  <2>7. CASE NowFec(r, s)
    <3>1. /\ r.rest = 0 /\ call.phase = "excess"
          /\ ~MoreFrames(cnt)
      BY <2>7 DEF NowFec
    <3>2. cnt = call.goal
      BY <1>5, <2>1, <2>2, <3>1 DEF MoreFrames
    <3>3. PICK g : g = Grown(r.ret, 0)
      OBVIOUS
    <3>4. /\ g \in Calls /\ g.packet = call.packet /\ g.total = call.total
          /\ g.next = call.next /\ g.inner = 0 /\ g.count = cnt /\ g.written = cnt
      BY <2>4, <3>3
    <3>5. PICK total : total = call.total
      OBVIOUS
    <3>6. call' = [g EXCEPT !.phase = "fec", !.goal = total]
      BY <2>7, <3>3, <3>5 DEF NowFec
    <3>7. PICK t \in States : t = r.s
      BY <2>1
    <3>8. PICK mode, size : mode = call.packet.mode /\ size = call.packet.size
      OBVIOUS
    <3>9. st' = [t EXCEPT !.last_packet_duration = cnt, !.mode = mode, !.frame_size = size]
      BY <2>3, <2>7, <3>7, <3>8 DEF NowFec, Configure
    <3>10. cnt \in Nat
      BY <2>2
    <3>11. QED BY <1>1, <1>4, <1>7, <2>2, <3>10, <3>1, <3>2, <3>4, <3>5, <3>6, <3>7, <3>8, <3>9,
                  FecNextInv
  <2>8. CASE Over(r, s)
    <3>1. /\ r.rest = 0 /\ call.phase # "excess"
          /\ st' = [r.s EXCEPT !.last_packet_duration = cnt]
      BY <2>3, <2>8 DEF Over
    <3>2. /\ st' \in States /\ Live(st') /\ st'.frame_size \in Sizes
          /\ st'.last_packet_duration = cnt
      <4>0. cnt \in Nat
        BY <2>2
      <4>1. PICK t \in States : t = r.s
        BY <2>1
      <4>2. Live(t) /\ t.frame_size \in Sizes
        BY <1>4, <1>5, <4>1 DEF RoundFits, Alike
      <4>3. st' = [t EXCEPT !.last_packet_duration = cnt]
        BY <3>1, <4>1
      <4>4. QED BY <4>0, <4>2, <4>3 DEF States, Live
    <3>3. PICK yes \in BOOLEAN : yes <=> TRUE
      OBVIOUS
    <3>4. PICK ret \in Int : ret = cnt
      BY <2>2
    <3>5. Grown(r.ret, 0).written = ret
      BY <2>4, <3>4
    <3>6. call' = Outcome(ret, ret, yes)
      <4>1. yes = TRUE
        BY <3>3
      <4>2. QED BY <2>8, <3>4, <3>5, <4>1 DEF Over
    <3>7. call' = [NoCall EXCEPT !.phase = "return", !.ret = ret, !.written = ret,
                                 !.touched = yes]
      BY <3>6 DEF Outcome
    <3>8. ret > 0 /\ ret \notin {BadArg, TooSmall, Invalid}
      BY <2>2, <3>4 DEF BadArg, TooSmall, Invalid
    <3>9. st'.last_packet_duration = IF ret < 0 THEN lastRet ELSE ret
      BY <3>2, <3>4, <3>8
    <3>10. QED BY <1>1, <3>2, <3>7, <3>8, <3>9, ReturnInv
  <2>9. QED BY <1>3, <1>7, <2>1, <2>5, <2>6, <2>7, <2>8
<1>8. QED BY <1>4, <1>6, <1>7 DEF RoundFits

LEMMA CopyOutInv == ASSUME NEW c \in Caller, IInv, CopyOut(c) PROVE IInv'
<1>1. /\ call.phase = "return" /\ call \in Calls /\ call.ret \in Int /\ call.written \in Int
      /\ st' = st /\ closed' = closed /\ holder' = holder /\ pc' = pc
      /\ lastRet' = IF call.ret < 0 THEN lastRet ELSE call.ret
  BY DEF CopyOut, Decoding, IInv, Typed, Calls
<1>2. PICK copied \in Int : copied = Copied(call.ret)
  BY <1>1 DEF Copied
<1>3. PICK no \in BOOLEAN : no <=> FALSE
  OBVIOUS
<1>4. call' = [call EXCEPT !.phase = "done", !.copied = copied, !.touched = no]
  <2>1. no = FALSE
    BY <1>3
  <2>2. QED BY <1>2, <2>1 DEF CopyOut
<1>5. /\ call' \in Calls /\ call'.phase = "done" /\ call'.ret = call.ret
      /\ call'.written = call.written /\ call'.copied = copied
  BY <1>1, <1>4 DEF Calls, Phases
<1>6. copied = IF call.ret < 0 THEN 0 ELSE call.written
  BY <1>1, <1>2 DEF IInv, Returned, Copied
<1>7. st.last_packet_duration = lastRet' /\ ~Free /\ lastRet' \in Int
  BY <1>1 DEF IInv, Remembered, Covered, Typed
<1>8. Typed' /\ Live(st)' /\ (st.frame_size \in Sizes)'
  BY <1>1, <1>5, <1>7 DEF IInv, Typed, Live
<1>9. OnCourse' /\ Remembered' /\ Returned' /\ Covered'
  BY <1>1, <1>5, <1>6, <1>7 DEF OnCourse, Remembered, Returned, Covered, Working, Free
<1>10. QED BY <1>8, <1>9 DEF IInv

LEMMA LeaveInv == ASSUME NEW c \in Caller, IInv, Leave(c) PROVE IInv'
<1>1. /\ call.phase = "done" /\ holder' = NoCaller /\ call' = NoCall
      /\ st' = st /\ closed' = closed /\ lastRet' = lastRet
      /\ pc' = [pc EXCEPT ![c] = "idle"]
  BY DEF Leave, Decoding
<1>2. call' \in Calls /\ call'.phase = "none"
  BY <1>1, NoCallTyped DEF NoCall
<1>3. st.last_packet_duration = lastRet
  BY <1>1 DEF IInv, Remembered
<1>4. pc' \in [Caller -> {"idle", "decode", "close"}]
  BY <1>1 DEF IInv, Typed
<1>5. Typed' /\ Live(st)' /\ (st.frame_size \in Sizes)'
  BY <1>1, <1>2, <1>4 DEF IInv, Typed, Live
<1>6. OnCourse' /\ Remembered' /\ Returned' /\ Covered'
  BY <1>1, <1>2, <1>3 DEF OnCourse, Remembered, Returned, Covered, Working, Free
<1>7. QED BY <1>5, <1>6 DEF IInv

LEMMA StepInv == IInv /\ [Next]_vars => IInv'
<1> SUFFICES ASSUME IInv, [Next]_vars PROVE IInv'
  OBVIOUS
<1>1. ASSUME NEW c \in Caller, WantDecode(c) PROVE IInv'
  <2>1. /\ st' = st /\ call' = call /\ lastRet' = lastRet /\ holder' = holder
        /\ closed' = closed /\ pc' = [pc EXCEPT ![c] = "decode"]
    BY <1>1 DEF WantDecode
  <2>2. closed' \in BOOLEAN /\ pc' \in [Caller -> {"idle", "decode", "close"}]
    BY <2>1 DEF IInv, Typed
  <2>3. QED BY <2>1, <2>2, QuietInv
<1>2. ASSUME NEW c \in Caller, WantClose(c) PROVE IInv'
  <2>1. /\ st' = st /\ call' = call /\ lastRet' = lastRet /\ holder' = holder
        /\ closed' = closed /\ pc' = [pc EXCEPT ![c] = "close"]
    BY <1>2 DEF WantClose
  <2>2. closed' \in BOOLEAN /\ pc' \in [Caller -> {"idle", "decode", "close"}]
    BY <2>1 DEF IInv, Typed
  <2>3. QED BY <2>1, <2>2, QuietInv
<1>3. ASSUME NEW c \in Caller, Close(c) PROVE IInv'
  <2>1. /\ st' = st /\ call' = call /\ lastRet' = lastRet /\ holder' = holder
        /\ Free /\ pc' = [pc EXCEPT ![c] = "idle"]
    BY <1>3 DEF Close
  <2>2. closed' \in BOOLEAN
    BY <1>3 DEF Close
  <2>3. pc' \in [Caller -> {"idle", "decode", "close"}]
    BY <2>1 DEF IInv, Typed
  <2>4. QED BY <2>1, <2>2, <2>3, QuietInv
<1>4. ASSUME UNCHANGED vars PROVE IInv'
  <2>1. /\ st' = st /\ call' = call /\ lastRet' = lastRet /\ holder' = holder
        /\ closed' = closed /\ pc' = pc
    BY <1>4 DEF vars
  <2>2. closed' \in BOOLEAN /\ pc' \in [Caller -> {"idle", "decode", "close"}]
    BY <2>1 DEF IInv, Typed
  <2>3. QED BY <2>1, <2>2, QuietInv
<1>5. QED
  BY <1>1, <1>2, <1>3, <1>4, LockInv, EnterInv, DecodeStepInv, CopyOutInv, LeaveInv DEF Next

-----------------------------------------------------------------------------
(* IInv holds throughout.                                                  *)
THEOREM Invariance == Spec => []IInv
<1>1. Init => IInv
  BY InitInv
<1>2. IInv /\ [Next]_vars => IInv'
  BY StepInv
<1>3. QED BY <1>1, <1>2, PTL DEF Spec

(* Types.                                                                  *)
THEOREM TypeCorrect == Spec => []TypeOK
<1>1. IInv => TypeOK
  <2> SUFFICES ASSUME IInv PROVE TypeOK
    OBVIOUS
  <2>1. st.frame_size \in Nat
    BY SizesWhole DEF IInv
  <2>2. closed \in BOOLEAN /\ st.prev_redundancy \in BOOLEAN
    BY DEF IInv, Typed, States
  <2>3. QED BY <2>1, <2>2 DEF IInv, Typed, States, Calls, Phases, TypeOK
<1>2. QED BY <1>1, Invariance, PTL

(* No codec is heard from a history that ends in the past: whatever        *)
(* packets, losses and failures a stream brings, opusDecodeFrame has reset *)
(* the codec, or had it decode up to the sample before.                    *)
THEOREM HistoryFresh == Spec => []NoStaleAudio
<1>1. IInv => NoStaleAudio
  BY DEF IInv, Live, NoStaleAudio
<1>2. QED BY <1>1, Invariance, PTL

(* No assertion of the decoder aborts the program: SILK and CELT are asked *)
(* for lengths they know, and the loops of opusDecodeNative end exactly    *)
(* where the packet or the caller says.                                    *)
THEOREM NeverAborts == Spec => []AssertionsHold
<1>1. IInv => AssertionsHold
  BY DEF IInv, Live, AssertionsHold
<1>2. QED BY <1>1, Invariance, PTL

(* A call refused for its arguments or its packet touched nothing; the     *)
(* rounds that conceal before a FEC frame never come back with such a      *)
(* refusal.                                                                *)
THEOREM RefusalsClean == Spec => []RefusedUntouched
<1>1. IInv => RefusedUntouched
  BY DEF IInv, Returned, RefusedUntouched
<1>2. QED BY <1>1, Invariance, PTL

(* Between calls the decoder remembers the duration of the last success.   *)
THEOREM DurationKept == Spec => []DurationTrue
<1>1. IInv => DurationTrue
  BY DEF IInv, Covered, Remembered, DurationTrue
<1>2. QED BY <1>1, Invariance, PTL

(* Callers get what their own call decoded, and never from a decoder that  *)
(* another goroutine closed.                                               *)
THEOREM OnlyDecodedDelivered == Spec => []DeliveredIsDecoded
<1>1. IInv => DeliveredIsDecoded
  BY DEF IInv, Covered, Returned, Working, DeliveredIsDecoded
<1>2. QED BY <1>1, Invariance, PTL
=============================================================================
