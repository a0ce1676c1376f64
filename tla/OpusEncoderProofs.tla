------------------------- MODULE OpusEncoderProofs -------------------------
(***************************************************************************)
(* Proofs about OpusEncoder, for every setting of every call, one or two   *)
(* channels, and whatever SILK leaves of a frame's room or busts it by.    *)
(*                                                                         *)
(* The properties speak of a frame that was sent.  What makes them hold is *)
(* collected while it is made: what room the plan of its packet leaves     *)
(* (Planned), that a redundant frame is only signalled where the decoder   *)
(* will look for one and is clipped to what is left (Signalled), and that  *)
(* CELT never shrinks a frame below what the decoder counts on (Shrunk).   *)
(* The second half is about CELT's predictions (SyncInv) and rests on the  *)
(* first: the decoder finds the parts the encoder predicted for.           *)
(***************************************************************************)
EXTENDS OpusEncoder, TLAPS

Frames == [phase : {"idle", "begin", "signal", "celt", "main", "tail", "close", "sent"},
           orig : Int, max : Int, red : BOOLEAN, c2s : BOOLEAN, bytes : Int,
           tell0 : Int, tell : Int, wrote : BOOLEAN, nb : Int, ret : Int,
           lead : Part, main : Part, tail : Part, cramped : BOOLEAN,
           len : Int, error : BOOLEAN]

Packets == [mode : Mode, toCelt : BOOLEAN, red : BOOLEAN, c2s : BOOLEAN,
            vbr : BOOLEAN, rate : Int, dur : Int, next : Int, frames : Int,
            sum : Int, total : Int]

(* In 2.5 ms, the frames the codecs have.                                  *)
Durations == {1, 2, 4, 8, 16, 24}

Typed ==
  /\ f \in Frames /\ job \in Packets /\ gaveUp \in BOOLEAN
  /\ enc \in [prev_mode : Mode, silk_bw_switch : BOOLEAN, pred : BOOLEAN, ref : Part]
  /\ dec \in [prev_mode : Mode, prev_redundancy : BOOLEAN, ref : Part]

(* What a frame of this packet may take.                                   *)
Share == job.sum \div job.frames

(* Every frame of a packet gets three bytes at least, and those before the *)
(* next took no more than their shares.                                    *)
Planned ==
  job # NoJob =>
    /\ job.mode \in {"SILK", "HYBRID", "CELT"} /\ job.dur \in {1, 2, 4, 8, 16, 24}
    /\ job.frames \in 1 .. 6 /\ job.next \in 1 .. job.frames + 1
    /\ Share >= 3
    /\ job.frames > 1 => BitsOf(job.rate, job.dur) \div 8 >= 3
    /\ 0 <= job.total /\ job.total <= (job.next - 1) * Share

(* A frame is being made for the packet.                                   *)
Making ==
  f.phase \in {"begin", "signal", "celt", "main", "tail", "close"} =>
    job # NoJob /\ job.next <= job.frames

Roomy ==
  f.phase \in {"signal", "celt", "main", "tail", "close"} =>
    /\ f.orig = CurrMax
    /\ f.max = Least(f.orig, 1276)
    /\ Low(job.mode) => f.tell0 >= MinSilkBits
    /\ ~Low(job.mode) => f.tell = 1 /\ ~f.red
    /\ ~f.red => f.bytes = 0
    /\ f.len = 0 /\ ~f.error

(* Before the flag: redundancy worth its bits.                             *)
Wanted ==
  f.phase = "signal" =>
    /\ Low(job.mode) => f.tell = f.tell0
    /\ f.red => f.bytes \in 13 .. 257
    /\ f.ret = 0 /\ ~f.wrote

(* Behind the flag: where it was written (SignalsRed: 37 bits in hybrid    *)
(* mode, 17 in SILK's), and what the redundant frame leaves of the room.   *)
Signalled ==
  f.phase \in {"celt", "main", "tail", "close"} =>
    /\ f.nb = IF job.mode = "SILK" THEN Bytes(f.tell) ELSE f.max - 1 - f.bytes
    /\ Low(job.mode) => f.tell >= f.tell0
    /\ job.mode = "SILK" /\ ~f.red => f.tell = f.tell0
    /\ Hybrid => (f.wrote <=> f.tell0 + 37 <= 8 * (f.max - 1))
    /\ f.red =>
         /\ f.bytes \in 2 .. 257
         /\ Hybrid => f.wrote /\ f.tell <= 8 * f.nb
         /\ ~Hybrid => /\ Bytes(f.tell) + f.bytes <= f.max - 1
                       /\ f.tell0 + 17 <= 8 * (Bytes(f.tell) + f.bytes)

(* What CELT made of its room.                                             *)
Shrunk ==
  /\ f.phase \in {"celt", "main"} => f.ret = Flag(job.mode = "SILK", f.nb)
  /\ f.phase \in {"tail", "close"} =>
       IF job.mode = "SILK" THEN f.ret = f.nb
       ELSE f.tell <= 8 * f.nb =>
              /\ f.ret <= f.nb
              /\ f.ret = f.nb \/ (f.ret >= Bytes(f.tell) + 2 /\ (Hybrid => 8 * f.ret >= f.tell + 37))

(* A packet that says only "conceal" has no frame.                        *)
NothingSent == f.phase = "sent" /\ job = NoJob => f.len = 0

IInv ==
  /\ Typed /\ Planned /\ Making /\ Roomy /\ Wanted /\ Signalled /\ Shrunk /\ NothingSent
  /\ LayoutAgrees /\ BudgetKept

-----------------------------------------------------------------------------
(* How many bytes hold so many bits.                                       *)
LEMMA BytesBounds ==
  ASSUME NEW b \in Int
  PROVE  Bytes(b) \in Int /\ 8 * Bytes(b) >= b /\ 8 * Bytes(b) <= b + 7
  BY DEF Bytes

(* A redundant frame that is worth it has a size its byte can say.         *)
LEMMA RedundancyBounds ==
  ASSUME NEW max \in Int, NEW rate \in Int, NEW dur \in Durations
  PROVE  RedundancyBytes(max, rate, dur) \in {0} \cup 13 .. 257
<1> DEFINE base == 40 * Channels + 20
           cap  == (((8 * max - 2 * base) * 240) \div (240 + 48000 \div FrameRate(dur)) + base) \div 8
           want == ((3 * (rate + base * (200 - FrameRate(dur)))) \div 2) \div 1600
<1>1. FrameRate(dur) \in {400, 200, 100, 50, 25, 16}
  BY DEF FrameRate, Durations
<1>2. Channels \in {1, 2}
  BY EncoderAssumption
<1>3. base \in Int
  BY <1>2
<1>4. 48000 \div FrameRate(dur) \in {120, 240, 480, 960, 1920, 3000}
  BY <1>1
<1>5. cap \in Int
  BY <1>2, <1>3, <1>4
<1>6. want \in Int
  BY <1>1, <1>2, <1>3
<1>7. RedundancyBytes(max, rate, dur) =
        IF Least(want, cap) > 4 + 8 * Channels THEN Least(257, Least(want, cap)) ELSE 0
  BY DEF RedundancyBytes
<1> HIDE DEF base, cap, want
<1>8. QED BY <1>2, <1>5, <1>6, <1>7 DEF Least

(* What is asked of a call, as numbers.                                    *)
LEMMA SettingFacts ==
  ASSUME NEW s \in Setting
  PROVE  /\ s.dur \in {1, 2, 4, 8, 16, 24, 32, 40, 48}
         /\ s.rate \in Nat \ {0} /\ s.room \in Nat \ {0} /\ s.vbr \in BOOLEAN
         /\ Rate(s) \in Int /\ MaxBytes(s) \in Int /\ MaxBytes(s) <= s.room
<1>1. /\ s.dur \in {1, 2, 4, 8, 16, 24, 32, 40, 48}
      /\ s.rate \in Nat \ {0} /\ s.room \in Nat \ {0} /\ s.vbr \in BOOLEAN
  BY EncoderAssumption
<1>2. 2400 \div s.dur \in {2400, 1200, 600, 300, 150, 100, 75, 60, 50}
  BY <1>1
<1>3. \A n \in Int : RateOf(n, s.dur) \in Int /\ BitsOf(n, s.dur) \in Int
  BY <1>2 DEF RateOf, BitsOf
<1>4. 8 * s.room \in Int
  BY <1>1
<1>5. UserRate(s) \in Int
  BY <1>1, <1>3, <1>4 DEF UserRate, Least
<1>6. CbrBytes(s) \in Int /\ CbrBytes(s) <= s.room
  BY <1>1, <1>3, <1>5 DEF CbrBytes, Least
<1>7. 8 * CbrBytes(s) \in Int
  BY <1>6
<1>8. Rate(s) \in Int
  BY <1>3, <1>5, <1>7 DEF Rate
<1>9. MaxBytes(s) \in Int /\ MaxBytes(s) <= s.room
  BY <1>1, <1>6 DEF MaxBytes, Most
<1>10. QED BY <1>1, <1>8, <1>9

(* The frames a packet is cut into.                                        *)
LEMMA FrameCounts ==
  ASSUME NEW s \in Setting, NEW mode \in {"SILK", "HYBRID", "CELT"}
  PROVE  LET dur == FrameDur(s, mode)
             n   == s.dur \div dur
         IN  <<s.dur, dur, n>> \in
               {<<1, 1, 1>>, <<2, 2, 1>>, <<4, 4, 1>>, <<8, 8, 1>>, <<16, 16, 1>>,
                <<24, 24, 1>>, <<32, 16, 2>>, <<48, 24, 2>>, <<16, 8, 2>>, <<24, 8, 3>>,
                <<32, 8, 4>>, <<40, 8, 5>>, <<48, 8, 6>>}
<1>1. s.dur \in {1, 2, 4, 8, 16, 24, 32, 40, 48}
  BY SettingFacts
<1>2. CASE mode = "SILK"
  BY <1>1, <1>2 DEF FrameDur, Least
<1>3. CASE mode # "SILK"
  BY <1>1, <1>3 DEF FrameDur, Least
<1>4. QED BY <1>2, <1>3

(* A call that is not starved leaves each frame three bytes.               *)
LEMMA PlanRoom ==
  ASSUME NEW s \in Setting, ~Starved(s),
         NEW asked \in {"SILK", "CELT"}, NEW mode \in {"SILK", "HYBRID", "CELT"}
  PROVE  LET p == Plan(s, asked, mode)
         IN  /\ p.dur \in {1, 2, 4, 8, 16, 24} /\ p.frames \in 1 .. 6
             /\ p.sum \in Int /\ p.rate \in Int
             /\ p.sum \div p.frames >= 3
             /\ p.frames > 1 => BitsOf(p.rate, p.dur) \div 8 >= 3
<1> DEFINE dur == FrameDur(s, mode)
           n   == s.dur \div dur
           sum == n + (IF n = 1 \/ ~s.vbr THEN MaxBytes(s) ELSE s.room) - Header(n)
<1>1. <<s.dur, dur, n>> \in
        {<<1, 1, 1>>, <<2, 2, 1>>, <<4, 4, 1>>, <<8, 8, 1>>, <<16, 16, 1>>,
         <<24, 24, 1>>, <<32, 16, 2>>, <<48, 24, 2>>, <<16, 8, 2>>, <<24, 8, 3>>,
         <<32, 8, 4>>, <<40, 8, 5>>, <<48, 8, 6>>}
  BY FrameCounts
<1>2. LET p == Plan(s, asked, mode)
      IN  p.dur = dur /\ p.frames = n /\ p.sum = sum /\ p.rate = Rate(s)
  BY DEF Plan
<1> HIDE DEF dur, n
<1>3. /\ dur \in {1, 2, 4, 8, 16, 24} /\ n \in 1 .. 6
      /\ n > 1 => s.dur \in {16, 24, 32, 40, 48} /\ dur \in {8, 16, 24}
  BY <1>1
<1>4. /\ MaxBytes(s) >= 3 /\ MaxBytes(s) \in Int /\ MaxBytes(s) <= s.room
      /\ s.room \in Int /\ Rate(s) \in Int
  BY SettingFacts DEF Starved
<1>5. sum \in Int
  BY <1>3, <1>4 DEF Header
<1>6. sum \div n >= 3
  <2>1. CASE n = 1
    <3>1. sum = MaxBytes(s)
      BY <1>4, <2>1 DEF Header
    <3>2. QED BY <1>4, <2>1, <3>1
  <2>2. CASE n > 1
    <3>1. MaxBytes(s) * FrameRate(s.dur) >= 300
      <4>1. FrameRate(s.dur) \in {25, 16, 12, 10, 8}
        BY <1>3, <2>2 DEF FrameRate
      <4>2. ~(MaxBytes(s) * FrameRate(s.dur) < 300)
        BY <4>1 DEF Starved
      <4>3. QED BY <1>4, <4>1, <4>2
    <3>2. sum >= n + MaxBytes(s) - Header(n)
      BY <1>3, <1>4 DEF Header
    <3>3. CASE n = 2
      BY <1>1, <1>4, <1>5, <3>1, <3>2, <3>3 DEF FrameRate, Header
    <3>4. CASE n \in 3 .. 6
      BY <1>1, <1>4, <1>5, <3>1, <3>2, <3>4 DEF FrameRate, Header
    <3>5. QED BY <1>3, <2>2, <3>3, <3>4
  <2>3. QED BY <1>3, <2>1, <2>2
<1>7. ASSUME n > 1
      PROVE  BitsOf(Rate(s), dur) \div 8 >= 3
  <2>1. Rate(s) >= 2400
    BY <1>3, <1>7, <1>4 DEF Starved, FrameRate
  <2>2. QED BY <1>3, <1>4, <1>7, <2>1 DEF BitsOf
<1>8. QED BY <1>2, <1>3, <1>4, <1>5, <1>6, <1>7

-----------------------------------------------------------------------------
LEMMA InitInv == Init => IInv
<1> SUFFICES ASSUME Init PROVE IInv
  OBVIOUS
<1>1. NoFrame \in Frames /\ NoJob \in Packets
  BY DEF NoFrame, NoJob, Frames, Packets, Mode, Part
<1>2. Typed
  BY <1>1 DEF Init, Typed, Mode, Part
<1>3. f.phase = "idle" /\ job = NoJob
  BY DEF Init, NoFrame
<1>4. QED
  BY <1>2, <1>3 DEF IInv, Planned, Making, Roomy, Wanted, Signalled, Shrunk, NothingSent,
                    LayoutAgrees, BudgetKept

LEMMA DecideInv == IInv /\ Decide => IInv'
<1> SUFFICES ASSUME IInv, Decide PROVE IInv'
  OBVIOUS
<1>1. f' = [NoFrame EXCEPT !.phase = "sent"] \/ f' = [NoFrame EXCEPT !.phase = "begin"]
  BY DEF Decide
<1>2. f' \in Frames
  <2>1. NoFrame \in Frames
    BY DEF Frames, NoFrame, Part
  <2>2. QED BY <1>1, <2>1 DEF Frames
<1>3. Planned' /\ job' \in Packets /\ (job' = NoJob <=> f'.phase = "sent")
      /\ (job' # NoJob => job'.next <= job'.frames)
  <2>1. PICK s \in Setting, asked \in {"SILK", "CELT"} :
          IF Starved(s)
          THEN job' = NoJob /\ f' = [NoFrame EXCEPT !.phase = "sent"]
          ELSE \E mode \in Modes(s, asked) :
                 /\ Low(asked) => CanBeLow(s)
                 /\ job' = Plan(s, asked, mode)
                 /\ f' = [NoFrame EXCEPT !.phase = "begin"]
    BY DEF Decide
  <2>2. CASE Starved(s)
    <3>1. job' = NoJob /\ f'.phase = "sent"
      BY <2>1, <2>2 DEF NoFrame
    <3>2. NoJob \in Packets
      BY DEF NoJob, Packets, Mode
    <3>3. Planned'
      BY <3>1 DEF Planned, NoJob
    <3>4. QED BY <3>1, <3>2, <3>3
  <2>3. CASE ~Starved(s)
    <3>1. PICK mode \in Modes(s, asked) :
            job' = Plan(s, asked, mode) /\ f' = [NoFrame EXCEPT !.phase = "begin"]
      BY <2>1, <2>3
    <3>2. mode \in {"SILK", "HYBRID", "CELT"}
      BY DEF Modes
    <3>3. LET p == Plan(s, asked, mode)
          IN  /\ p.dur \in {1, 2, 4, 8, 16, 24} /\ p.frames \in 1 .. 6
              /\ p.sum \in Int /\ p.rate \in Int
              /\ p.sum \div p.frames >= 3
              /\ p.frames > 1 => BitsOf(p.rate, p.dur) \div 8 >= 3
      BY <2>3, <3>2, PlanRoom
    <3>4. /\ job'.mode = mode /\ job'.next = 1 /\ job'.total = 0 /\ job'.vbr = s.vbr
          /\ job'.dur \in {1, 2, 4, 8, 16, 24} /\ job'.frames \in 1 .. 6
          /\ job'.sum \in Int /\ job'.rate \in Int
          /\ job'.sum \div job'.frames >= 3
          /\ job'.frames > 1 => BitsOf(job'.rate, job'.dur) \div 8 >= 3
      BY <3>1, <3>3 DEF Plan
    <3>5. job' # NoJob
      BY <3>2, <3>4 DEF NoJob
    <3>6. Planned'
      <4>1. (job'.next - 1) * (job'.sum \div job'.frames) = 0
        BY <3>4
      <4>2. QED BY <3>2, <3>4, <4>1 DEF Planned, Share
    <3>7. job' \in Packets
      <4>1. s.vbr \in BOOLEAN
        BY SettingFacts
      <4>2. job'.dur \in Int /\ job'.frames \in Int
        BY <3>4
      <4>3. Rate(s) \in Int
        BY SettingFacts
      <4>4. /\ FrameDur(s, mode) \in Int /\ s.dur \div FrameDur(s, mode) \in Int
            /\ job'.sum \in Int
        BY <3>1, <3>4, <4>2 DEF Plan
      <4>5. QED BY <3>1, <3>2, <3>4, <4>1, <4>3, <4>4 DEF Plan, Packets, Mode, Delayed, Changes, Low
    <3>8. QED BY <3>1, <3>4, <3>5, <3>6, <3>7 DEF NoFrame
  <2>4. QED BY <2>2, <2>3
<1>4. /\ f'.phase \in {"sent", "begin"} /\ f'.len = 0
  BY <1>1 DEF NoFrame
<1>5. LayoutAgrees' /\ BudgetKept'
  BY <1>3, <1>4 DEF LayoutAgrees, BudgetKept, Empty
<1>6. Typed'
  BY <1>2, <1>3 DEF IInv, Typed, Decide
<1>7. QED
  BY <1>3, <1>4, <1>5, <1>6
     DEF IInv, Making, Roomy, Wanted, Signalled, Shrunk, NothingSent

-----------------------------------------------------------------------------
LEMMA QuotientBound ==
  ASSUME NEW s \in Int, NEW n \in 1 .. 6
  PROVE  s \div n \in Int /\ n * (s \div n) <= s
<1>1. n \in {1, 2, 3, 4, 5, 6}
  OBVIOUS
<1>2. QED BY <1>1

(* What is left for the next frame is its share at least.                  *)
LEMMA CurrMaxRoom ==
  ASSUME Typed, Planned, job # NoJob, job.next <= job.frames
  PROVE  /\ Share \in Int /\ CurrMax \in Int
         /\ 3 <= CurrMax /\ CurrMax <= Share
<1>1. /\ job.frames \in 1 .. 6 /\ job.next \in Int /\ job.next >= 1
      /\ job.sum \in Int /\ job.total \in Int /\ Share >= 3
      /\ job.total <= (job.next - 1) * Share
      /\ job.dur \in {1, 2, 4, 8, 16, 24} /\ job.rate \in Int
      /\ job.frames > 1 => BitsOf(job.rate, job.dur) \div 8 >= 3
  BY DEF Typed, Packets, Planned
<1>2. Share \in Int /\ job.frames * Share <= job.sum
  BY <1>1, QuotientBound DEF Share
<1>3. (job.next - 1) * Share <= (job.frames - 1) * Share
  BY <1>1, <1>2
<1>4. (job.frames - 1) * Share = job.frames * Share - Share
  BY <1>1, <1>2
<1>5. job.sum - job.total >= Share
  BY <1>1, <1>2, <1>3, <1>4
<1>6. BitsOf(job.rate, job.dur) \div 8 \in Int
  BY <1>1 DEF BitsOf
<1>7. CASE job.frames = 1
  BY <1>1, <1>7 DEF CurrMax, Share
<1>8. CASE job.frames # 1
  BY <1>1, <1>2, <1>5, <1>6, <1>8 DEF CurrMax, Least, Share
<1>9. QED BY <1>7, <1>8

LEMMA StartedTyped ==
  ASSUME NEW o \in Int, NEW x \in Int, NEW n \in Int, NEW r \in BOOLEAN, NEW c \in BOOLEAN
  PROVE  [NoFrame EXCEPT !.orig = o, !.max = x, !.bytes = n, !.red = r, !.c2s = c] \in Frames
<1>1. NoFrame \in Frames
  BY DEF Frames, NoFrame, Part
<1>2. QED BY <1>1 DEF Frames

(* A frame is started with redundancy worth its bits or with none.         *)
LEMMA StartedFacts ==
  ASSUME IInv, f.phase = "begin"
  PROVE  LET g  == Started(CurrMax, FrameRed, job.c2s)
             m  == Least(CurrMax, 1276)
             rb == RedundancyBytes(m, job.rate, job.dur)
         IN  /\ CurrMax \in Int /\ 3 <= CurrMax /\ m \in Int
             /\ job.mode \in {"SILK", "HYBRID", "CELT"}
             /\ rb \in Int /\ (rb = 0 \/ rb \in 13 .. 257)
             /\ g \in Frames /\ g.orig = CurrMax /\ g.max = m
             /\ g.bytes \in {0, rb} /\ (g.red <=> g.bytes > 0)
             /\ (~Low(job.mode) => g.bytes = 0)
             /\ (g.bytes # 0 => FrameRed \/ enc.silk_bw_switch)
             /\ (g.c2s => job.c2s \/ enc.silk_bw_switch)
             /\ g.len = 0 /\ g.ret = 0 /\ ~g.error /\ ~g.wrote
<1> DEFINE g == Started(CurrMax, FrameRed, job.c2s)
           m == Least(CurrMax, 1276)
           rb == RedundancyBytes(m, job.rate, job.dur)
<1>1. /\ job # NoJob /\ job.next <= job.frames
      /\ Typed /\ Planned
  BY DEF IInv, Making
<1>2. /\ CurrMax \in Int /\ 3 <= CurrMax /\ CurrMax <= Share
      /\ m \in Int
  BY <1>1, CurrMaxRoom DEF Least
<1>3. /\ job.dur \in Durations /\ job.rate \in Int /\ job.mode \in {"SILK", "HYBRID", "CELT"}
      /\ job.c2s \in BOOLEAN /\ job.red \in BOOLEAN /\ Channels \in {1, 2}
  BY <1>1, EncoderAssumption DEF Typed, Packets, Planned, Durations
<1>4. rb \in Int /\ (rb = 0 \/ rb \in 13 .. 257)
  <2> HIDE DEF m
  <2>1. rb \in {0} \cup 13 .. 257
    BY <1>2, <1>3, RedundancyBounds
  <2> HIDE DEF rb
  <2>2. QED BY <2>1
<1>8. g.red <=> g.bytes > 0
  <2>1. g.red = (g.bytes > 0)
    BY DEF Started, NoFrame
  <2> HIDE DEF g
  <2>2. QED BY <2>1, Zenon
<1>5. /\ g.phase = "idle" /\ g.orig = CurrMax /\ g.max = m
      /\ g.bytes \in {0, rb} /\ (~Low(job.mode) => g.bytes = 0)
      /\ g.len = 0 /\ g.ret = 0 /\ ~g.error /\ ~g.wrote
  BY DEF Started, NoFrame
<1>10. g.bytes # 0 => FrameRed \/ enc.silk_bw_switch
  BY DEF Started, NoFrame
<1>11. g.c2s => job.c2s \/ enc.silk_bw_switch
  <2>1. g.c2s = (job.c2s \/ enc.silk_bw_switch)
    BY DEF Started, NoFrame
  <2> HIDE DEF g
  <2>2. QED BY <2>1, Zenon
<1>6. NoFrame \in Frames
  BY DEF Frames, NoFrame, Part
<1>7. g \in Frames /\ g.red \in BOOLEAN
  <2>1. /\ (g.bytes > 0) \in BOOLEAN
        /\ (job.c2s \/ enc.silk_bw_switch) \in BOOLEAN
    BY <1>1, <1>3 DEF Typed
  <2>2. g = [NoFrame EXCEPT !.orig = CurrMax, !.max = m, !.bytes = g.bytes,
                            !.red = g.bytes > 0, !.c2s = job.c2s \/ enc.silk_bw_switch]
    BY DEF Started, NoFrame
  <2>3. g.bytes \in Int
    BY <1>4, <1>5
  <2> HIDE DEF g, rb, m
  <2>4. g \in Frames
    <3>1. \A r, c \in BOOLEAN :
            [NoFrame EXCEPT !.orig = CurrMax, !.max = m, !.bytes = g.bytes, !.red = r, !.c2s = c] \in Frames
      BY <1>2, <2>3, StartedTyped
    <3>2. PICK r \in BOOLEAN : r <=> g.bytes > 0
      OBVIOUS
    <3>3. PICK c \in BOOLEAN : c <=> job.c2s \/ enc.silk_bw_switch
      OBVIOUS
    <3>4. r = (g.bytes > 0) /\ c = (job.c2s \/ enc.silk_bw_switch)
      BY <3>2, <3>3
    <3>5. g = [NoFrame EXCEPT !.orig = CurrMax, !.max = m, !.bytes = g.bytes, !.red = r, !.c2s = c]
      BY <2>2, <3>4
    <3>6. QED BY <3>1, <3>5
  <2>5. QED BY <2>4 DEF Frames
<1>9. QED BY <1>2, <1>3, <1>4, <1>5, <1>7, <1>8, <1>10, <1>11

LEMMA CodeSilkInv == IInv /\ CodeSilk => IInv'
<1> SUFFICES ASSUME IInv, CodeSilk PROVE IInv'
  OBVIOUS
<1> DEFINE g  == Started(CurrMax, FrameRed, job.c2s)
           m  == Least(CurrMax, 1276)
           rb == RedundancyBytes(m, job.rate, job.dur)
<1>1. /\ f.phase = "begin" /\ job' = job /\ job # NoJob /\ job.next <= job.frames
      /\ Typed /\ Planned /\ CurrMax' = CurrMax
  BY DEF CodeSilk, IInv, Making, CurrMax
<1>2. /\ CurrMax \in Int /\ 3 <= CurrMax /\ m \in Int
      /\ job.mode \in {"SILK", "HYBRID", "CELT"}
      /\ rb \in Int /\ (rb = 0 \/ rb \in 13 .. 257)
      /\ g \in Frames /\ g.orig = CurrMax /\ g.max = m
      /\ g.bytes \in {0, rb} /\ (g.red <=> g.bytes > 0)
      /\ (~Low(job.mode) => g.bytes = 0)
      /\ g.len = 0 /\ g.ret = 0 /\ ~g.error /\ ~g.wrote
  BY <1>1, StartedFacts
<1> HIDE DEF g, rb, m
<1>8. /\ f' \in Frames /\ f'.phase = "signal"
      /\ f'.orig = g.orig /\ f'.max = g.max /\ f'.len = g.len /\ f'.error = g.error
      /\ f'.ret = g.ret /\ f'.wrote = g.wrote
      /\ f'.red => f'.bytes \in 13 .. 257
      /\ ~f'.red => f'.bytes = 0
      /\ IF Low(job.mode) THEN f'.tell = f'.tell0 /\ f'.tell0 >= MinSilkBits
         ELSE f'.tell = 1 /\ ~f'.red
  <2>1. CASE Low(job.mode)
    <3>1. PICK slack \in Slack, ready \in BOOLEAN :
            /\ 8 * (g.max - 1) - slack >= MinSilkBits
            /\ f' = AfterSilk(g, slack, ready)
      BY <2>1 DEF CodeSilk, g
    <3>2. slack \in Int /\ MinSilkBits \in Nat
      BY EncoderAssumption
    <3>3. rb = RedundancyBytes(g.max, job.rate, job.dur)
      BY <1>2 DEF rb
    <3> DEFINE tell == 8 * (g.max - 1) - slack
               h == [g EXCEPT !.phase = "signal", !.tell0 = tell, !.tell = tell]
    <3>4. tell \in Int
      BY <1>2, <3>2
    <3>5. h \in Frames
      BY <1>2, <3>4 DEF Frames
    <3>6. /\ h.phase = "signal" /\ h.tell0 = tell /\ h.tell = tell
          /\ h.orig = g.orig /\ h.max = g.max /\ h.red = g.red /\ h.bytes = g.bytes
          /\ h.len = g.len /\ h.error = g.error /\ h.ret = g.ret /\ h.wrote = g.wrote
      BY <1>2 DEF Frames
    <3>7. CASE ready
      <4>1. f' = [h EXCEPT !.bytes = rb, !.red = rb > 0, !.c2s = FALSE]
        BY <3>1, <3>3, <3>7 DEF AfterSilk
      <4>2. PICK r \in BOOLEAN : r <=> rb > 0
        OBVIOUS
      <4> HIDE DEF h
      <4>3. f' = [h EXCEPT !.bytes = rb, !.red = r, !.c2s = FALSE]
        <5>1. r = (rb > 0)
          BY <4>2
        <5>2. QED BY <4>1, <5>1
      <4>4. f' \in Frames
        BY <1>2, <3>5, <4>3 DEF Frames
      <4>5. /\ f'.phase = "signal" /\ f'.tell0 = tell /\ f'.tell = tell
            /\ f'.orig = h.orig /\ f'.max = h.max /\ f'.red = r /\ f'.bytes = rb
            /\ f'.len = h.len /\ f'.error = h.error /\ f'.ret = h.ret /\ f'.wrote = h.wrote
        BY <3>5, <3>6, <4>3 DEF Frames
      <4> HIDE DEF tell
      <4>6. f'.red => f'.bytes \in 13 .. 257
        BY <1>2, <4>2, <4>5
      <4>7. ~f'.red => f'.bytes = 0
        BY <1>2, <4>2, <4>5
      <4>8. tell >= MinSilkBits
        BY <3>1 DEF tell
      <4>9. QED BY <2>1, <3>6, <4>4, <4>5, <4>6, <4>7, <4>8
    <3>8. CASE ~ready
      <4>1. f' = h
        BY <3>1, <3>8 DEF AfterSilk
      <4> HIDE DEF h
      <4>2. f'.red => f'.bytes \in 13 .. 257
        BY <1>2, <3>6, <4>1
      <4>3. ~f'.red => f'.bytes = 0
        BY <1>2, <3>6, <4>1
      <4> HIDE DEF tell
      <4>4. tell >= MinSilkBits
        BY <3>1 DEF tell
      <4>5. QED BY <2>1, <3>5, <3>6, <4>1, <4>2, <4>3, <4>4
    <3>9. QED BY <3>7, <3>8
  <2>2. CASE ~Low(job.mode)
    <3>1. f' = [g EXCEPT !.phase = "signal", !.tell = 1]
      BY <2>2 DEF CodeSilk, g
    <3>2. f' \in Frames
      <4>1. PICK one \in Int : one = 1
        OBVIOUS
      <4>2. f' = [g EXCEPT !.phase = "signal", !.tell = one]
        BY <3>1, <4>1
      <4>3. QED BY <1>2, <4>2 DEF Frames
    <3>3. /\ f'.phase = "signal" /\ f'.tell = 1
          /\ f'.orig = g.orig /\ f'.max = g.max /\ f'.red = g.red /\ f'.bytes = g.bytes
          /\ f'.len = g.len /\ f'.error = g.error /\ f'.ret = g.ret /\ f'.wrote = g.wrote
      BY <1>2, <3>1 DEF Frames
    <3>4. f'.bytes = 0 /\ ~f'.red
      BY <1>2, <2>2, <3>3
    <3>5. QED BY <2>2, <3>2, <3>3, <3>4
  <2>3. QED BY <2>1, <2>2
<1>9. Typed'
  <2>1. PICK ready \in BOOLEAN : enc' = [enc EXCEPT !.silk_bw_switch = ready]
    BY DEF CodeSilk
  <2>2. QED BY <1>1, <1>8, <2>1 DEF CodeSilk, Typed
<1>10. Roomy' /\ Wanted'
  BY <1>1, <1>2, <1>8 DEF Roomy, Wanted, m
<1>11. LayoutAgrees' /\ BudgetKept'
  BY <1>8 DEF LayoutAgrees, BudgetKept
<1>12. Planned' /\ Making'
  BY <1>1 DEF Planned, Making, Share
<1>13. QED
  BY <1>8, <1>9, <1>10, <1>11, <1>12 DEF IInv, Signalled, Shrunk, NothingSent
-----------------------------------------------------------------------------
(* The redundant frame leaves SILK's bytes alone, and behind them it is    *)
(* long enough for the decoder to look for it.                             *)
LEMMA ClippedBehindSilk ==
  ASSUME NEW bytes \in 13 .. 257, NEW max \in Int, NEW tell0 \in Int, NEW tell \in Int,
         tell0 + 17 <= 8 * (max - 1), tell >= tell0, tell <= tell0 + 1
  PROVE  LET n == Clipped(bytes, max, tell, FALSE)
         IN  /\ n \in 2 .. 257 /\ Bytes(tell) + n <= max - 1
             /\ tell0 + 17 <= 8 * (Bytes(tell) + n)
<1> DEFINE n == Clipped(bytes, max, tell, FALSE)
<1>1. Bytes(tell) \in Int /\ 8 * Bytes(tell) >= tell /\ 8 * Bytes(tell) <= tell + 7
  BY BytesBounds
<1>3. max - 1 - Bytes(tell) >= 2
  BY <1>1
<1>4. n = Least(257, Most(2, Least(bytes, max - 1 - Bytes(tell))))
  BY DEF Clipped
<1> HIDE DEF n
<1>5. n = bytes \/ n = max - 1 - Bytes(tell)
  BY <1>1, <1>3, <1>4 DEF Least, Most
<1>6. n \in 2 .. 257 /\ n <= max - 1 - Bytes(tell)
  BY <1>1, <1>3, <1>4 DEF Least, Most
<1>7. tell0 + 17 <= 8 * (Bytes(tell) + n)
  BY <1>1, <1>5
<1>8. Bytes(tell) + n <= max - 1
  BY <1>1, <1>6
<1>9. QED BY <1>6, <1>7, <1>8 DEF n

(* Hybrid frames also send its size, in eight bits at most.                *)
LEMMA ClippedBehindHybrid ==
  ASSUME NEW bytes \in 13 .. 257, NEW max \in Int, NEW tell0 \in Int, NEW tell \in Int,
         tell0 + 37 <= 8 * (max - 1), tell >= tell0 + 12, tell <= tell0 + 13
  PROVE  LET n == Clipped(bytes, max, tell, TRUE)
         IN  n \in 2 .. 257 /\ tell + 8 <= 8 * (max - 1 - n)
<1> DEFINE n == Clipped(bytes, max, tell, TRUE)
           q == (tell + 18) \div 8
<1>1. q \in Int /\ 8 * q <= tell + 18 /\ 8 * q >= tell + 11
  OBVIOUS
<1>3. n = Least(257, Most(2, Least(bytes, max - 1 - q)))
  BY DEF Clipped
<1> HIDE DEF n, q
<1>4. n \in 2 .. 257 /\ (n = 2 \/ n <= max - 1 - q)
  BY <1>1, <1>3 DEF Least, Most
<1>5. tell + 8 <= 8 * (max - 1 - n)
  BY <1>1, <1>4
<1>6. QED BY <1>4, <1>5 DEF n

LEMMA MeasuredFields ==
  ASSUME NEW g \in Frames, job.mode \in {"SILK", "HYBRID", "CELT"}
  PROVE  LET h == Measured(g)
         IN  /\ h \in Frames /\ h.phase = "celt"
             /\ h.nb = IF job.mode = "SILK" THEN Bytes(g.tell) ELSE g.max - 1 - g.bytes
             /\ h.ret = Flag(job.mode = "SILK", h.nb)
             /\ h.orig = g.orig /\ h.max = g.max /\ h.red = g.red /\ h.c2s = g.c2s
             /\ h.bytes = g.bytes /\ h.tell0 = g.tell0 /\ h.tell = g.tell /\ h.wrote = g.wrote
             /\ h.lead = g.lead /\ h.main = g.main /\ h.tail = g.tail
             /\ h.cramped = g.cramped /\ h.len = g.len /\ h.error = g.error
<1> DEFINE nb == IF job.mode = "SILK" THEN Bytes(g.tell) ELSE g.max - 1 - g.bytes
           ret == Flag(job.mode = "SILK", nb)
<1>1. nb \in Int
  BY BytesBounds DEF Frames
<1>2. ret \in Int
  BY <1>1 DEF Flag
<1>3. Measured(g) = [g EXCEPT !.phase = "celt", !.nb = nb, !.ret = ret]
  BY DEF Measured
<1> HIDE DEF nb, ret
<1>4. Measured(g) \in Frames /\ Measured(g).nb = nb /\ Measured(g).ret = ret
  BY ZenonT(40), <1>1, <1>2, <1>3 DEF Frames
<1>5. QED BY <1>3, <1>4 DEF Frames, nb, ret

LEMMA PlainFields ==
  ASSUME f \in Frames, NEW cost \in Int, job.mode \in {"SILK", "HYBRID", "CELT"}
  PROVE  LET h == Plain(f, cost)
         IN  /\ h \in Frames /\ h.phase = "celt"
             /\ h.nb = IF job.mode = "SILK" THEN Bytes(h.tell) ELSE h.max - 1 - h.bytes
             /\ h.ret = Flag(job.mode = "SILK", h.nb)
             /\ ~h.red /\ h.bytes = 0 /\ h.tell = f.tell + cost
             /\ h.orig = f.orig /\ h.max = f.max /\ h.c2s = f.c2s
             /\ h.tell0 = f.tell0 /\ h.wrote = f.wrote
             /\ h.len = f.len /\ h.error = f.error
<1> DEFINE g == [f EXCEPT !.red = FALSE, !.bytes = 0, !.tell = @ + cost]
<1>1. PICK zero, tell \in Int : zero = 0 /\ tell = f.tell + cost
  BY DEF Frames
<1>2. g = [f EXCEPT !.red = FALSE, !.bytes = zero, !.tell = tell]
  BY <1>1
<1> HIDE DEF g
<1>3. g \in Frames
  BY <1>2 DEF Frames
<1>4. /\ ~g.red /\ g.bytes = 0 /\ g.tell = f.tell + cost
      /\ g.orig = f.orig /\ g.max = f.max /\ g.c2s = f.c2s
      /\ g.tell0 = f.tell0 /\ g.wrote = f.wrote
      /\ g.len = f.len /\ g.error = f.error
  BY <1>1, <1>2 DEF Frames
<1>5. Plain(f, cost) = Measured(g)
  BY DEF Plain, g
<1>6. QED BY <1>3, <1>4, <1>5, MeasuredFields

LEMMA SignalInv == IInv /\ Signal => IInv'
<1> SUFFICES ASSUME IInv, Signal PROVE IInv'
  OBVIOUS
<1> DEFINE room == SignalsRed(f.tell, f.max - 1, Hybrid)
<1>1. /\ f.phase = "signal" /\ job' = job /\ job # NoJob /\ job.next <= job.frames
      /\ Typed /\ Planned /\ f \in Frames
      /\ dec' = dec /\ gaveUp' = gaveUp
  BY DEF Signal, IInv, Making, Typed
<1>2. job.mode \in {"SILK", "HYBRID", "CELT"}
  BY <1>1 DEF Planned
<1>3. /\ f.orig = CurrMax /\ f.max = Least(f.orig, 1276) /\ f.len = 0 /\ ~f.error
      /\ Low(job.mode) => f.tell0 >= MinSilkBits /\ f.tell = f.tell0
      /\ ~Low(job.mode) => f.tell = 1 /\ ~f.red
      /\ ~f.red => f.bytes = 0
      /\ f.red => f.bytes \in 13 .. 257
      /\ ~f.wrote
  BY <1>1 DEF IInv, Roomy, Wanted
<1>4. /\ CurrMax' = CurrMax
      /\ Hybrid  => (room <=> f.tell + 37 <= 8 * (f.max - 1))
      /\ ~Hybrid => (room <=> f.tell + 17 <= 8 * (f.max - 1))
  BY <1>1 DEF CurrMax, SignalsRed, Flag, Frames
<1> HIDE DEF room
(* What each way leaves in the frame.                                      *)
<1> DEFINE Summary ==
      /\ f' \in Frames /\ f'.phase = "celt"
      /\ f'.nb = IF job.mode = "SILK" THEN Bytes(f'.tell) ELSE f'.max - 1 - f'.bytes
      /\ f'.ret = Flag(job.mode = "SILK", f'.nb)
      /\ f'.orig = f.orig /\ f'.max = f.max /\ f'.tell0 = f.tell0
      /\ f'.len = f.len /\ f'.error = f.error
<1>5. Summary /\ Signalled' /\ Roomy'
  <2>1. CASE /\ ~(Low(job.mode) /\ room)
             /\ f' = Plain(f, 0)
    <3>1. /\ Summary /\ ~f'.red /\ f'.bytes = 0 /\ f'.tell = f.tell /\ ~f'.wrote
      <4>1. PICK zero \in Int : zero = 0
        OBVIOUS
      <4>2. f' = Plain(f, zero)
        BY <2>1, <4>1
      <4>3. f.tell + zero = f.tell
        BY <1>1, <4>1 DEF Frames
      <4>4. QED BY <1>1, <1>2, <1>3, <4>2, <4>3, PlainFields
    <3>2. Roomy'
      BY <1>1, <1>3, <1>4, <3>1 DEF Roomy, Low
    <3>3. Hybrid => ~(f'.tell0 + 37 <= 8 * (f'.max - 1))
      BY <1>3, <1>4, <2>1, <3>1 DEF Hybrid, Low
    <3>4. Signalled'
      BY <1>1, <1>2, <1>3, <3>1, <3>3 DEF Signalled, Low, Hybrid, Frames
    <3>5. QED BY <3>1, <3>2, <3>4
  <2>2. CASE /\ Low(job.mode) /\ room /\ ~f.red
             /\ \E cost \in IF Hybrid THEN BitCosts(FALSE, 12) ELSE {0} :
                  f' = [Plain(f, cost) EXCEPT !.wrote = Hybrid]
    <3>1. PICK cost \in IF Hybrid THEN BitCosts(FALSE, 12) ELSE {0} :
            f' = [Plain(f, cost) EXCEPT !.wrote = Hybrid]
      BY <2>2
    <3>2. cost \in {0, 1} /\ (~Hybrid => cost = 0)
      BY DEF BitCosts
    <3> DEFINE h == Plain(f, cost)
    <3>3. /\ h \in Frames /\ h.phase = "celt"
          /\ h.nb = IF job.mode = "SILK" THEN Bytes(h.tell) ELSE h.max - 1 - h.bytes
          /\ h.ret = Flag(job.mode = "SILK", h.nb)
          /\ ~h.red /\ h.bytes = 0 /\ h.tell = f.tell + cost
          /\ h.orig = f.orig /\ h.max = f.max /\ h.tell0 = f.tell0
          /\ h.len = f.len /\ h.error = f.error
      BY <1>1, <1>2, <3>2, PlainFields
    <3> HIDE DEF h
    <3>4. PICK w \in BOOLEAN : w <=> Hybrid
      OBVIOUS
    <3>5. f' = [h EXCEPT !.wrote = w]
      <4>1. w = Hybrid
        BY <3>4 DEF Hybrid
      <4>2. QED BY <3>1, <4>1 DEF h
    <3>6. /\ Summary /\ ~f'.red /\ f'.bytes = 0 /\ f'.tell = f.tell + cost
          /\ (f'.wrote <=> Hybrid)
      BY <3>3, <3>4, <3>5 DEF Frames
    <3>7. Roomy'
      BY <1>1, <1>3, <1>4, <2>2, <3>6 DEF Roomy
    <3>8. Hybrid => f'.tell0 + 37 <= 8 * (f'.max - 1)
      BY <1>3, <1>4, <2>2, <3>6
    <3>9. Signalled'
      BY <1>1, <1>2, <1>3, <2>2, <3>2, <3>6, <3>8 DEF Signalled, Hybrid, Low, Frames
    <3>10. QED BY <3>6, <3>7, <3>9
  <2>3. CASE /\ Low(job.mode) /\ room /\ f.red
             /\ \E cost \in BitCosts(f.c2s, 1) :
                \E tell \in {f.tell + Flag(Hybrid, 12) + cost} :
                \E n \in {Clipped(f.bytes, f.max, tell, Hybrid)} :
                \E size \in IF Hybrid THEN ByteCosts(n - 2) ELSE {0} :
                  f' = Measured([f EXCEPT !.wrote = TRUE, !.bytes = n, !.tell = tell + size])
    <3>1. PICK cost \in BitCosts(f.c2s, 1) :
            \E tell \in {f.tell + Flag(Hybrid, 12) + cost} :
            \E n \in {Clipped(f.bytes, f.max, tell, Hybrid)} :
            \E size \in IF Hybrid THEN ByteCosts(n - 2) ELSE {0} :
              f' = Measured([f EXCEPT !.wrote = TRUE, !.bytes = n, !.tell = tell + size])
      BY <2>3
    <3> DEFINE tell == f.tell + Flag(Hybrid, 12) + cost
               n    == Clipped(f.bytes, f.max, tell, Hybrid)
    <3>2. PICK size \in IF Hybrid THEN ByteCosts(n - 2) ELSE {0} :
            f' = Measured([f EXCEPT !.wrote = TRUE, !.bytes = n, !.tell = tell + size])
      BY <3>1
    <3>3. cost \in {0, 1}
      BY DEF BitCosts
    <3>4. size \in 0 .. 8 /\ (~Hybrid => size = 0)
      BY DEF ByteCosts
    <3>5. /\ tell \in Int
          /\ IF Hybrid THEN tell = f.tell + 12 + cost ELSE tell = f.tell + cost
      BY <1>1, <3>3 DEF Flag, Frames
    <3>6. /\ f.bytes \in 13 .. 257 /\ f.max \in Int /\ f.tell0 \in Int /\ f.tell = f.tell0
          /\ f.tell0 >= MinSilkBits
      BY <1>1, <1>3, <2>3 DEF Frames
    <3> HIDE DEF tell
    <3>7. /\ n \in 2 .. 257
          /\ Hybrid => tell + 8 <= 8 * (f.max - 1 - n)
          /\ ~Hybrid => Bytes(tell) + n <= f.max - 1 /\ f.tell0 + 17 <= 8 * (Bytes(tell) + n)
      <4>1. CASE Hybrid
        <5>1. f.tell0 + 37 <= 8 * (f.max - 1) /\ tell >= f.tell0 + 12 /\ tell <= f.tell0 + 13
          BY <1>4, <2>3, <3>3, <3>5, <3>6, <4>1
        <5>2. n = Clipped(f.bytes, f.max, tell, TRUE)
          BY <4>1 DEF Hybrid
        <5>3. QED BY <3>5, <3>6, <4>1, <5>1, <5>2, ClippedBehindHybrid
      <4>2. CASE ~Hybrid
        <5>1. f.tell0 + 17 <= 8 * (f.max - 1) /\ tell >= f.tell0 /\ tell <= f.tell0 + 1
          BY <1>4, <2>3, <3>3, <3>5, <3>6, <4>2
        <5>2. n = Clipped(f.bytes, f.max, tell, FALSE)
          BY <4>2 DEF Hybrid
        <5>3. QED BY ZenonT(40), <3>5, <3>6, <4>2, <5>1, <5>2, ClippedBehindSilk
      <4>3. QED BY <4>1, <4>2
    <3> DEFINE g == [f EXCEPT !.wrote = TRUE, !.bytes = n, !.tell = tell + size]
    <3> HIDE DEF n
    <3>8. PICK after \in Int : after = tell + size
      BY <3>4, <3>5
    <3>9. g = [f EXCEPT !.wrote = TRUE, !.bytes = n, !.tell = after]
      BY <3>8
    <3> HIDE DEF g
    <3>10. n \in Int
      BY <3>7
    <3>11. g \in Frames
      BY <1>1, <3>8, <3>9, <3>10 DEF Frames
    <3>12. /\ g.wrote /\ g.bytes = n /\ g.tell = after /\ g.red
           /\ g.orig = f.orig /\ g.max = f.max /\ g.tell0 = f.tell0
           /\ g.len = f.len /\ g.error = f.error
      BY <1>1, <2>3, <3>9, <3>10, <3>8 DEF Frames
    <3>13. /\ Summary /\ f'.wrote /\ f'.red /\ f'.bytes = n /\ f'.tell = tell + size
      BY ZenonT(40), <1>2, <3>2, <3>8, <3>11, <3>12, MeasuredFields DEF g
    <3>14. Roomy'
      BY <1>1, <1>3, <1>4, <2>3, <3>13 DEF Roomy
    <3>15. f'.tell >= f'.tell0
      BY <3>3, <3>4, <3>5, <3>6, <3>13
    <3>16. Hybrid => f'.tell0 + 37 <= 8 * (f'.max - 1)
      BY <1>4, <2>3, <3>6, <3>13
    <3>17. Hybrid => f'.tell <= 8 * f'.nb
      BY <3>4, <3>5, <3>6, <3>7, <3>10, <3>13 DEF Hybrid
    <3>18. ~Hybrid => /\ Bytes(f'.tell) + f'.bytes <= f'.max - 1
                      /\ f'.tell0 + 17 <= 8 * (Bytes(f'.tell) + f'.bytes)
      <4>1. ~Hybrid => f'.tell = tell
        BY <3>4, <3>5, <3>13
      <4>2. QED BY <3>7, <3>13, <4>1
    <3>19. Signalled'
      BY <1>1, <1>2, <2>3, <3>7, <3>13, <3>15, <3>16, <3>17, <3>18 DEF Signalled, Hybrid
    <3>20. QED BY <3>13, <3>14, <3>19
  <2>4. QED BY <2>1, <2>2, <2>3 DEF Signal, room
<1>6. Typed'
  <2>1. enc' = enc \/ enc' = [enc EXCEPT !.silk_bw_switch = FALSE]
    BY DEF Signal
  <2>2. QED BY <1>1, <1>5, <2>1 DEF Typed
<1>7. LayoutAgrees' /\ BudgetKept' /\ NothingSent' /\ Wanted' /\ Shrunk'
  BY <1>1, <1>5 DEF LayoutAgrees, BudgetKept, NothingSent, Wanted, Shrunk
<1>8. Planned' /\ Making'
  BY <1>1 DEF Planned, Making, Share
<1>9. QED
  BY <1>5, <1>6, <1>7, <1>8 DEF IInv

-----------------------------------------------------------------------------
(* CELT's steps leave alone what was decided before them.                  *)
LEMMA RoomKept ==
  ASSUME IInv, f.phase \in {"celt", "main", "tail"}, job' = job,
         f'.phase \in {"main", "tail", "close"},
         f'.orig = f.orig, f'.max = f.max, f'.red = f.red, f'.bytes = f.bytes,
         f'.tell0 = f.tell0, f'.tell = f.tell, f'.wrote = f.wrote, f'.nb = f.nb,
         f'.len = f.len, f'.error = f.error
  PROVE  /\ Planned' /\ Making' /\ Roomy' /\ Wanted' /\ Signalled' /\ NothingSent'
         /\ LayoutAgrees' /\ BudgetKept'
<1>1. Planned' /\ Making'
  BY DEF IInv, Planned, Making, Share
<1>2. CurrMax' = CurrMax
  BY DEF CurrMax
<1>3. Roomy'
  BY <1>2 DEF IInv, Roomy
<1>4. Signalled'
  BY DEF IInv, Signalled, Hybrid
<1>5. QED
  BY <1>1, <1>3, <1>4 DEF Wanted, NothingSent, LayoutAgrees, BudgetKept

LEMMA LeadInv == IInv /\ Lead => IInv'
<1> SUFFICES ASSUME IInv, Lead PROVE IInv'
  OBVIOUS
<1>1. /\ f.phase = "celt" /\ job' = job /\ dec' = dec /\ gaveUp' = gaveUp
      /\ Typed /\ f \in Frames /\ Shrunk
  BY DEF Lead, IInv, Typed
<1> DEFINE e == Predicting(enc)
<1>2. /\ e \in [prev_mode : Mode, silk_bw_switch : BOOLEAN, pred : BOOLEAN, ref : Part]
  BY <1>1 DEF Predicting, Typed
<1>3. PICK intra \in IF LeadCodes THEN Choices(e) ELSE {TRUE} :
        /\ f' = [f EXCEPT !.phase = "main", !.lead = IF LeadCodes THEN Coded(e, intra) ELSE @]
        /\ enc' = AfterLead(e)
  BY DEF Lead
<1> HIDE DEF e
<1>4. Coded(e, intra) \in Part
  BY <1>2 DEF Coded, Part
<1>5. PICK lead \in Part : f' = [f EXCEPT !.phase = "main", !.lead = lead]
  BY <1>1, <1>3, <1>4 DEF Frames
<1>6. f' \in Frames
  BY <1>1, <1>5 DEF Frames
<1>7. /\ f'.phase = "main"
      /\ f'.orig = f.orig /\ f'.max = f.max /\ f'.red = f.red /\ f'.bytes = f.bytes
      /\ f'.tell0 = f.tell0 /\ f'.tell = f.tell /\ f'.wrote = f.wrote /\ f'.nb = f.nb
      /\ f'.len = f.len /\ f'.error = f.error /\ f'.ret = f.ret
  BY <1>1, <1>5 DEF Frames
<1>8. enc' \in [prev_mode : Mode, silk_bw_switch : BOOLEAN, pred : BOOLEAN, ref : Part]
  BY <1>2, <1>3 DEF AfterLead, Part
<1>9. Typed'
  BY <1>1, <1>6, <1>8 DEF Typed
<1>10. Shrunk'
  BY <1>1, <1>7 DEF Shrunk
<1>11. QED
  BY <1>1, <1>7, <1>9, <1>10, RoomKept DEF IInv

(* CELT shrinks a frame to what the decoder can still make sense of.       *)
LEMMA SizesBound ==
  ASSUME f \in Frames, NEW size \in Sizes
  PROVE  /\ size \in Int /\ size <= f.nb
         /\ size = f.nb \/ (size >= Bytes(f.tell) + 2 /\ (Hybrid => 8 * size >= f.tell + 37))
<1>1. f.nb \in Int /\ f.tell \in Int
  BY DEF Frames
<1>2. /\ Bytes(f.tell) \in Int /\ Bytes(f.tell + 37) \in Int
      /\ 8 * Bytes(f.tell + 37) >= f.tell + 37
  BY <1>1, BytesBounds
<1>3. size = f.nb \/ size = Floor(f.tell, f.nb, Hybrid)
  BY DEF Sizes
<1>4. CASE Hybrid
  <2>1. Floor(f.tell, f.nb, Hybrid) = Least(f.nb, Most(Bytes(f.tell) + 2, Bytes(f.tell + 37)))
    BY <1>4 DEF Floor, Flag
  <2>2. QED BY <1>1, <1>2, <1>3, <2>1 DEF Least, Most
<1>5. CASE ~Hybrid
  <2>1. Floor(f.tell, f.nb, Hybrid) = Least(f.nb, Most(Bytes(f.tell) + 2, 0))
    BY <1>5 DEF Floor, Flag
  <2>2. QED BY <1>1, <1>2, <1>3, <1>5, <2>1 DEF Least, Most
<1>6. QED BY <1>4, <1>5

LEMMA MainInv == IInv /\ Main => IInv'
<1> SUFFICES ASSUME IInv, Main PROVE IInv'
  OBVIOUS
<1>1. /\ f.phase = "main" /\ job' = job /\ dec' = dec /\ gaveUp' = gaveUp
      /\ Typed /\ f \in Frames /\ Shrunk
  BY DEF Main, IInv, Typed
<1> DEFINE e == MainReady(enc)
<1>2. e \in [prev_mode : Mode, silk_bw_switch : BOOLEAN, pred : BOOLEAN, ref : Part]
  BY <1>1 DEF MainReady, Prefilled, Typed, Part
<1> DEFINE Kept ==
      /\ f' \in Frames /\ f'.phase = "tail"
      /\ f'.orig = f.orig /\ f'.max = f.max /\ f'.red = f.red /\ f'.bytes = f.bytes
      /\ f'.tell0 = f.tell0 /\ f'.tell = f.tell /\ f'.wrote = f.wrote /\ f'.nb = f.nb
      /\ f'.len = f.len /\ f'.error = f.error
<1>3. Kept /\ Typed' /\ Shrunk'
  <2>1. CASE MainCodes
    <3>0. PICK ready \in {MainReady(enc)} :
            IF MainCodes
            THEN \E size \in Sizes, cramped \in {FALSE, Cramped} :
                 \E intra \in IF cramped THEN {FALSE} ELSE Choices(ready) :
                   /\ f' = [f EXCEPT !.phase = "tail", !.main = Coded(ready, intra),
                                     !.ret = size, !.cramped = cramped]
                   /\ enc' = [ready EXCEPT !.ref = "main"]
            ELSE /\ f' = [f EXCEPT !.phase = "tail"]
                 /\ enc' = ready
      BY Zenon DEF Main
    <3>1. PICK size \in Sizes, cramped \in {FALSE, Cramped} :
            \E intra \in IF cramped THEN {FALSE} ELSE Choices(ready) :
              /\ f' = [f EXCEPT !.phase = "tail", !.main = Coded(ready, intra),
                                !.ret = size, !.cramped = cramped]
              /\ enc' = [ready EXCEPT !.ref = "main"]
      BY <2>1, <3>0, Zenon
    <3>2. PICK intra \in IF cramped THEN {FALSE} ELSE Choices(ready) :
              /\ f' = [f EXCEPT !.phase = "tail", !.main = Coded(ready, intra),
                                !.ret = size, !.cramped = cramped]
              /\ enc' = [ready EXCEPT !.ref = "main"]
      BY <3>1
    <3> ready \in [prev_mode : Mode, silk_bw_switch : BOOLEAN, pred : BOOLEAN, ref : Part]
      BY <1>2, <3>0
    <3> HIDE DEF e
    <3>3. /\ size \in Int /\ size <= f.nb
          /\ size = f.nb \/ (size >= Bytes(f.tell) + 2 /\ (Hybrid => 8 * size >= f.tell + 37))
      BY <1>1, SizesBound
    <3>4. cramped \in BOOLEAN
      <4>1. Cramped \in BOOLEAN
        BY DEF Cramped
      <4>2. QED BY <4>1, Zenon
    <3>5. PICK main \in Part : main = Coded(ready, intra)
      BY DEF Coded, Part
    <3>6. f' = [f EXCEPT !.phase = "tail", !.main = main, !.ret = size, !.cramped = cramped]
      BY <3>2, <3>5
    <3>7. f' \in Frames
      BY <1>1, <3>3, <3>4, <3>6 DEF Frames
    <3>8. Kept /\ f'.ret = size
      BY <1>1, <3>6, <3>7 DEF Frames
    <3>9. enc' = [ready EXCEPT !.ref = "main"]
      BY <3>2
    <3>10. Typed'
      BY <1>1, <3>8, <3>9 DEF Typed, Part
    <3>11. job.mode # "SILK"
      BY <2>1 DEF MainCodes
    <3>12. Shrunk'
      BY <1>1, <3>3, <3>8, <3>11 DEF Shrunk, Hybrid
    <3>13. QED BY <3>8, <3>10, <3>12
  <2>2. CASE ~MainCodes
    <3>1. f' = [f EXCEPT !.phase = "tail"] /\ enc' = e
      BY <2>2 DEF Main
    <3> HIDE DEF e
    <3>2. Kept /\ f'.ret = f.ret
      BY <1>1, <3>1 DEF Frames
    <3>3. Typed'
      BY <1>1, <1>2, <3>1, <3>2 DEF Typed
    <3>4. Shrunk'
      BY <1>1, <2>2, <3>2 DEF Shrunk, MainCodes, Flag
    <3>5. QED BY <3>2, <3>3, <3>4
  <2>3. QED BY <2>1, <2>2
<1>4. QED
  BY <1>1, <1>3, RoomKept DEF IInv

LEMMA TailInv == IInv /\ Tail => IInv'
<1> SUFFICES ASSUME IInv, Tail PROVE IInv'
  OBVIOUS
<1>1. /\ f.phase = "tail" /\ job' = job /\ dec' = dec /\ gaveUp' = gaveUp
      /\ Typed /\ f \in Frames /\ Shrunk
  BY DEF Tail, IInv, Typed
<1> DEFINE e == Prefilled(enc)
<1>2. e \in [prev_mode : Mode, silk_bw_switch : BOOLEAN, pred : BOOLEAN, ref : Part]
  BY <1>1 DEF Prefilled, Typed, Part
<1>3. \A intra \in Choices(e) : Coded(e, intra) \in Part
  BY <1>2 DEF Coded, Part
<1>4. \E tail \in Part : f' = [f EXCEPT !.phase = "close", !.tail = tail]
  <2>1. CASE f.red /\ ~f.c2s
    <3>1. PICK intra \in Choices(e) : f' = [f EXCEPT !.phase = "close", !.tail = Coded(e, intra)]
      BY <2>1 DEF Tail
    <3>2. QED BY <1>3, <3>1
  <2>2. CASE ~(f.red /\ ~f.c2s)
    <3>1. f' = [f EXCEPT !.phase = "close", !.tail = f.tail]
      BY <1>1, <2>2 DEF Tail, Frames
    <3>2. QED BY <1>1, <3>1 DEF Frames
  <2>3. QED BY <2>1, <2>2
<1>5. enc' \in [prev_mode : Mode, silk_bw_switch : BOOLEAN, pred : BOOLEAN, ref : Part]
  <2>1. enc' = enc \/ enc' = [e EXCEPT !.ref = "tail"]
    BY DEF Tail
  <2>2. QED BY <1>1, <1>2, <2>1 DEF Typed, Part
<1>6. PICK tail \in Part : f' = [f EXCEPT !.phase = "close", !.tail = tail]
  BY <1>4
<1>7. f' \in Frames
  BY <1>1, <1>6 DEF Frames
<1>8. /\ f'.phase = "close"
      /\ f'.orig = f.orig /\ f'.max = f.max /\ f'.red = f.red /\ f'.bytes = f.bytes
      /\ f'.tell0 = f.tell0 /\ f'.tell = f.tell /\ f'.wrote = f.wrote /\ f'.nb = f.nb
      /\ f'.len = f.len /\ f'.error = f.error /\ f'.ret = f.ret
  BY <1>1, <1>6 DEF Frames
<1>9. Typed'
  BY <1>1, <1>5, <1>7 DEF Typed
<1>10. Shrunk'
  BY <1>1, <1>8 DEF Shrunk, Hybrid
<1>11. QED
  BY <1>1, <1>8, <1>9, <1>10, RoomKept DEF IInv

-----------------------------------------------------------------------------
(* The frame's parts as they go out, mode by mode: it fits its room, and   *)
(* its length tells the decoder what the encoder knew.                     *)
Fitting(n) ==
  /\ n \in Int /\ n >= 1 /\ n + f.bytes <= f.max - 1
  /\ Busted => ~f.red /\ n = 1
  /\ f.red => f.tell <= 8 * n
  /\ ~Busted => n >= 2
  /\ Low(job.mode) /\ n + f.bytes > 1
       => (f.tell0 + (IF Hybrid THEN 37 ELSE 17) <= 8 * (n + f.bytes)
             <=> IF Hybrid THEN f.wrote ELSE f.red)
  /\ f.red /\ ~Hybrid => n = Bytes(f.tell)

LEMMA RoomLeft ==
  ASSUME IInv, f.phase = "close"
  PROVE  /\ job.mode \in {"SILK", "HYBRID", "CELT"} /\ f \in Frames /\ job \in Packets
         /\ f.max \in Int /\ f.max >= 3 /\ f.max <= f.orig
         /\ f.orig = CurrMax /\ CurrMax \in Int /\ CurrMax <= Share /\ Share \in Int
         /\ f.bytes \in Int /\ f.tell \in Int /\ f.tell0 \in Int /\ f.ret \in Int /\ f.nb \in Int
         /\ Low(job.mode) => f.tell0 > 8
<1>1. /\ job # NoJob /\ job.next <= job.frames /\ Typed /\ Planned
      /\ f.orig = CurrMax /\ f.max = Least(f.orig, 1276)
      /\ Low(job.mode) => f.tell0 >= MinSilkBits
  BY DEF IInv, Making, Roomy
<1>2. /\ job.mode \in {"SILK", "HYBRID", "CELT"} /\ f \in Frames /\ job \in Packets
  BY <1>1 DEF Typed, Planned
<1>3. /\ CurrMax \in Int /\ 3 <= CurrMax /\ CurrMax <= Share /\ Share \in Int
  BY <1>1, CurrMaxRoom
<1>4. /\ f.bytes \in Int /\ f.tell \in Int /\ f.tell0 \in Int /\ f.ret \in Int /\ f.nb \in Int
  BY <1>2 DEF Frames
<1>5. MinSilkBits \in Nat /\ MinSilkBits > 8
  BY EncoderAssumption
<1>6. QED BY <1>1, <1>2, <1>3, <1>4, <1>5 DEF Least

LEMMA SilkFits ==
  ASSUME IInv, f.phase = "close", job.mode = "SILK",
         NEW n \in IF Busted THEN {1} ELSE Lengths
  PROVE  Fitting(n)
<1>1. /\ f.max \in Int /\ f.max >= 3 /\ f.bytes \in Int /\ f.tell \in Int /\ f.tell0 \in Int
      /\ f.tell0 > 8
  BY RoomLeft DEF Low
<1>2. /\ f.nb = Bytes(f.tell) /\ f.ret = f.nb /\ f.tell >= f.tell0
      /\ ~f.red => f.tell = f.tell0 /\ f.bytes = 0
      /\ f.red => /\ f.bytes \in 2 .. 257 /\ Bytes(f.tell) + f.bytes <= f.max - 1
                  /\ f.tell0 + 17 <= 8 * (Bytes(f.tell) + f.bytes)
  BY DEF IInv, Signalled, Shrunk, Roomy, Low, Hybrid
<1> DEFINE b == Bytes(f.tell)
<1>3. b \in Int /\ 8 * b >= f.tell /\ 8 * b <= f.tell + 7
  BY <1>1, BytesBounds
<1> HIDE DEF b
<1>4. f.ret = b
  BY <1>2 DEF b
<1>5. CASE f.red
  <2>1. b + f.bytes <= f.max - 1 /\ f.bytes \in 2 .. 257 /\ f.tell0 + 17 <= 8 * (b + f.bytes)
    BY <1>2, <1>5 DEF b
  <2>2. ~Busted
    BY <1>1, <1>3, <2>1 DEF Busted
  <2>3. n = b
    BY <1>4, <1>5, <2>2 DEF Lengths
  <2>4. b >= 2
    BY <1>1, <1>2, <1>3
  <2>5. QED BY <1>1, <1>3, <1>5, <2>1, <2>2, <2>3, <2>4 DEF Fitting, Hybrid, b
<1>6. CASE ~f.red
  <2>1. f.tell = f.tell0 /\ f.bytes = 0
    BY <1>2, <1>6
  <2>2. CASE Busted
    BY <1>1, <1>6, <2>1, <2>2 DEF Fitting
  <2>3. CASE ~Busted
    <3>1. b >= 2 /\ b <= f.max - 1
      BY <1>1, <1>3, <2>1, <2>3 DEF Busted
    <3>2. n \in Int /\ n >= 2 /\ n <= b
      BY <1>3, <1>4, <1>6, <2>3, <3>1 DEF Lengths, Least
    <3>3. ~(f.tell0 + 17 <= 8 * n)
      BY <1>1, <1>3, <2>1, <3>2
    <3>4. QED BY <1>1, <1>3, <1>6, <2>1, <2>3, <3>1, <3>2, <3>3 DEF Fitting, Hybrid
  <2>4. QED BY <2>2, <2>3
<1>7. QED BY <1>5, <1>6

LEMMA HybridFits ==
  ASSUME IInv, f.phase = "close", job.mode = "HYBRID",
         NEW n \in IF Busted THEN {1} ELSE Lengths
  PROVE  Fitting(n)
<1>1. /\ f.max \in Int /\ f.max >= 3 /\ f.bytes \in Int /\ f.tell \in Int /\ f.tell0 \in Int
      /\ f.tell0 > 8 /\ f.ret \in Int
  BY RoomLeft DEF Low
<1>2. /\ f.nb = f.max - 1 - f.bytes /\ f.tell >= f.tell0
      /\ f.wrote <=> f.tell0 + 37 <= 8 * (f.max - 1)
      /\ ~f.red => f.bytes = 0
      /\ f.red => f.bytes \in 2 .. 257 /\ f.wrote /\ f.tell <= 8 * f.nb
      /\ f.tell <= 8 * f.nb =>
              /\ f.ret <= f.nb
              /\ f.ret = f.nb \/ (f.ret >= Bytes(f.tell) + 2 /\ 8 * f.ret >= f.tell + 37)
  BY DEF IInv, Signalled, Shrunk, Roomy, Low, Hybrid
<1> DEFINE b == Bytes(f.tell)
<1>3. b \in Int /\ 8 * b >= f.tell /\ 8 * b <= f.tell + 7
  BY <1>1, BytesBounds
<1>4. f.tell <= 8 * f.nb =>
              /\ f.ret <= f.nb
              /\ f.ret = f.nb \/ (f.ret >= b + 2 /\ 8 * f.ret >= f.tell + 37)
  BY <1>2
<1> HIDE DEF b
<1>5. Busted => ~f.red /\ n = 1 /\ f.bytes = 0
  BY <1>1, <1>2 DEF Busted
<1>6. CASE Busted
  BY <1>1, <1>2, <1>5, <1>6 DEF Fitting
<1>7. CASE ~Busted
  <2>1. n = f.ret
    BY <1>7 DEF Lengths
  <2>2. f.tell <= 8 * f.nb
    BY <1>1, <1>2, <1>7 DEF Busted
  <2>3. f.nb >= 2
    BY <1>1, <1>2, <2>2
  <2>4. /\ n <= f.nb /\ n >= 2 /\ f.tell <= 8 * n
        /\ n = f.nb \/ 8 * n >= f.tell + 37
    BY <1>1, <1>2, <1>3, <1>4, <2>1, <2>2, <2>3
  <2>5. f.bytes >= 0 /\ n + f.bytes <= f.max - 1
    BY <1>1, <1>2, <2>1, <2>4
  <2>6. f.tell0 + 37 <= 8 * (n + f.bytes) <=> f.wrote
    BY <1>1, <1>2, <2>1, <2>4, <2>5
  <2>7. Hybrid
    BY DEF Hybrid
  <2>8. Low(job.mode) /\ n + f.bytes > 1
          => (f.tell0 + (IF Hybrid THEN 37 ELSE 17) <= 8 * (n + f.bytes)
                <=> IF Hybrid THEN f.wrote ELSE f.red)
    BY <2>6, <2>7
  <2>9. n \in Int /\ n >= 1
    BY <1>1, <2>1, <2>4
  <2>10. QED BY <1>7, <2>4, <2>5, <2>7, <2>8, <2>9 DEF Fitting
<1>8. QED BY <1>6, <1>7

LEMMA CeltFits ==
  ASSUME IInv, f.phase = "close", job.mode = "CELT",
         NEW n \in IF Busted THEN {1} ELSE Lengths
  PROVE  Fitting(n)
<1>1. /\ f.max \in Int /\ f.max >= 3 /\ f.ret \in Int
  BY RoomLeft
<1>2. /\ f.nb = f.max - 1 - f.bytes /\ f.tell = 1 /\ ~f.red /\ f.bytes = 0
      /\ f.tell <= 8 * f.nb =>
              f.ret <= f.nb /\ (f.ret = f.nb \/ f.ret >= Bytes(f.tell) + 2)
  BY DEF IInv, Signalled, Shrunk, Roomy, Low, Hybrid
<1>3. Bytes(f.tell) = 1
  BY <1>2 DEF Bytes
<1>4. ~Busted
  BY <1>1, <1>2 DEF Busted
<1>5. n = f.ret
  BY <1>4 DEF Lengths
<1>6. n >= 2 /\ n <= f.max - 1
  BY <1>1, <1>2, <1>3, <1>5
<1>7. QED BY <1>1, <1>2, <1>4, <1>5, <1>6 DEF Fitting, Low, Hybrid

LEMMA CloseInv == IInv /\ Close => IInv'
<1> SUFFICES ASSUME IInv, Close PROVE IInv'
  OBVIOUS
<1>1. /\ f.phase = "close" /\ dec' = dec /\ Typed /\ Planned
      /\ job # NoJob /\ job.next <= job.frames
  BY DEF Close, IInv, Making
<1>0. PICK n \in IF Busted THEN {1} ELSE Lengths :
       \E total \in {1 + n + f.bytes} :
       /\ f' = [f EXCEPT !.phase = "sent", !.len = n + f.bytes,
                         !.error = (Busted /\ f.max < 2) \/ (~job.vbr /\ total > f.orig)]
       /\ job' = [job EXCEPT !.next = @ + 1, !.total = @ + IF job.vbr THEN total ELSE f.orig]
  BY Zenon DEF Close
<1>2. PICK total \in {1 + n + f.bytes} :
       /\ f' = [f EXCEPT !.phase = "sent", !.len = n + f.bytes,
                         !.error = (Busted /\ f.max < 2) \/ (~job.vbr /\ total > f.orig)]
       /\ job' = [job EXCEPT !.next = @ + 1, !.total = @ + IF job.vbr THEN total ELSE f.orig]
  BY <1>0
<1>3. /\ job.mode \in {"SILK", "HYBRID", "CELT"} /\ f \in Frames /\ job \in Packets
      /\ f.max \in Int /\ f.max >= 3 /\ f.max <= f.orig
      /\ f.orig = CurrMax /\ CurrMax \in Int /\ CurrMax <= Share /\ Share \in Int
      /\ f.bytes \in Int /\ f.tell \in Int /\ f.tell0 \in Int
  BY <1>1, RoomLeft
<1>4. Fitting(n)
  BY <1>1, <1>3, SilkFits, HybridFits, CeltFits
<1>5. /\ n \in Int /\ n >= 1 /\ n + f.bytes <= f.max - 1 /\ total = 1 + n + f.bytes
      /\ total \in Int /\ total <= f.orig
  BY <1>3, <1>4 DEF Fitting
<1>6. ~((Busted /\ f.max < 2) \/ (~job.vbr /\ total > f.orig))
  BY <1>3, <1>5
<1>7. f' = [f EXCEPT !.phase = "sent", !.len = n + f.bytes, !.error = FALSE]
  BY <1>2, <1>6
<1>8. PICK len \in Int : len = n + f.bytes
  BY <1>3, <1>5
<1>9. f' = [f EXCEPT !.phase = "sent", !.len = len, !.error = FALSE]
  BY <1>7, <1>8
<1>10. /\ f' \in Frames /\ f'.phase = "sent" /\ f'.len = len /\ ~f'.error
       /\ f'.orig = f.orig /\ f'.max = f.max /\ f'.red = f.red /\ f'.c2s = f.c2s
       /\ f'.bytes = f.bytes /\ f'.tell0 = f.tell0 /\ f'.tell = f.tell /\ f'.wrote = f.wrote
  BY <1>3, <1>9 DEF Frames
<1>11. PICK used \in Int : used = (IF job.vbr THEN total ELSE f.orig) /\ 0 <= used /\ used <= Share
  <2>1. f.bytes >= 0
    BY <1>1 DEF IInv, Roomy, Signalled
  <2>2. 0 <= total /\ total <= Share
    BY <1>3, <1>5, <2>1
  <2>3. QED BY <1>3, <1>5, <2>2
<1>12. job' = [job EXCEPT !.next = @ + 1, !.total = @ + used]
  BY <1>2, <1>11
<1>13. /\ job' \in Packets /\ job'.mode = job.mode /\ job'.dur = job.dur /\ job'.frames = job.frames
       /\ job'.sum = job.sum /\ job'.rate = job.rate /\ job'.next = job.next + 1
       /\ job'.total = job.total + used
  <2>1. PICK next, sum \in Int : next = job.next + 1 /\ sum = job.total + used
    BY <1>3, <1>11 DEF Packets
  <2>2. job' = [job EXCEPT !.next = next, !.total = sum]
    BY <1>12, <2>1
  <2>3. QED BY <1>3, <2>1, <2>2 DEF Packets
<1>14. Planned' /\ Typed'
  <2>1. enc' \in [prev_mode : Mode, silk_bw_switch : BOOLEAN, pred : BOOLEAN, ref : Part]
    BY <1>1, <1>3 DEF Close, Typed, Mode
  <2>2. gaveUp' \in BOOLEAN
    BY DEF Close
  <2>3. Typed'
    BY <1>1, <1>10, <1>13, <2>1, <2>2 DEF Typed
  <2>4. Share' = Share
    BY <1>13 DEF Share
  <2>5. job.total + used <= (job'.next - 1) * Share
    <3>1. job.total \in Int /\ job.next \in Int /\ job.total <= (job.next - 1) * Share
      BY <1>1, <1>3 DEF Planned, Packets
    <3>2. (job.next - 1) * Share + Share = job.next * Share
      BY <1>3, <3>1
    <3>3. QED BY <1>3, <1>11, <1>13, <3>1, <3>2
  <2>6. Planned'
    <3>1. /\ job.dur \in {1, 2, 4, 8, 16, 24} /\ job.frames \in 1 .. 6 /\ job.next \in 1 .. job.frames
          /\ Share >= 3 /\ 0 <= job.total /\ job.total \in Int
          /\ job.frames > 1 => BitsOf(job.rate, job.dur) \div 8 >= 3
      BY <1>1, <1>3 DEF Planned, Packets
    <3>2. job'.next \in 1 .. job'.frames + 1 /\ 0 <= job'.total
      BY <1>11, <1>13, <3>1
    <3>3. QED BY <1>3, <1>13, <2>4, <2>5, <3>1, <3>2 DEF Planned
  <2>7. QED BY <2>3, <2>6
<1>15. LayoutAgrees'
  <2> SUFFICES ASSUME len > 1
               PROVE  /\ Found' = Sent'
                      /\ Hybrid' => (f'.wrote <=> SignalsRed(f'.tell0, f'.len, TRUE))
    BY <1>10 DEF LayoutAgrees, Empty, SignalsRed, Flag
  <2> DEFINE signalled == Low(job.mode) /\ SignalsRed(f.tell0, len, Hybrid)
  <2>1. (Hybrid' <=> Hybrid) /\ Low(job'.mode) = Low(job.mode) /\ (Low(job.mode) <=> job.mode # "CELT")
    BY <1>13 DEF Hybrid, Low
  <2>2. /\ Low(job.mode) /\ Hybrid  => (signalled <=> f.wrote)
        /\ Low(job.mode) /\ ~Hybrid => (signalled <=> f.red)
    BY <1>3, <1>4, <1>8 DEF Fitting, SignalsRed, Flag
  <2>3. Hybrid' => (f'.wrote <=> SignalsRed(f'.tell0, f'.len, TRUE))
    BY <1>3, <1>4, <1>8, <1>10, <2>1 DEF Fitting, SignalsRed, Flag, Hybrid, Low
  <2>4. f.red => Low(job.mode) /\ (Hybrid => f.wrote)
    BY <1>1 DEF IInv, Roomy, Signalled
  <2>5. ~f.red => f.bytes = 0
    BY <1>1 DEF IInv, Roomy
  <2>6. (~signalled \/ (Hybrid /\ ~f.red)) <=> ~f.red
    BY <2>1, <2>2, <2>4
  <2>7. CASE ~f.red
    <3>1. Found' = Layout(FALSE, FALSE, len, 0)
      BY <1>10, <1>13, <2>1, <2>6, <2>7 DEF Found, SignalsRed, Flag, Hybrid
    <3>2. Sent' = Layout(FALSE, f.c2s, len, 0)
      <4>1. f.red = FALSE /\ f.bytes = 0 /\ len - 0 = len
        BY <1>3, <1>8, <2>5, <2>7 DEF Frames
      <4>2. Sent' = Layout(f.red, f.c2s, len - f.bytes, f.bytes)
        BY <1>10 DEF Sent
      <4>3. QED BY <4>1, <4>2
    <3>3. QED BY <2>3, <3>1, <3>2 DEF Layout
  <2>8. CASE f.red
    <3>1. (IF Hybrid THEN f.bytes ELSE len - Bytes(f.tell)) = f.bytes
      BY <1>3, <1>4, <1>5, <1>8, <2>8 DEF Fitting
    <3>2. ~(8 * (len - f.bytes) < f.tell)
      BY <1>3, <1>4, <1>5, <1>8, <2>8 DEF Fitting
    <3>3. signalled /\ ~(Hybrid /\ ~f.red)
      BY <2>6, <2>8
    <3>4. Found' = Layout(TRUE, f.c2s, len - f.bytes, f.bytes)
      BY <1>10, <1>13, <2>1, <3>1, <3>2, <3>3 DEF Found, SignalsRed, Flag, Hybrid
    <3>5. Sent' = Layout(f.red, f.c2s, len - f.bytes, f.bytes)
      BY <1>10 DEF Sent
    <3>6. f.red = TRUE
      BY <1>3, <2>8 DEF Frames
    <3>7. QED BY <2>3, <3>4, <3>5, <3>6
  <2>9. QED BY <2>7, <2>8
<1>16. BudgetKept'
  <2>1. Busted' <=> Busted
    BY <1>10 DEF Busted
  <2>2. f.red => f.bytes \in 2 .. 257
    BY <1>1 DEF IInv, Signalled
  <2>3. f.red => f.tell <= 8 * (len - f.bytes)
    BY <1>3, <1>4, <1>5, <1>8 DEF Fitting
  <2>4. ~Busted => len >= 2
    <3>1. f.bytes >= 0
      BY <1>1 DEF IInv, Roomy, Signalled
    <3>2. QED BY <1>3, <1>4, <1>5, <1>8, <3>1 DEF Fitting
  <2>5. 1 + len <= f.orig
    BY <1>3, <1>5, <1>8
  <2>6. QED BY <1>10, <2>1, <2>2, <2>3, <2>4, <2>5 DEF BudgetKept
<1>17. NothingSent'
  BY <1>3, <1>13 DEF NothingSent, NoJob
<1>18. QED
  BY <1>10, <1>14, <1>15, <1>16, <1>17 DEF IInv, Making, Roomy, Wanted, Signalled, Shrunk

(* What the decoder keeps stays typed.                                     *)
Decoders == [prev_mode : Mode, prev_redundancy : BOOLEAN, ref : Part, sound : BOOLEAN]

LEMMA TakeTyped ==
  ASSUME NEW s \in Decoders, NEW from, NEW name \in Part, NEW heard \in BOOLEAN
  PROVE  Take(s, from, name, heard) \in Decoders
<1>1. PICK sound \in BOOLEAN : sound <=> s.sound /\ (heard => Fits(s, from))
  OBVIOUS
<1>2. sound = (s.sound /\ (heard => Fits(s, from)))
  BY <1>1
<1>3. PICK ref \in Part : ref = IF Fits(s, from) THEN name ELSE "other"
  BY DEF Part
<1>4. Take(s, from, name, heard) = [s EXCEPT !.ref = ref, !.sound = sound]
  BY <1>2, <1>3 DEF Take
<1>5. QED BY <1>4 DEF Decoders

LEMMA ConcealedTyped ==
  ASSUME NEW s \in Decoders, NEW mode \in Mode
  PROVE  Concealed(s, mode) \in Decoders
<1>1. PICK ref \in Part : ref = IF mode = "SILK" THEN s.ref ELSE "other"
  BY DEF Decoders, Part
<1>2. [s EXCEPT !.ref = ref, !.prev_mode = mode, !.prev_redundancy = FALSE] \in Decoders
  BY DEF Decoders
<1>3. Concealed(s, mode) =
        IF mode = "none" THEN s
        ELSE [s EXCEPT !.ref = ref, !.prev_mode = mode, !.prev_redundancy = FALSE]
  BY <1>1 DEF Concealed
<1>4. QED BY <1>2, <1>3

LEMMA HeardTyped ==
  ASSUME Typed
  PROVE  Heard \in Decoders
<1> DEFINE s == [prev_mode |-> dec.prev_mode, prev_redundancy |-> dec.prev_redundancy,
                 ref |-> dec.ref, sound |-> TRUE]
           red == Kind(Found)
<1>1. s \in Decoders /\ job.mode \in Mode
  BY DEF Typed, Decoders, Packets
<1>2. \A d \in Decoders : Dec!PlcMode(d) \in Mode
  BY DEF Dec!PlcMode, Decoders, Mode
<1> HIDE DEF s, red
<1>3. Bridged(s, job.mode, red) \in Decoders
  BY <1>1, <1>2, ConcealedTyped DEF Bridged
<1>4. Led(Bridged(s, job.mode, red), red) \in Decoders
  <2> DEFINE b == Bridged(s, job.mode, red)
  <2>1. Dec!HearsRedundant(b) \in BOOLEAN
    BY <1>3 DEF Dec!HearsRedundant, Decoders
  <2> HIDE DEF b
  <2>2. "lead" \in Part
    BY DEF Part
  <2>3. Take(b, f.lead, "lead", Dec!HearsRedundant(b)) \in Decoders
    BY <1>3, <2>1, <2>2, TakeTyped DEF b
  <2>4. QED BY <1>3, <2>3 DEF Led, b
<1>5. \A d \in Decoders : Played(d, job.mode, red) \in Decoders
  <2> SUFFICES ASSUME NEW d \in Decoders PROVE Played(d, job.mode, red) \in Decoders
    OBVIOUS
  <2>1. /\ "other" \in Part /\ "fresh" \in Part /\ "main" \in Part
    BY DEF Part
  <2>2. [d EXCEPT !.ref = "other"] \in Decoders /\ [d EXCEPT !.ref = "fresh"] \in Decoders
    BY <2>1 DEF Decoders
  <2>3. /\ Take([d EXCEPT !.ref = "fresh"], f.main, "main", TRUE) \in Decoders
        /\ Take(d, f.main, "main", TRUE) \in Decoders
    BY <2>1, <2>2, TakeTyped
  <2>4. QED BY <2>2, <2>3 DEF Played
<1>6. \A d \in Decoders : Ended(d, job.mode, red) \in Decoders
  <2> SUFFICES ASSUME NEW d \in Decoders PROVE Ended(d, job.mode, red) \in Decoders
    OBVIOUS
  <2> DEFINE t == IF red = "s2c" THEN Take([d EXCEPT !.ref = "fresh"], f.tail, "tail", TRUE) ELSE d
  <2>1. /\ "fresh" \in Part /\ "tail" \in Part
    BY DEF Part
  <2>2. [d EXCEPT !.ref = "fresh"] \in Decoders
    BY <2>1 DEF Decoders
  <2>3. t \in Decoders
    BY <2>1, <2>2, TakeTyped
  <2>4. PICK r \in BOOLEAN : r <=> red = "s2c"
    OBVIOUS
  <2>5. r = (red = "s2c")
    BY <2>4
  <2>6. Ended(d, job.mode, red) = [t EXCEPT !.prev_mode = job.mode, !.prev_redundancy = r]
    BY <2>5 DEF Ended
  <2> HIDE DEF t
  <2>7. QED BY <1>1, <2>3, <2>6 DEF Decoders
<1>7. Heard = IF Empty THEN Concealed(s, Dec!PlcMode(s))
              ELSE Ended(Played(Led(Bridged(s, job.mode, red), red), job.mode, red), job.mode, red)
  BY DEF Heard, s, red
<1>8. QED BY <1>1, <1>2, <1>3, <1>4, <1>5, <1>6, <1>7, ConcealedTyped

LEMMA DecodeInv == IInv /\ Decode => IInv'
<1> SUFFICES ASSUME IInv, Decode PROVE IInv'
  OBVIOUS
<1> DEFINE more == job.next <= job.frames
<1>1. /\ f.phase = "sent" /\ Typed /\ Planned
      /\ job' = (IF more THEN job ELSE NoJob)
      /\ f' = [NoFrame EXCEPT !.phase = IF more THEN "begin" ELSE "idle"]
  BY DEF Decode, IInv
<1>2. NoFrame \in Frames /\ NoJob \in Packets
  BY DEF NoFrame, NoJob, Frames, Packets, Mode, Part
<1>3. f' \in Frames /\ f'.phase = (IF more THEN "begin" ELSE "idle")
  BY <1>1, <1>2 DEF Frames
<1>4. more => job # NoJob
  BY DEF NoJob
<1>5. Typed'
  <2>1. Heard \in Decoders
    BY <1>1, HeardTyped
  <2>2. /\ dec' = [prev_mode |-> Heard.prev_mode, prev_redundancy |-> Heard.prev_redundancy,
                   ref |-> IF Heard.ref = "fresh" \/ Heard.ref = enc.ref
                           THEN Settled(Heard.ref) ELSE "other"]
        /\ enc' = [enc EXCEPT !.ref = Settled(@)]
        /\ gaveUp' = ((gaveUp \/ Empty) /\ ~InStep(enc', dec'))
    BY DEF Decode
  <2>3. \A p \in Part : Settled(p) \in Part
    BY DEF Settled, Part
  <2>4. dec' \in [prev_mode : Mode, prev_redundancy : BOOLEAN, ref : Part]
    BY <2>1, <2>2, <2>3 DEF Decoders, Part
  <2>5. enc' \in [prev_mode : Mode, silk_bw_switch : BOOLEAN, pred : BOOLEAN, ref : Part]
    BY <1>1, <2>2, <2>3 DEF Typed
  <2>6. gaveUp' \in BOOLEAN
    BY <2>2
  <2>7. job' \in Packets
    BY <1>1, <1>2 DEF Typed
  <2>8. QED BY <1>3, <2>4, <2>5, <2>6, <2>7 DEF Typed
<1>6. Planned' /\ Making'
  <2>1. CASE more
    BY <1>1, <1>3, <1>4, <2>1 DEF Planned, Making, Share
  <2>2. CASE ~more
    BY <1>1, <1>3, <2>2 DEF Planned, Making
  <2>3. QED BY <2>1, <2>2
<1>7. QED
  BY <1>3, <1>5, <1>6 DEF IInv, Roomy, Wanted, Signalled, Shrunk, NothingSent, LayoutAgrees, BudgetKept

-----------------------------------------------------------------------------
LEMMA StepInv == IInv /\ [Next]_vars => IInv'
<1> SUFFICES ASSUME IInv, [Next]_vars PROVE IInv'
  OBVIOUS
<1>1. CASE UNCHANGED vars
  <2>1. Typed' /\ Planned' /\ Making'
    BY <1>1 DEF vars, IInv, Typed, Planned, Making, Share
  <2>2. CurrMax' = CurrMax /\ (Hybrid' <=> Hybrid) /\ (Empty' <=> Empty) /\ (Busted' <=> Busted)
    BY <1>1 DEF vars, CurrMax, Hybrid, Empty, Busted
  <2>3. Roomy' /\ Wanted' /\ Signalled' /\ Shrunk' /\ NothingSent'
    BY <1>1, <2>2 DEF vars, IInv, Roomy, Wanted, Signalled, Shrunk, NothingSent
  <2>4. BudgetKept'
    BY <1>1, <2>2 DEF vars, IInv, BudgetKept
  <2>5. Found' = Found /\ Sent' = Sent
    BY <1>1 DEF vars, Found, Sent, SignalsRed, Flag, Hybrid
  <2>6. LayoutAgrees'
    BY <1>1, <2>2, <2>5 DEF vars, IInv, LayoutAgrees, SignalsRed, Flag
  <2>7. QED BY <2>1, <2>3, <2>4, <2>6 DEF IInv
<1>2. QED
  BY <1>1, DecideInv, CodeSilkInv, SignalInv, LeadInv, MainInv, TailInv, CloseInv, DecodeInv DEF Next

LEMMA Invariance == Spec => []IInv
  BY InitInv, StepInv, PTL DEF Spec

(* The decoder finds every part of every frame where the encoder put it:   *)
(* for every setting, frame size and packet length, whatever SILK leaves.  *)
THEOREM LayoutsAgree == Spec => []LayoutAgrees
<1>1. IInv => LayoutAgrees
  BY DEF IInv
<1>2. QED BY <1>1, Invariance, PTL

(* No frame outgrows its room or leaves a part without its bits.           *)
THEOREM BudgetsKept == Spec => []BudgetKept
<1>1. IInv => BudgetKept
  BY DEF IInv
<1>2. QED BY <1>1, Invariance, PTL

-----------------------------------------------------------------------------
(***************************************************************************)
(* CELT's predictions.  The two sides need not hold the same energies: SILK*)
(* frames leave them apart, and the next CELT frame starts over.  Together *)
(* they must be when the encoder may predict, which is what Abreast says   *)
(* between frames, and Predicted and Ready from then on until the decoder  *)
(* has the frame.                                                          *)
(***************************************************************************)
(* The modes go together, and where CELT may go on predicting so do the    *)
(* energies.                                                               *)
Together ==
  /\ enc.prev_mode = dec.prev_mode \/ (enc.prev_mode = "CELT" /\ dec.prev_redundancy)
  /\ enc.prev_mode # "SILK" \/ dec.prev_redundancy => enc.ref = dec.ref

(* A redundant frame at the start only hides a switch.                     *)
Leads == f.red /\ f.c2s
Trails == f.red /\ ~f.c2s

Abreast ==
  /\ f.phase \in {"idle", "begin", "signal", "celt"} /\ ~gaveUp => Together
  /\ f.phase = "main" /\ ~gaveUp /\ ~Leads => Together
  /\ f.phase = "main" /\ ~gaveUp =>
       enc.prev_mode = dec.prev_mode \/ (enc.prev_mode = "CELT" /\ dec.prev_redundancy)

(* When SILK may change its rate, and why a frame leads.                   *)
Switching ==
  /\ f.phase \in {"idle", "begin", "sent"} /\ enc.silk_bw_switch =>
       enc.prev_mode \in {"SILK", "CELT"}
  /\ f.phase \in {"signal", "celt", "main", "tail", "close"} /\ enc.silk_bw_switch =>
       job.mode = "SILK"
  /\ job.c2s => ~job.toCelt
  /\ f.phase = "begin" /\ job.c2s /\ job.next = 1 => enc.prev_mode = "CELT"
  /\ f.phase = "sent" => job.next > 1 \/ job.next > job.frames
  /\ f.phase \in {"signal", "celt", "main"} /\ Leads => enc.prev_mode \in {"SILK", "CELT"}

(* What the decoder is to predict from is what was predicted from.         *)
LeadFits ==
  Leads /\ Dec!HearsRedundant(dec) => f.lead = "intra" \/ f.lead = dec.ref

MainFits ==
  job.mode # "SILK" =>
    \/ f.main = "intra"
    \/ /\ f.main = dec.ref /\ ~Leads
       /\ ~Dec!DiscardsCelt(dec, job.mode) /\ ~Dec!Switches(dec, job.mode)

Predicted ==
  ~gaveUp =>
    /\ f.phase \in {"main", "tail", "close"} => LeadFits
    /\ f.phase \in {"tail", "close"} /\ MainCodes /\ ~f.cramped =>
         MainFits /\ ((Trails /\ f.phase = "close") \/ enc.ref = "main")
    /\ f.phase = "close" /\ Trails => f.tail = "intra" /\ enc.ref = "tail"

(* What a frame that goes out leaves behind.                               *)
Ready ==
  f.phase = "sent" /\ ~gaveUp /\ ~Empty =>
    /\ LeadFits /\ MainFits /\ (Low(job.mode) \/ ~f.red)
    /\ Trails => f.tail = "intra" /\ enc.ref = "tail"
    /\ ~Trails /\ job.mode # "SILK" => enc.ref = "main"
    /\ enc.prev_mode = job.mode \/ (enc.prev_mode = "CELT" /\ Trails)

SyncInv == Abreast /\ Switching /\ Predicted /\ Ready

LEMMA InitSync == Init => SyncInv
<1> SUFFICES ASSUME Init PROVE SyncInv
  OBVIOUS
<1>1. /\ f.phase = "idle" /\ ~job.c2s /\ ~enc.silk_bw_switch
      /\ enc.prev_mode = "none" /\ dec.prev_mode = "none" /\ enc.ref = "fresh" /\ dec.ref = "fresh"
  BY DEF Init, NoFrame, NoJob
<1>2. QED BY <1>1 DEF SyncInv, Abreast, Together, Switching, Predicted, Ready

LEMMA DecideSync == IInv /\ SyncInv /\ Decide => SyncInv'
<1> SUFFICES ASSUME IInv, SyncInv, Decide PROVE SyncInv'
  OBVIOUS
<1>1. /\ f.phase = "idle" /\ enc' = enc /\ dec' = dec /\ gaveUp' = gaveUp
      /\ enc.prev_mode \in Mode
  BY DEF Decide, IInv, Typed
<1>2. \/ job' = NoJob /\ f' = [NoFrame EXCEPT !.phase = "sent"]
      \/ /\ \E s \in Setting, asked \in {"SILK", "CELT"}, mode \in {"SILK", "HYBRID", "CELT"} :
              job' = Plan(s, asked, mode)
         /\ f' = [NoFrame EXCEPT !.phase = "begin"]
  BY DEF Decide, Modes
<1>3. CASE job' = NoJob /\ f' = [NoFrame EXCEPT !.phase = "sent"]
  <2>1. f'.phase = "sent" /\ f'.len = 0 /\ ~job'.c2s /\ job'.next > job'.frames
    BY <1>3 DEF NoFrame, NoJob
  <2>2. QED
    BY <1>1, <2>1 DEF SyncInv, Abreast, Switching, Predicted, Ready, Empty
<1>4. CASE /\ \E s \in Setting, asked \in {"SILK", "CELT"}, mode \in {"SILK", "HYBRID", "CELT"} :
                job' = Plan(s, asked, mode)
           /\ f' = [NoFrame EXCEPT !.phase = "begin"]
  <2>1. f'.phase = "begin"
    BY <1>4 DEF NoFrame
  <2>2. (job'.c2s => ~job'.toCelt) /\ (job'.c2s => enc.prev_mode = "CELT")
    <3>1. PICK s \in Setting, asked \in {"SILK", "CELT"}, mode \in {"SILK", "HYBRID", "CELT"} :
            job' = Plan(s, asked, mode)
      BY <1>4
    <3>2. /\ job'.c2s <=> Changes(asked) /\ Low(asked)
          /\ job'.toCelt <=> Delayed(s, asked)
      BY <3>1 DEF Plan
    <3>3. QED BY <1>1, <3>2 DEF Changes, Delayed, Low, Mode
  <2>3. QED
    BY <1>1, <2>1, <2>2 DEF SyncInv, Abreast, Together, Switching, Predicted, Ready
<1>5. QED BY <1>2, <1>3, <1>4

LEMMA CodeSilkSync == IInv /\ SyncInv /\ CodeSilk => SyncInv'
<1> SUFFICES ASSUME IInv, SyncInv, CodeSilk PROVE SyncInv'
  OBVIOUS
<1> DEFINE g == Started(CurrMax, FrameRed, job.c2s)
<1>1. /\ f.phase = "begin" /\ job' = job /\ dec' = dec /\ gaveUp' = gaveUp /\ Typed
      /\ enc'.prev_mode = enc.prev_mode /\ enc'.ref = enc.ref
  BY DEF CodeSilk, IInv, Typed
<1>2. f'.phase = "signal" /\ (f'.red /\ f'.c2s => g.red /\ g.c2s)
  <2>1. g \in Frames
    BY <1>1, StartedFacts
  <2> HIDE DEF g
  <2>2. CASE Low(job.mode)
    <3>1. PICK slack \in Slack, ready \in BOOLEAN : f' = AfterSilk(g, slack, ready)
      BY <2>2 DEF CodeSilk, g
    <3> DEFINE h == [g EXCEPT !.phase = "signal", !.tell0 = 8 * (g.max - 1) - slack,
                              !.tell = 8 * (g.max - 1) - slack]
    <3>2. h.phase = "signal" /\ h.red = g.red /\ h.c2s = g.c2s
      BY <2>1 DEF Frames
    <3>3. f' = IF ready THEN [h EXCEPT !.bytes = RedundancyBytes(g.max, job.rate, job.dur),
                                       !.red = RedundancyBytes(g.max, job.rate, job.dur) > 0,
                                       !.c2s = FALSE]
               ELSE h
      BY <3>1 DEF AfterSilk
    <3>4. f'.phase = h.phase /\ (f'.c2s => f'.red = h.red /\ f'.c2s = h.c2s)
      BY <3>3, <2>1 DEF Frames
    <3> HIDE DEF h
    <3>5. QED BY <3>2, <3>4
  <2>3. CASE ~Low(job.mode)
    <3>1. f' = [g EXCEPT !.phase = "signal", !.tell = 1]
      BY <2>3 DEF CodeSilk, g
    <3>2. QED BY <2>1, <3>1 DEF Frames
  <2>4. QED BY <2>2, <2>3
<1>3. enc'.silk_bw_switch => job.mode = "SILK"
  <2>1. CASE Low(job.mode)
    <3>1. PICK ready \in BOOLEAN : /\ ready => job.mode = "SILK"
                                   /\ enc' = [enc EXCEPT !.silk_bw_switch = ready]
      BY <2>1 DEF CodeSilk
    <3>2. QED BY <1>1, <3>1 DEF Typed
  <2>2. CASE ~Low(job.mode)
    BY <1>1, <2>2 DEF CodeSilk, Typed
  <2>3. QED BY <2>1, <2>2
<1>5. g.red /\ g.c2s => enc.prev_mode \in {"SILK", "CELT"}
  <2>1. g.c2s => job.c2s \/ enc.silk_bw_switch
    BY <1>1, StartedFacts
  <2>2. g.red => FrameRed \/ enc.silk_bw_switch
    <3>1. (g.red <=> g.bytes > 0) /\ (g.bytes # 0 => FrameRed \/ enc.silk_bw_switch)
      BY <1>1, StartedFacts
    <3> HIDE DEF g
    <3>2. QED BY <3>1
  <2> HIDE DEF g
  <2>3. enc.silk_bw_switch => enc.prev_mode \in {"SILK", "CELT"}
    BY <1>1 DEF SyncInv, Switching
  <2>4. FrameRed /\ job.c2s => enc.prev_mode = "CELT"
    BY <1>1 DEF SyncInv, Switching, FrameRed
  <2>5. QED BY <2>1, <2>2, <2>3, <2>4
<1>6. QED
  BY <1>1, <1>2, <1>3, <1>5
     DEF SyncInv, Abreast, Together, Switching, Predicted, Ready, Leads

LEMMA SignalSync == IInv /\ SyncInv /\ Signal => SyncInv'
<1> SUFFICES ASSUME IInv, SyncInv, Signal PROVE SyncInv'
  OBVIOUS
<1>1. /\ f.phase = "signal" /\ job' = job /\ dec' = dec /\ gaveUp' = gaveUp
      /\ Typed /\ f \in Frames /\ job.mode \in {"SILK", "HYBRID", "CELT"}
  BY DEF Signal, IInv, Typed, Making, Planned
<1>2. enc' = enc \/ enc' = [enc EXCEPT !.silk_bw_switch = FALSE]
  BY DEF Signal
<1>3. /\ enc'.prev_mode = enc.prev_mode /\ enc'.ref = enc.ref
      /\ enc'.silk_bw_switch => enc.silk_bw_switch
  BY <1>1, <1>2 DEF Typed
<1>4. f'.phase = "celt" /\ (f'.red /\ f'.c2s => f.red /\ f.c2s)
  <2>1. CASE f' = Plain(f, 0)
    <3>1. PICK zero \in Int : zero = 0
      OBVIOUS
    <3>2. f' = Plain(f, zero)
      BY <2>1, <3>1
    <3>3. QED BY <1>1, <3>2, PlainFields
  <2>2. CASE \E cost \in IF Hybrid THEN BitCosts(FALSE, 12) ELSE {0} :
               f' = [Plain(f, cost) EXCEPT !.wrote = Hybrid]
    <3>1. PICK cost \in IF Hybrid THEN BitCosts(FALSE, 12) ELSE {0} :
            f' = [Plain(f, cost) EXCEPT !.wrote = Hybrid]
      BY <2>2
    <3>2. cost \in Int
      BY DEF BitCosts
    <3>3. Plain(f, cost) \in Frames /\ Plain(f, cost).phase = "celt" /\ ~Plain(f, cost).red
      BY <1>1, <3>2, PlainFields
    <3> DEFINE h == Plain(f, cost)
    <3> HIDE DEF h
    <3>4. f' = [h EXCEPT !.wrote = Hybrid] /\ h \in Frames /\ h.phase = "celt" /\ ~h.red
      BY <3>1, <3>3 DEF h
    <3>5. f'.phase = h.phase /\ f'.red = h.red
      BY <3>4 DEF Frames
    <3>6. QED BY <3>4, <3>5
  <2>3. CASE f.red /\ Low(job.mode)
             /\ \E cost \in BitCosts(f.c2s, 1) :
                \E tell \in {f.tell + Flag(Hybrid, 12) + cost} :
                \E n \in {Clipped(f.bytes, f.max, tell, Hybrid)} :
                \E size \in IF Hybrid THEN ByteCosts(n - 2) ELSE {0} :
                  f' = Measured([f EXCEPT !.wrote = TRUE, !.bytes = n, !.tell = tell + size])
    <3>1. PICK n, tell : f' = Measured([f EXCEPT !.wrote = TRUE, !.bytes = n, !.tell = tell])
      BY <2>3
    <3>2. f'.phase = "celt" /\ f'.c2s = f.c2s
      BY <1>1, <3>1 DEF Measured, Frames
    <3>3. QED BY <2>3, <3>2
  <2>4. QED BY <2>1, <2>2, <2>3 DEF Signal
<1>5. QED
  BY <1>1, <1>3, <1>4 DEF SyncInv, Abreast, Together, Switching, Predicted, Ready, Leads

LEMMA LeadSync == IInv /\ SyncInv /\ Lead => SyncInv'
<1> SUFFICES ASSUME IInv, SyncInv, Lead PROVE SyncInv'
  OBVIOUS
<1>1. /\ f.phase = "celt" /\ job' = job /\ dec' = dec /\ gaveUp' = gaveUp
      /\ Typed /\ f \in Frames
  BY DEF Lead, IInv, Typed
<1> DEFINE e == Predicting(enc)
<1>2. /\ e.prev_mode = enc.prev_mode /\ e.ref = enc.ref /\ e.silk_bw_switch = enc.silk_bw_switch
      /\ e \in [prev_mode : Mode, silk_bw_switch : BOOLEAN, pred : BOOLEAN, ref : Part]
  BY <1>1 DEF Predicting, Typed
<1>3. PICK intra \in IF LeadCodes THEN Choices(e) ELSE {TRUE} :
        /\ f' = [f EXCEPT !.phase = "main", !.lead = IF LeadCodes THEN Coded(e, intra) ELSE @]
        /\ enc' = AfterLead(e)
  BY DEF Lead
<1> HIDE DEF e
<1>4. /\ f'.phase = "main" /\ f'.red = f.red /\ f'.c2s = f.c2s
      /\ Leads => f'.lead \in {"intra", enc.ref}
  BY <1>1, <1>2, <1>3 DEF Coded, LeadCodes, Leads, Frames
<1>5. /\ enc'.prev_mode = enc.prev_mode /\ enc'.silk_bw_switch = enc.silk_bw_switch
      /\ ~Leads => enc'.ref = enc.ref
  BY <1>2, <1>3 DEF AfterLead, LeadCodes, Leads
<1>6. Leads' <=> Leads
  BY <1>4 DEF Leads
<1>7. ~gaveUp => Together
  BY <1>1 DEF SyncInv, Abreast
<1>8. ~gaveUp' => LeadFits'
  BY <1>1, <1>4, <1>6, <1>7 DEF LeadFits, Together, Dec!HearsRedundant
<1>9. QED
  BY <1>1, <1>4, <1>5, <1>6, <1>7, <1>8
     DEF SyncInv, Abreast, Together, Switching, Predicted, Ready

LEMMA MainSync == IInv /\ SyncInv /\ Main => SyncInv'
<1> SUFFICES ASSUME IInv, SyncInv, Main PROVE SyncInv'
  OBVIOUS
<1>1. /\ f.phase = "main" /\ job' = job /\ dec' = dec /\ gaveUp' = gaveUp
      /\ Typed /\ f \in Frames /\ job.mode \in {"SILK", "HYBRID", "CELT"}
      /\ ~Low(job.mode) => ~f.red
  BY ZenonT(40) DEF Main, IInv, Typed, Making, Planned, Roomy
<1>2. PICK e \in {MainReady(enc)} :
        IF MainCodes
        THEN \E size \in Sizes, cramped \in {FALSE, Cramped} :
             \E intra \in IF cramped THEN {FALSE} ELSE Choices(e) :
               /\ f' = [f EXCEPT !.phase = "tail", !.main = Coded(e, intra),
                                 !.ret = size, !.cramped = cramped]
               /\ enc' = [e EXCEPT !.ref = "main"]
        ELSE /\ f' = [f EXCEPT !.phase = "tail"]
             /\ enc' = e
  BY Zenon DEF Main
<1> DEFINE starts == job.mode # "SILK" /\ job.mode # enc.prev_mode /\ enc.prev_mode # "none"
<1>3. /\ e \in [prev_mode : Mode, silk_bw_switch : BOOLEAN, pred : BOOLEAN, ref : Part]
      /\ e.prev_mode = enc.prev_mode /\ e.silk_bw_switch = enc.silk_bw_switch
      /\ starts => ~e.pred
      /\ ~starts => e = enc
  BY <1>1, <1>2 DEF MainReady, Prefilled, Typed, Part
<1>4. /\ f'.phase = "tail" /\ f'.red = f.red /\ f'.c2s = f.c2s /\ f'.lead = f.lead
      /\ f'.tell = f.tell /\ f'.nb = f.nb
      /\ enc'.prev_mode = enc.prev_mode /\ enc'.silk_bw_switch = enc.silk_bw_switch
      /\ MainCodes /\ ~f'.cramped => f'.main \in {"intra", e.ref} /\ (~e.pred => f'.main = "intra")
      /\ MainCodes => enc'.ref = "main"
  <2>1. CASE MainCodes
    <3>1. PICK size \in Sizes, cramped \in {FALSE, Cramped} :
            \E intra \in IF cramped THEN {FALSE} ELSE Choices(e) :
              /\ f' = [f EXCEPT !.phase = "tail", !.main = Coded(e, intra),
                                !.ret = size, !.cramped = cramped]
              /\ enc' = [e EXCEPT !.ref = "main"]
      BY <1>2, <2>1, Zenon
    <3>2. PICK intra \in IF cramped THEN {FALSE} ELSE Choices(e) :
              /\ f' = [f EXCEPT !.phase = "tail", !.main = Coded(e, intra),
                                !.ret = size, !.cramped = cramped]
              /\ enc' = [e EXCEPT !.ref = "main"]
      BY <3>1
    <3>3. cramped \in BOOLEAN
      <4>1. Cramped \in BOOLEAN
        BY DEF Cramped
      <4>2. QED BY <4>1, Zenon
    <3>4. PICK main : main = Coded(e, intra)
      OBVIOUS
    <3>5. /\ main \in {"intra", e.ref}
          /\ ~cramped /\ ~e.pred => main = "intra"
      BY <3>4 DEF Coded, Choices
    <3>6. /\ f' = [f EXCEPT !.phase = "tail", !.main = main, !.ret = size, !.cramped = cramped]
          /\ enc' = [e EXCEPT !.ref = "main"]
      BY <3>2, <3>4
    <3>7. f'.cramped = cramped /\ f'.main = main
      BY <1>1, <3>6 DEF Frames
    <3>8. QED BY <1>1, <1>3, <3>3, <3>5, <3>6, <3>7 DEF Frames
  <2>2. CASE ~MainCodes
    BY <1>1, <1>2, <1>3, <2>2 DEF Frames
  <2>3. QED BY <2>1, <2>2
<1>5. (Leads' <=> Leads) /\ (Trails' <=> Trails) /\ (MainCodes' <=> MainCodes)
  BY <1>1, <1>4 DEF Leads, Trails, MainCodes
<1>6. ~gaveUp => LeadFits'
  BY <1>1, <1>4, <1>5 DEF SyncInv, Predicted, LeadFits
<1>7. ASSUME ~gaveUp, MainCodes, ~f'.cramped PROVE MainFits'
  <2>1. CASE starts
    BY <1>3, <1>4, <1>7, <2>1 DEF MainFits
  <2>2. CASE ~starts
    <3>1. ~Leads
      BY <1>1, <1>7, <2>2 DEF SyncInv, Switching, Leads, MainCodes, Low
    <3>2. Together
      BY <1>1, <1>7, <3>1 DEF SyncInv, Abreast
    <3>3. f'.main \in {"intra", enc.ref}
      BY <1>3, <1>4, <1>7, <2>2
    <3>4. QED
      BY <1>1, <1>5, <1>7, <2>2, <3>1, <3>2, <3>3
         DEF MainFits, Together, MainCodes, Dec!DiscardsCelt, Dec!Switches
  <2>3. QED BY <2>1, <2>2
<1>8. QED
  BY <1>1, <1>4, <1>5, <1>6, <1>7 DEF SyncInv, Abreast, Switching, Predicted, Ready

LEMMA TailSync == IInv /\ SyncInv /\ Tail => SyncInv'
<1> SUFFICES ASSUME IInv, SyncInv, Tail PROVE SyncInv'
  OBVIOUS
<1>1. /\ f.phase = "tail" /\ job' = job /\ dec' = dec /\ gaveUp' = gaveUp
      /\ Typed /\ f \in Frames
  BY DEF Tail, IInv, Typed
<1>2. /\ f'.phase = "close" /\ f'.red = f.red /\ f'.c2s = f.c2s /\ f'.lead = f.lead
      /\ f'.main = f.main /\ f'.tell = f.tell /\ f'.nb = f.nb /\ f'.cramped = f.cramped
      /\ enc'.prev_mode = enc.prev_mode /\ enc'.silk_bw_switch = enc.silk_bw_switch
      /\ Trails => f'.tail = "intra" /\ enc'.ref = "tail"
      /\ ~Trails => enc' = enc
  <2>1. CASE Trails
    <3>1. PICK intra \in Choices(Prefilled(enc)) :
            /\ f' = [f EXCEPT !.phase = "close", !.tail = Coded(Prefilled(enc), intra)]
            /\ enc' = [Prefilled(enc) EXCEPT !.ref = "tail"]
      BY <2>1 DEF Tail, Trails
    <3>2. ~Prefilled(enc).pred
      BY <1>1 DEF Prefilled, Typed
    <3>3. Coded(Prefilled(enc), intra) = "intra"
      BY <3>2 DEF Coded, Choices
    <3>4. f' = [f EXCEPT !.phase = "close", !.tail = "intra"]
      BY <3>1, <3>3
    <3>5. QED BY <1>1, <2>1, <3>1, <3>4 DEF Prefilled, Typed, Frames
  <2>2. CASE ~Trails
    BY <1>1, <2>2 DEF Tail, Trails, Frames
  <2>3. QED BY <2>1, <2>2
<1>3. (Leads' <=> Leads) /\ (Trails' <=> Trails) /\ (MainCodes' <=> MainCodes)
  BY <1>1, <1>2 DEF Leads, Trails, MainCodes
<1>4. ~gaveUp => LeadFits'
  BY <1>1, <1>2, <1>3 DEF SyncInv, Predicted, LeadFits
<1>5. ~gaveUp /\ MainCodes /\ ~f.cramped => MainFits' /\ (Trails \/ enc'.ref = "main")
  BY <1>1, <1>2, <1>3 DEF SyncInv, Predicted, MainFits
<1>6. QED
  BY <1>1, <1>2, <1>3, <1>4, <1>5 DEF SyncInv, Abreast, Switching, Predicted, Ready

LEMMA CloseSync == IInv /\ SyncInv /\ Close => SyncInv'
<1> SUFFICES ASSUME IInv, SyncInv, Close PROVE SyncInv'
  OBVIOUS
<1>1. /\ f.phase = "close" /\ dec' = dec /\ Typed /\ f \in Frames
      /\ job \in Packets /\ job.next \in Int /\ job.next >= 1
      /\ job.mode \in {"SILK", "HYBRID", "CELT"}
      /\ ~f.red => f.bytes = 0
      /\ ~Low(job.mode) => ~f.red
  BY DEF Close, IInv, Typed, Making, Planned, Roomy
<1>2. PICK n \in IF Busted THEN {1} ELSE Lengths : \E total \in {1 + n + f.bytes} :
        /\ f' = [f EXCEPT !.phase = "sent", !.len = n + f.bytes,
                          !.error = (Busted /\ f.max < 2) \/ (~job.vbr /\ total > f.orig)]
        /\ job' = [job EXCEPT !.next = @ + 1, !.total = @ + IF job.vbr THEN total ELSE f.orig]
  BY Zenon DEF Close
<1>3. /\ f'.phase = "sent" /\ f'.red = f.red /\ f'.c2s = f.c2s /\ f'.lead = f.lead
      /\ f'.main = f.main /\ f'.tail = f.tail /\ f'.len = n + f.bytes
      /\ job'.mode = job.mode /\ job'.c2s = job.c2s /\ job'.toCelt = job.toCelt
      /\ job'.next = job.next + 1
  BY <1>1, <1>2 DEF Frames, Packets
<1>4. /\ enc'.prev_mode = (IF job.toCelt /\ LastFrame THEN "CELT" ELSE job.mode)
      /\ enc'.ref = enc.ref /\ enc'.silk_bw_switch = enc.silk_bw_switch
  BY <1>1 DEF Close, Typed
<1>5. gaveUp' <=> gaveUp \/ (job.toCelt /\ LastFrame /\ ~Trails) \/ f.cramped
  <2>1. gaveUp' = (gaveUp \/ (job.toCelt /\ LastFrame /\ (~f.red \/ f.c2s)) \/ f.cramped)
    BY DEF Close
  <2>2. QED BY <2>1, Zenon DEF Trails
<1>6. (Leads' <=> Leads) /\ (Trails' <=> Trails)
  BY <1>3 DEF Leads, Trails
(* CELT left out of its own frame: that one is sent as lost.               *)
<1>7. ~Empty' /\ job.mode # "SILK" => MainCodes
  <2> SUFFICES ASSUME ~Empty', job.mode # "SILK", ~MainCodes PROVE FALSE
    OBVIOUS
  <2>1. f.tell > 8 * f.nb /\ f.nb = f.max - 1 - f.bytes
    BY <1>1 DEF MainCodes, IInv, Signalled, Frames
  <2>2. ~f.red
    BY <1>1, <2>1 DEF IInv, Signalled, Hybrid, Low, Frames
  <2>3. Busted /\ f.bytes = 0
    BY <1>1, <2>1, <2>2 DEF Busted, Frames
  <2>4. n = 1
    BY <2>3
  <2>5. QED BY <1>3, <2>3, <2>4 DEF Empty
<1>8. ASSUME ~gaveUp', ~Empty'
      PROVE  /\ LeadFits' /\ MainFits'
             /\ Trails => f'.tail = "intra" /\ enc'.ref = "tail"
             /\ ~Trails /\ job.mode # "SILK" => enc'.ref = "main"
             /\ enc'.prev_mode = job.mode \/ (enc'.prev_mode = "CELT" /\ Trails)
  <2>1. /\ ~gaveUp /\ ~f.cramped /\ (job.toCelt /\ LastFrame => Trails)
        /\ LeadFits /\ (MainCodes => MainFits /\ (Trails \/ enc.ref = "main"))
        /\ Trails => f.tail = "intra" /\ enc.ref = "tail"
    BY <1>1, <1>5, <1>8 DEF SyncInv, Predicted
  <2>2. LeadFits'
    BY <1>1, <1>3, <1>6, <2>1 DEF LeadFits
  <2>3. MainFits'
    BY <1>1, <1>3, <1>6, <1>7, <1>8, <2>1 DEF MainFits
  <2>4. QED BY <1>3, <1>4, <1>7, <1>8, <2>1, <2>2, <2>3
<1>9. /\ enc'.silk_bw_switch => enc'.prev_mode \in {"SILK", "CELT"}
      /\ job'.c2s => ~job'.toCelt
      /\ job'.next > 1
      /\ Low(job'.mode) \/ ~f'.red
  BY <1>1, <1>3, <1>4 DEF SyncInv, Switching, Low
<1>10. QED
  BY <1>3, <1>6, <1>8, <1>9 DEF SyncInv, Abreast, Switching, Predicted, Ready

(* A frame both sides agree on is heard from the right energies, and the   *)
(* decoder ends up where the encoder is.                                   *)
LEMMA HeardReady ==
  ASSUME IInv, f.phase = "sent", ~f.error, ~Empty, job.mode \in {"SILK", "HYBRID", "CELT"},
         LeadFits, MainFits, Trails => f.tail = "intra", Low(job.mode) \/ ~f.red
  PROVE  /\ Heard.sound /\ Heard.prev_mode = job.mode
         /\ Heard.prev_redundancy <=> Trails
         /\ Trails => Heard.ref = "tail"
         /\ ~Trails /\ job.mode # "SILK" => Heard.ref = "main"
<1> DEFINE s == [prev_mode |-> dec.prev_mode, prev_redundancy |-> dec.prev_redundancy,
                 ref |-> dec.ref, sound |-> TRUE]
           red == Kind(Found)
           b == Bridged(s, job.mode, red)
           l == Led(b, red)
           p == Played(l, job.mode, red)
<1>1. s \in Decoders /\ job.mode \in Mode /\ Typed /\ f \in Frames
  BY DEF IInv, Typed, Decoders, Packets
<1>2. /\ red \in {"no", "c2s", "s2c"}
      /\ (red = "c2s" <=> Leads) /\ (red = "s2c" <=> Trails)
  <2>1. Found = Sent
    BY DEF IInv, LayoutAgrees
  <2>2. (Sent.red <=> f.red) /\ (Sent.c2s <=> f.red /\ f.c2s)
    <3>1. Sent.red = f.red /\ Sent.c2s = (f.red /\ f.c2s)
      BY DEF Sent, Layout
    <3>2. QED BY <3>1, Zenon
  <2>3. QED BY <2>1, <2>2 DEF Kind, Leads, Trails
<1>3. Heard = Ended(p, job.mode, red)
  BY DEF Heard
<1>4. /\ (Dec!Switches(s, job.mode) <=> Dec!Switches(dec, job.mode))
      /\ (Dec!HearsRedundant(s) <=> Dec!HearsRedundant(dec))
      /\ s.sound /\ s.ref = dec.ref
      /\ s.prev_mode = dec.prev_mode /\ s.prev_redundancy = dec.prev_redundancy
  BY DEF Dec!Switches, Dec!HearsRedundant
<1> HIDE DEF s, red
<1>5. /\ b \in Decoders /\ b.sound
      /\ Leads \/ ~Dec!Switches(dec, job.mode) => b = s
  <2>1. Dec!PlcMode(s) \in Mode
    <3>1. \A d \in Decoders : Dec!PlcMode(d) \in Mode
      BY DEF Dec!PlcMode, Decoders, Mode
    <3>2. QED BY <1>1, <3>1
  <2>2. Concealed(s, Dec!PlcMode(s)) \in Decoders /\ Concealed(s, Dec!PlcMode(s)).sound
    BY ZenonT(40), <1>1, <1>4, <2>1, ConcealedTyped DEF Concealed, Decoders
  <2>3. Leads => red # "no" /\ Low(job.mode)
    BY <1>2 DEF Leads
  <2>4. QED BY <1>1, <1>4, <2>2, <2>3 DEF Bridged
<1> HIDE DEF b
<1>6. /\ l \in Decoders /\ l.sound
      /\ ~Leads => l = b
  <2>1. CASE Leads
    <3>1. l = Take(b, f.lead, "lead", Dec!HearsRedundant(b))
      BY <1>2, <2>1 DEF Led
    <3>2. Dec!HearsRedundant(b) \in BOOLEAN
      BY <1>5 DEF Dec!HearsRedundant, Decoders
    <3>3. l \in Decoders
      BY <1>5, <3>1, <3>2, TakeTyped DEF Part
    <3>4. Dec!HearsRedundant(b) => Fits(b, f.lead)
      BY <1>4, <1>5, <2>1 DEF LeadFits, Fits
    <3>5. PICK sound \in BOOLEAN : sound <=> (b.sound /\ (Dec!HearsRedundant(b) => Fits(b, f.lead)))
      OBVIOUS
    <3>6. sound = (b.sound /\ (Dec!HearsRedundant(b) => Fits(b, f.lead)))
      BY <3>5
    <3>7. l = [b EXCEPT !.ref = IF Fits(b, f.lead) THEN "lead" ELSE "other", !.sound = sound]
      BY <3>1, <3>6 DEF Take
    <3>8. l.sound = sound
      BY <1>5, <3>7 DEF Decoders
    <3>9. QED BY <1>5, <2>1, <3>3, <3>4, <3>5, <3>8
  <2>2. CASE ~Leads
    BY <1>2, <1>5, <2>2 DEF Led
  <2>3. QED BY <2>1, <2>2
<1> HIDE DEF l
<1>7. p \in Decoders /\ p.sound /\ (job.mode # "SILK" => p.ref = "main")
  <2>1. CASE job.mode = "SILK"
    BY <1>6, <2>1 DEF Played, Decoders, Part
  <2>2. CASE job.mode # "SILK"
    <3> DEFINE d == IF Dec!DiscardsCelt(l, job.mode) THEN [l EXCEPT !.ref = "fresh"] ELSE l
    <3>1. d \in Decoders /\ d.sound
      BY <1>6 DEF Decoders, Part
    <3>2. Fits(d, f.main)
      <4>1. CASE f.main = "intra"
        BY <4>1 DEF Fits
      <4>2. CASE f.main # "intra"
        <5>1. /\ f.main = dec.ref /\ ~Leads
              /\ ~Dec!DiscardsCelt(dec, job.mode) /\ ~Dec!Switches(dec, job.mode)
          BY <2>2, <4>2 DEF MainFits
        <5>2. l = s
          BY <1>5, <1>6, <5>1
        <5>3. ~Dec!DiscardsCelt(l, job.mode)
          BY <1>4, <5>1, <5>2 DEF Dec!DiscardsCelt
        <5>4. QED BY <1>4, <5>1, <5>2, <5>3 DEF Fits
      <4>3. QED BY <4>1, <4>2
    <3>3. p = Take(d, f.main, "main", TRUE)
      BY <2>2 DEF Played
    <3> HIDE DEF d
    <3>4. p = [d EXCEPT !.ref = "main", !.sound = TRUE]
      BY <3>1, <3>2, <3>3 DEF Take
    <3>5. QED BY <3>1, <3>4 DEF Decoders, Part
  <2>3. QED BY <2>1, <2>2
<1> HIDE DEF p
<1> DEFINE t == IF red = "s2c" THEN Take([p EXCEPT !.ref = "fresh"], f.tail, "tail", TRUE) ELSE p
<1>8. /\ t \in Decoders /\ t.sound
      /\ Trails => t.ref = "tail"
      /\ ~Trails /\ job.mode # "SILK" => t.ref = "main"
  <2>1. CASE Trails
    <3> DEFINE q == [p EXCEPT !.ref = "fresh"]
    <3>1. q \in Decoders /\ q.sound
      BY <1>7 DEF Decoders, Part
    <3>2. t = Take(q, "intra", "tail", TRUE)
      BY <1>2, <2>1
    <3> HIDE DEF q, t
    <3>3. t = [q EXCEPT !.ref = "tail", !.sound = TRUE]
      BY <3>1, <3>2 DEF Take, Fits
    <3>4. QED BY <2>1, <3>1, <3>3 DEF Decoders, Part
  <2>2. CASE ~Trails
    BY <1>2, <1>7, <2>2
  <2>3. QED BY <2>1, <2>2
<1>9. PICK r \in BOOLEAN : r <=> red = "s2c"
  OBVIOUS
<1>10. Ended(p, job.mode, red) = [t EXCEPT !.prev_mode = job.mode, !.prev_redundancy = r]
  <2>1. r = (red = "s2c")
    BY <1>9
  <2>2. QED BY <2>1 DEF Ended
<1> HIDE DEF t
<1>11. /\ Heard.sound = t.sound /\ Heard.prev_mode = job.mode
       /\ Heard.prev_redundancy = r /\ Heard.ref = t.ref
  BY <1>3, <1>8, <1>10 DEF Decoders
<1>12. QED BY <1>2, <1>8, <1>9, <1>11

LEMMA DecodeSync == IInv /\ SyncInv /\ Decode => SyncInv'
<1> SUFFICES ASSUME IInv, SyncInv, Decode PROVE SyncInv'
  OBVIOUS
<1>1. /\ f.phase = "sent" /\ ~f.error /\ Typed
      /\ f' = [NoFrame EXCEPT !.phase = IF job.next <= job.frames THEN "begin" ELSE "idle"]
      /\ job' = IF job.next <= job.frames THEN job ELSE NoJob
  BY DEF Decode, IInv
<1>2. /\ dec' = [prev_mode |-> Heard.prev_mode, prev_redundancy |-> Heard.prev_redundancy,
                 ref |-> IF Heard.ref = "fresh" \/ Heard.ref = enc.ref
                         THEN Settled(Heard.ref) ELSE "other"]
      /\ enc' = [enc EXCEPT !.ref = Settled(@)]
      /\ gaveUp' = ((gaveUp \/ Empty) /\ ~InStep(enc', dec'))
  BY DEF Decode
<1>3. /\ enc'.prev_mode = enc.prev_mode /\ enc'.silk_bw_switch = enc.silk_bw_switch
      /\ enc'.ref = Settled(enc.ref)
  BY <1>1, <1>2 DEF Typed
<1>4. /\ dec'.prev_mode = Heard.prev_mode /\ dec'.prev_redundancy = Heard.prev_redundancy
      /\ Heard.ref = enc.ref => dec'.ref = Settled(enc.ref)
  BY <1>2
<1>5. ~gaveUp' <=> ~(gaveUp \/ Empty) \/ InStep(enc', dec')
  BY <1>2, Zenon
<1>6. ASSUME ~gaveUp' PROVE Together'
  <2>1. CASE InStep(enc', dec')
    BY <2>1 DEF InStep, Together
  <2>2. CASE ~gaveUp /\ ~Empty
    <3>1. /\ LeadFits /\ MainFits /\ (Low(job.mode) \/ ~f.red)
          /\ Trails => f.tail = "intra" /\ enc.ref = "tail"
          /\ ~Trails /\ job.mode # "SILK" => enc.ref = "main"
          /\ enc.prev_mode = job.mode \/ (enc.prev_mode = "CELT" /\ Trails)
      BY <1>1, <2>2 DEF SyncInv, Ready
    <3>2. job.mode \in {"SILK", "HYBRID", "CELT"}
      BY <1>1, <2>2 DEF IInv, NothingSent, Empty, Planned
    <3>3. /\ Heard.prev_mode = job.mode
          /\ Heard.prev_redundancy <=> Trails
          /\ Trails => Heard.ref = "tail"
          /\ ~Trails /\ job.mode # "SILK" => Heard.ref = "main"
      BY <1>1, <2>2, <3>1, <3>2, HeardReady
    <3>4. dec'.prev_redundancy <=> Trails
      BY <1>4, <3>3
    <3>5. Trails \/ enc.prev_mode # "SILK" => dec'.ref = enc'.ref
      BY <1>3, <1>4, <3>1, <3>3
    <3>6. QED BY <1>3, <1>4, <3>1, <3>3, <3>4, <3>5 DEF Together
  <2>3. QED BY <1>5, <1>6, <2>1, <2>2
<1>7. /\ f'.phase \in {"idle", "begin"}
      /\ f'.phase = "begin" => job' = job /\ job.next <= job.frames
      /\ f'.phase = "idle" => ~job'.c2s
      /\ job'.c2s => job' = job
  BY <1>1 DEF NoFrame, NoJob
<1>8. Switching'
  <2>1. job.next \in Int /\ job.frames \in Int
    BY <1>1 DEF Typed, Packets
  <2>2. job'.c2s => job.c2s /\ f'.phase = "begin" /\ job.next > 1 /\ job'.next = job.next
                   /\ job'.toCelt = job.toCelt
    BY <1>1, <1>7, <2>1 DEF SyncInv, Switching
  <2>3. QED BY <1>1, <1>3, <1>7, <2>1, <2>2 DEF SyncInv, Switching
<1>9. QED
  BY <1>6, <1>7, <1>8 DEF SyncInv, Abreast, Predicted, Ready

LEMMA SyncStep == IInv /\ SyncInv /\ [Next]_vars => SyncInv'
<1> SUFFICES ASSUME IInv, SyncInv, [Next]_vars PROVE SyncInv'
  OBVIOUS
<1>1. CASE UNCHANGED vars
  <2>1. (Leads' <=> Leads) /\ (Trails' <=> Trails) /\ (MainCodes' <=> MainCodes) /\ (Empty' <=> Empty)
    BY <1>1 DEF vars, Leads, Trails, MainCodes, Empty
  <2>2. (LeadFits' <=> LeadFits) /\ (MainFits' <=> MainFits) /\ (Together' <=> Together)
    BY <1>1, <2>1 DEF vars, LeadFits, MainFits, Together,
                      Dec!HearsRedundant, Dec!DiscardsCelt, Dec!Switches
  <2>3. Abreast' /\ Switching'
    BY <1>1, <2>1, <2>2 DEF vars, SyncInv, Abreast, Switching
  <2>4. Predicted' /\ Ready'
    BY <1>1, <2>1, <2>2 DEF vars, SyncInv, Predicted, Ready
  <2>5. QED BY <2>3, <2>4 DEF SyncInv
<1>2. QED
  BY <1>1, DecideSync, CodeSilkSync, SignalSync, LeadSync, MainSync, TailSync, CloseSync,
     DecodeSync DEF Next

(* Unless the history variable says why not, no CELT frame is heard that   *)
(* was decoded from energies other than those it was predicted from: for   *)
(* every sequence of modes, switches, rates and frame sizes.               *)
THEOREM CeltInStep == Spec => []CeltInSync
<1>1. IInv /\ SyncInv => CeltInSync
  <2> SUFFICES ASSUME IInv, SyncInv, f.phase = "sent", ~f.error, ~gaveUp PROVE Heard.sound
    BY DEF CeltInSync
  <2>1. CASE Empty
    <3> DEFINE s == [prev_mode |-> dec.prev_mode, prev_redundancy |-> dec.prev_redundancy,
                     ref |-> dec.ref, sound |-> TRUE]
    <3>1. s \in Decoders /\ s.sound
      BY DEF IInv, Typed, Decoders
    <3>2. Heard = Concealed(s, Dec!PlcMode(s))
      BY <2>1 DEF Heard
    <3> HIDE DEF s
    <3>3. QED BY <3>1, <3>2 DEF Concealed, Decoders
  <2>2. CASE ~Empty
    <3>1. /\ LeadFits /\ MainFits /\ (Low(job.mode) \/ ~f.red)
          /\ Trails => f.tail = "intra"
      BY <2>2 DEF SyncInv, Ready
    <3>2. job.mode \in {"SILK", "HYBRID", "CELT"}
      BY <2>2 DEF IInv, NothingSent, Empty, Planned
    <3>3. QED BY <2>2, <3>1, <3>2, HeardReady
  <2>3. QED BY <2>1, <2>2
<1>2. IInv /\ SyncInv /\ [Next]_vars => (IInv /\ SyncInv)'
  BY StepInv, SyncStep
<1>3. QED BY <1>1, <1>2, InitInv, InitSync, PTL DEF Spec
=============================================================================
