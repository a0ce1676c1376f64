---------------------------- MODULE OpusEncoder ----------------------------
(***************************************************************************)
(* The frames of the Opus encoder behind opus.Encoder (opusccenc:          *)
(* opus_encode_native and opus_encode_frame_native) and what the decoder   *)
(* (opuscc: opusDecodeFrame) takes them for.                               *)
(*                                                                         *)
(* A frame is SILK's bits, CELT's bits or both, and possibly a redundant   *)
(* CELT frame of 5 ms that hides a switch.  No length is sent: where each  *)
(* part lies follows from how many bits were read so far and how long the  *)
(* frame is, so encoder and decoder must do the same sums.  CELT also      *)
(* predicts each frame's energies from the frame before, unless it codes   *)
(* them intra, so both must hold the same one.                             *)
(*                                                                         *)
(* Left out: the signal, bandwidth, what opus.Encoder never turns on (DTX, *)
(* in-band FEC, forced modes), and the application RESTRICTED_SILK, which  *)
(* sends no redundant frames.  Low delay is the case of CELT asked always. *)
(***************************************************************************)
EXTENDS Integers

CONSTANTS
  Setting,     \* what calls ask: [rate, room, vbr, dur], dur in 2.5 ms
  Channels,    \* channels in the stream
  Slack,       \* bits SILK leaves of a frame's room; negative: it bust it
  MinSilkBits  \* SILK never takes less

ASSUME EncoderAssumption ==
  /\ Channels \in {1, 2}
  /\ MinSilkBits \in Nat /\ MinSilkBits > 8
  /\ Slack \subseteq Int
  /\ Setting \subseteq [rate : Nat \ {0}, room : Nat \ {0}, vbr : BOOLEAN,
                        dur : {1, 2, 4, 8, 16, 24, 32, 40, 48}]

VARIABLES
  enc,    \* encoder: prev_mode, silk_bw_switch, pred and ref of CELT
  dec,    \* decoder: prev_mode, prev_redundancy and ref of CELT
  job,    \* the packet being coded
  f,      \* the frame being coded
  gaveUp  \* history: a frame the decoder needs was left out, and the two
          \* have not been in step since

vars == <<enc, dec, job, f, gaveUp>>

(* What a CELT codec predicts from: nothing ("fresh"), a frame the decoder *)
(* never sees ("prefill"), a part of this frame ("lead", "main", "tail"),  *)
(* the last one coded before it ("last"), or none the encoder has ("other"). *)
Dec == INSTANCE OpusDecoder WITH
         st <- dec, Caller <- {}, NoCaller <- "nobody", Packet <- {},
         NoPacket <- "loss", AskedSize <- {}, F2_5 <- 1, closed <- FALSE,
         holder <- "nobody", pc <- <<>>, call <- <<>>, lastRet <- 0

Least(a, b) == IF a < b THEN a ELSE b
Most(a, b)  == IF a < b THEN b ELSE a
Bytes(bits) == (bits + 7) \div 8
Low(mode)   == mode # "CELT"                   \* SILK codes the low bands
Flag(b, n)  == IF b THEN n ELSE 0
-----------------------------------------------------------------------------
(***************************************************************************)
(* Rates.                                                                  *)
(***************************************************************************)
FrameRate(dur)    == 400 \div dur
BitsOf(rate, dur) == (rate * 6) \div (2400 \div dur)
RateOf(bits, dur) == (bits * (2400 \div dur)) \div 6

UserRate(s) == Least(s.rate, RateOf(8 * s.room, s.dur))
CbrBytes(s) == Least((BitsOf(UserRate(s), s.dur) + 4) \div 8, s.room)

Rate(s)     == IF s.vbr THEN UserRate(s) ELSE RateOf(8 * CbrBytes(s), s.dur)
MaxBytes(s) == IF s.vbr THEN s.room ELSE Most(1, CbrBytes(s))

\* Too little for anything but a packet that says "conceal".
Starved(s) ==
  \/ MaxBytes(s) < 3 \/ Rate(s) < 24 * FrameRate(s.dur)
  \/ /\ FrameRate(s.dur) < 50
     /\ MaxBytes(s) * FrameRate(s.dur) < 300 \/ Rate(s) < 2400

\* compute_redundancy_bytes: 0 if a redundant frame is not worth it.
RedundancyBytes(max, rate, dur) ==
  LET base == 40 * Channels + 20
      cap  == (((8 * max - 2 * base) * 240) \div (240 + 48000 \div FrameRate(dur)) + base) \div 8
      n    == Least(((3 * (rate + base * (200 - FrameRate(dur)))) \div 2) \div 1600, cap)
  IN  IF n > 4 + 8 * Channels THEN Least(257, n) ELSE 0
-----------------------------------------------------------------------------
(***************************************************************************)
(* opus_encode_native: the mode of a packet, and its frames.               *)
(***************************************************************************)
NoJob == [mode |-> "none", toCelt |-> FALSE, red |-> FALSE, c2s |-> FALSE,
          vbr |-> FALSE, rate |-> 0, dur |-> 0, next |-> 1, frames |-> 0,
          sum |-> 0, total |-> 0]

NoFrame == [phase |-> "idle", orig |-> 0, max |-> 0, red |-> FALSE, c2s |-> FALSE,
            bytes |-> 0, tell0 |-> 0, tell |-> 0, wrote |-> FALSE, nb |-> 0, ret |-> 0,
            lead |-> "none", main |-> "none", tail |-> "none", cramped |-> FALSE,
            len |-> 0, error |-> FALSE]

Init ==
  /\ enc = [prev_mode |-> "none", silk_bw_switch |-> FALSE, pred |-> TRUE, ref |-> "fresh"]
  /\ dec = [prev_mode |-> "none", prev_redundancy |-> FALSE, ref |-> "fresh"]
  /\ job = NoJob
  /\ f = NoFrame
  /\ gaveUp = FALSE

Changes(mode) == enc.prev_mode # "none" /\ Low(mode) # Low(enc.prev_mode)

\* A switch to CELT waits for the end of this packet, unless it is too short
\* for SILK.
Delayed(s, mode) == ~Low(mode) /\ Changes(mode) /\ s.dur >= 4

\* Modes the packet can get when mode was asked for.
Modes(s, mode) ==
  LET wide == RateOf(8 * MaxBytes(s), s.dur) >= 15000
  IN  IF Low(mode) \/ Delayed(s, mode)
      THEN {"SILK"} \cup (IF wide THEN {"HYBRID"} ELSE {}) ELSE {"CELT"}

\* SILK needs 10 ms and more than 6 kb/s (9 kb/s for short frames).
CanBeLow(s) ==
  /\ s.dur >= 4
  /\ MaxBytes(s) >= BitsOf(IF FrameRate(s.dur) > 50 THEN 9000 ELSE 6000, s.dur) \div 8

\* Long packets hold several frames.
FrameDur(s, mode) ==
  CASE s.dur <= 24 /\ mode = "SILK" -> s.dur
    [] s.dur \in {32, 48} /\ mode = "SILK" -> s.dur \div 2
    [] OTHER -> Least(s.dur, 8)

Header(n) == CASE n = 1 -> 1 [] n = 2 -> 3 [] OTHER -> 2 + (n - 1) * 2

Plan(s, asked, mode) ==
  LET dur == FrameDur(s, mode)
      n   == s.dur \div dur
  IN  [mode |-> mode, toCelt |-> Delayed(s, asked),
       red  |-> Changes(asked) /\ (Low(asked) \/ Delayed(s, asked)),
       c2s  |-> Changes(asked) /\ Low(asked),
       vbr  |-> s.vbr, rate |-> Rate(s), dur |-> dur, next |-> 1, frames |-> n,
       sum  |-> n + (IF n = 1 \/ ~s.vbr THEN MaxBytes(s) ELSE s.room) - Header(n), total |-> 0]

Decide ==
  /\ f.phase = "idle"
  /\ \E s \in Setting, asked \in {"SILK", "CELT"} :
       IF Starved(s)
       THEN job' = NoJob /\ f' = [NoFrame EXCEPT !.phase = "sent"]
       ELSE \E mode \in Modes(s, asked) :
              /\ Low(asked) => CanBeLow(s)
              /\ job' = Plan(s, asked, mode)
              /\ f' = [NoFrame EXCEPT !.phase = "begin"]
  /\ UNCHANGED <<enc, dec, gaveUp>>
-----------------------------------------------------------------------------
(***************************************************************************)
(* opus_encode_frame_native.                                               *)
(***************************************************************************)
LastFrame == job.next = job.frames

\* Room for this frame with its first byte.
CurrMax ==
  IF job.frames = 1 THEN job.sum
  ELSE Least(Least(BitsOf(job.rate, job.dur) \div 8, job.sum \div job.frames),
             job.sum - job.total)

\* Redundancy goes with the frame next to the switch.
FrameRed == job.red /\ (IF job.toCelt THEN LastFrame ELSE job.next = 1)

\* The first frame after SILK changed its rate.
Started(orig, red, c2s) ==
  LET max  == Least(orig, 1276)
      want == Low(job.mode) /\ (red \/ enc.silk_bw_switch)
      n    == IF want THEN RedundancyBytes(max, job.rate, job.dur) ELSE 0
  IN  [NoFrame EXCEPT !.orig = orig, !.max = max, !.bytes = n, !.red = n > 0,
                      !.c2s = c2s \/ enc.silk_bw_switch]

\* SILK took all but slack bits; ready: it can change its rate behind this
\* frame, which wants redundancy of its own.
AfterSilk(g, slack, ready) ==
  LET n == RedundancyBytes(g.max, job.rate, job.dur)
      h == [g EXCEPT !.phase = "signal", !.tell0 = 8 * (g.max - 1) - slack,
                     !.tell  = 8 * (g.max - 1) - slack]
  IN  IF ready THEN [h EXCEPT !.bytes = n, !.red = n > 0, !.c2s = FALSE] ELSE h

(* Hybrid frames run SILK at 16 kHz: it has no rate to change to.          *)
CodeSilk ==
  /\ f.phase = "begin"
  /\ \E g \in {Started(CurrMax, FrameRed, job.c2s)} :
       IF Low(job.mode)
       THEN \E slack \in Slack, ready \in BOOLEAN :
              /\ 8 * (g.max - 1) - slack >= MinSilkBits
              /\ ready => job.mode = "SILK" /\ LastFrame
              /\ f' = AfterSilk(g, slack, ready)
              /\ enc' = [enc EXCEPT !.silk_bw_switch = ready]
       ELSE /\ f' = [g EXCEPT !.phase = "signal", !.tell = 1]
            /\ enc' = [enc EXCEPT !.silk_bw_switch = FALSE]
  /\ UNCHANGED <<dec, job, gaveUp>>

\* What a symbol adds to the count of bits.
BitCosts(value, logp) == IF value THEN {logp} ELSE {0, 1}
ByteCosts(value)      == IF value = 0 THEN {7, 8} ELSE {8}

Hybrid == job.mode = "HYBRID"

\* Room for a flag (in hybrid mode), a position and the least frame.
SignalsRed(tell, len, hybrid) == tell + 17 + Flag(hybrid, 20) <= 8 * len

\* Room left for the redundant frame behind bits of tell.
ClippedNot(bytes, max, tell, hybrid) == bytes             \* mutant
Clipped(bytes, max, tell, hybrid) ==
  Least(257, Most(2, Least(bytes,
    max - 1 - (IF hybrid THEN (tell + 18) \div 8 ELSE Bytes(tell)))))

\* The frame's main part ends nb bytes behind the first; SILK ends there.
Measured(g) ==
  LET nb == IF job.mode = "SILK" THEN Bytes(g.tell) ELSE g.max - 1 - g.bytes
  IN  [g EXCEPT !.phase = "celt", !.nb = nb, !.ret = Flag(job.mode = "SILK", nb)]

Plain(g, cost) ==
  Measured([g EXCEPT !.red = FALSE, !.bytes = 0, !.tell = @ + cost])

Signal ==
  /\ f.phase = "signal"
  /\ UNCHANGED <<dec, job, gaveUp>>
  /\ \/ /\ ~(Low(job.mode) /\ SignalsRed(f.tell, f.max - 1, Hybrid))
        /\ f' = Plain(f, 0)
        /\ enc' = [enc EXCEPT !.silk_bw_switch = FALSE]
     \/ /\ Low(job.mode) /\ SignalsRed(f.tell, f.max - 1, Hybrid) /\ ~f.red
        /\ \E cost \in IF Hybrid THEN BitCosts(FALSE, 12) ELSE {0} :
             f' = [Plain(f, cost) EXCEPT !.wrote = Hybrid]
        /\ enc' = [enc EXCEPT !.silk_bw_switch = FALSE]
     \/ /\ Low(job.mode) /\ SignalsRed(f.tell, f.max - 1, Hybrid) /\ f.red
        /\ \E cost \in BitCosts(f.c2s, 1) :
           \E tell \in {f.tell + Flag(Hybrid, 12) + cost} :
           \E n \in {Clipped(f.bytes, f.max, tell, Hybrid)} :
           \E size \in IF Hybrid THEN ByteCosts(n - 2) ELSE {0} :
             f' = Measured([f EXCEPT !.wrote = TRUE, !.bytes = n, !.tell = tell + size])
        /\ UNCHANGED enc

\* CELT frames predict only when asked to (CELT_SET_PREDICTION), and need not.
Coded(e, intra) == IF intra THEN "intra" ELSE e.ref
Choices(e)      == IF e.pred THEN BOOLEAN ELSE {TRUE}

\* CELT starts over and codes what it heard before the frame into the void.
PrefilledPredicting(e) == [e EXCEPT !.ref = "prefill"]   \* mutant
Prefilled(e) == [e EXCEPT !.ref = "prefill", !.pred = FALSE]

Predicting(e) == IF job.mode # "SILK" THEN [e EXCEPT !.pred = TRUE] ELSE e

\* The 5 ms frame of a switch from CELT; CELT starts over behind it.
LeadCodes == f.red /\ f.c2s
AfterLead(e) == IF LeadCodes THEN [e EXCEPT !.ref = "fresh"] ELSE e

MainReady(e) ==
  IF job.mode # "SILK" /\ job.mode # e.prev_mode /\ e.prev_mode # "none"
  THEN Prefilled(e) ELSE e

MainCodes == job.mode # "SILK" /\ f.tell <= 8 * f.nb

\* With too few bits for the intra flag CELT predicts whatever was asked.
Cramped == f.tell + 6 > 8 * f.nb

(* The least CELT may shrink a frame of variable size to.  In hybrid mode  *)
(* the decoder must still find the room that made the encoder send a flag. *)
FloorForCelt(tell, nb, hybrid) == Least(nb, Bytes(tell) + 2)   \* mutant
Floor(tell, nb, hybrid) ==
  Least(nb, Most(Bytes(tell) + 2, Flag(hybrid, Bytes(tell + 37))))

Sizes == IF job.vbr THEN {Floor(f.tell, f.nb, Hybrid), f.nb} ELSE {f.nb}

Lead ==
  /\ f.phase = "celt"
  /\ \E e \in {Predicting(enc)} : \E intra \in IF LeadCodes THEN Choices(e) ELSE {TRUE} :
       /\ f' = [f EXCEPT !.phase = "main", !.lead = IF LeadCodes THEN Coded(e, intra) ELSE @]
       /\ enc' = AfterLead(e)
  /\ UNCHANGED <<dec, job, gaveUp>>

Main ==
  /\ f.phase = "main"
  /\ \E e \in {MainReady(enc)} :
       IF MainCodes
       THEN \E size \in Sizes, cramped \in {FALSE, Cramped} :
            \E intra \in IF cramped THEN {FALSE} ELSE Choices(e) :
              /\ f' = [f EXCEPT !.phase = "tail", !.main = Coded(e, intra),
                                !.ret = size, !.cramped = cramped]
              /\ enc' = [e EXCEPT !.ref = "main"]
       ELSE /\ f' = [f EXCEPT !.phase = "tail"]
            /\ enc' = e
  /\ UNCHANGED <<dec, job, gaveUp>>

\* The 5 ms frame of a switch to CELT, coded intra behind a prefill.
Tail ==
  /\ f.phase = "tail"
  /\ IF f.red /\ ~f.c2s
     THEN \E e \in {Prefilled(enc)} : \E intra \in Choices(e) :
            /\ f' = [f EXCEPT !.phase = "close", !.tail = Coded(e, intra)]
            /\ enc' = [e EXCEPT !.ref = "tail"]
     ELSE f' = [f EXCEPT !.phase = "close"] /\ UNCHANGED enc
  /\ UNCHANGED <<dec, job, gaveUp>>

Busted == f.tell > 8 * (f.max - 1)

\* SILK alone may lose zeros at its end.
Lengths ==
  IF job.mode = "SILK" /\ ~f.red THEN {f.ret, Least(f.ret, 2)} ELSE {f.ret}

\* A bust frame is sent as one byte: "conceal".  CBR pads to orig.
Close ==
  /\ f.phase = "close"
  /\ \E n \in IF Busted THEN {1} ELSE Lengths :
     \E total \in {1 + n + f.bytes} :
       /\ f' = [f EXCEPT !.phase = "sent", !.len = n + f.bytes,
                         !.error = (Busted /\ f.max < 2) \/ (~job.vbr /\ total > f.orig)]
       /\ job' = [job EXCEPT !.next = @ + 1, !.total = @ + IF job.vbr THEN total ELSE f.orig]
  /\ enc' = [enc EXCEPT !.prev_mode = IF job.toCelt /\ LastFrame THEN "CELT" ELSE job.mode]
  /\ gaveUp' = (gaveUp \/ (job.toCelt /\ LastFrame /\ (~f.red \/ f.c2s)) \/ f.cramped)
  /\ UNCHANGED dec
-----------------------------------------------------------------------------
(***************************************************************************)
(* opusDecodeFrame: the parts it finds in a frame of len bytes.            *)
(***************************************************************************)
Layout(red, c2s, main, bytes) ==
  [red |-> red, c2s |-> red /\ c2s, main |-> main, bytes |-> bytes]

\* What the encoder put there.
Sent == Layout(f.red, f.c2s, f.len - f.bytes, f.bytes)

\* What the decoder finds: the symbols it reads cost what they cost there.
Found ==
  LET bytes == IF Hybrid THEN f.bytes ELSE f.len - Bytes(f.tell)
      main  == f.len - bytes
  IN  IF ~(Low(job.mode) /\ SignalsRed(f.tell0, f.len, Hybrid)) \/ (Hybrid /\ ~f.red)
      THEN Layout(FALSE, FALSE, f.len, 0)
      ELSE IF 8 * main < f.tell THEN Layout(FALSE, FALSE, 0, 0)
      ELSE Layout(TRUE, f.c2s, main, bytes)

\* Frames of one byte or none are concealed.
Empty == f.len <= 1

Kind(x) == CASE ~x.red -> "no" [] x.red /\ x.c2s -> "c2s" [] OTHER -> "s2c"

\* A CELT frame predicted from "from" is decoded; sound: if it is heard, it was
\* predicted from what the decoder holds.
Fits(s, from) == from = "intra" \/ from = s.ref
Take(s, from, name, heard) ==
  [s EXCEPT !.ref = IF Fits(s, from) THEN name ELSE "other",
            !.sound = @ /\ (heard => Fits(s, from))]

Concealed(s, mode) ==
  IF mode = "none" THEN s
  ELSE [s EXCEPT !.ref = IF mode = "SILK" THEN @ ELSE "other",
                 !.prev_mode = mode, !.prev_redundancy = FALSE]

Bridged(s, mode, red) ==
  IF Dec!Switches(s, mode) /\ (Low(mode) => red = "no")
  THEN Concealed(s, Dec!PlcMode(s)) ELSE s

Led(s, red) == IF red = "c2s" THEN Take(s, f.lead, "lead", Dec!HearsRedundant(s)) ELSE s

Played(s, mode, red) ==
  IF mode = "SILK" THEN IF Dec!FadesOut(s, red) THEN [s EXCEPT !.ref = "other"] ELSE s
  ELSE Take(IF Dec!DiscardsCelt(s, mode) THEN [s EXCEPT !.ref = "fresh"] ELSE s, f.main, "main", TRUE)

Ended(s, mode, red) ==
  LET t == IF red = "s2c" THEN Take([s EXCEPT !.ref = "fresh"], f.tail, "tail", TRUE) ELSE s
  IN  [t EXCEPT !.prev_mode = mode, !.prev_redundancy = (red = "s2c")]

Heard ==
  LET s == [prev_mode |-> dec.prev_mode, prev_redundancy |-> dec.prev_redundancy,
            ref |-> dec.ref, sound |-> TRUE]
      red == Kind(Found)
  IN  IF Empty THEN Concealed(s, Dec!PlcMode(s))
      ELSE Ended(Played(Led(Bridged(s, job.mode, red), red), job.mode, red), job.mode, red)

\* Names of parts are only good within a frame.
Settled(r) == IF r = "fresh" THEN r ELSE "last"

InStep(e, d) ==
  /\ e.ref = d.ref
  /\ e.prev_mode = d.prev_mode \/ (e.prev_mode = "CELT" /\ d.prev_redundancy)

Decode ==
  /\ f.phase = "sent" /\ ~f.error
  /\ \E s \in {Heard} :
       /\ dec' = [prev_mode |-> s.prev_mode, prev_redundancy |-> s.prev_redundancy,
                  ref |-> IF s.ref = "fresh" \/ s.ref = enc.ref THEN Settled(s.ref) ELSE "other"]
       /\ enc' = [enc EXCEPT !.ref = Settled(@)]
       /\ gaveUp' = ((gaveUp \/ Empty) /\ ~InStep(enc', dec'))
  /\ f' = [NoFrame EXCEPT !.phase = IF job.next <= job.frames THEN "begin" ELSE "idle"]
  /\ job' = IF job.next <= job.frames THEN job ELSE NoJob

Next == Decide \/ CodeSilk \/ Signal \/ Lead \/ Main \/ Tail \/ Close \/ Decode

Spec == Init /\ [][Next]_vars
-----------------------------------------------------------------------------
Mode == {"none", "SILK", "HYBRID", "CELT"}
Part == {"none", "intra", "fresh", "prefill", "lead", "main", "tail", "last", "other"}

\* The state stays typed: modes, parts of a frame and counts of bytes.
TypeOK ==
  /\ enc \in [prev_mode : Mode, silk_bw_switch : BOOLEAN, pred : BOOLEAN, ref : Part]
  /\ dec \in [prev_mode : Mode, prev_redundancy : BOOLEAN, ref : Part]
  /\ job.mode \in Mode /\ job.next \in 1 .. job.frames + 1 /\ job.total \in Nat
  /\ f.phase \in {"idle", "begin", "signal", "celt", "main", "tail", "close", "sent"}
  /\ {f.lead, f.main, f.tail} \subseteq Part
  /\ {f.orig, f.max, f.bytes, f.tell, f.nb, f.ret, f.len} \subseteq Nat
  /\ gaveUp \in BOOLEAN

(* The decoder finds every part of a frame where the encoder put it,       *)
(* though no length is sent for the main part and, in SILK frames, not     *)
(* even whether there is a redundant one: it reads a flag only where one   *)
(* was written, although it knows only the length the frame shrank to.     *)
(* "Creating a shorter packet would create an entropy coder desync."       *)
LayoutAgrees ==
  f.phase = "sent" /\ ~f.error /\ ~Empty
    => /\ Found = Sent
       /\ Hybrid => (f.wrote <=> SignalsRed(f.tell0, f.len, TRUE))

(* A frame fits its room, however SILK used it: it never fails for its     *)
(* size, redundancy leaves the main part the bits already written and has  *)
(* a size its byte can say, and only a bust frame is sent as a lost one.   *)
BudgetKept ==
  f.phase = "sent" /\ job # NoJob
    => /\ ~f.error /\ 1 + f.len <= f.orig
       /\ f.red => f.bytes \in 2 .. 257 /\ f.tell <= 8 * (f.len - f.bytes)
       /\ ~Busted => f.len >= 2

(* No CELT frame is heard that was decoded from energies other than those  *)
(* it was predicted from, across every sequence of modes, switches,        *)
(* changes of SILK's rate and packets of several frames; unless, since the *)
(* two were last in step, a packet was sent without data, a switch to CELT *)
(* went without the redundant frame at its end (there was no room, or it   *)
(* went to the start because SILK had just changed its rate) or CELT had   *)
(* no bits to say "intra".                                                 *)
CeltInSync ==
  f.phase = "sent" /\ ~f.error /\ ~gaveUp => Heard.sound
=============================================================================
