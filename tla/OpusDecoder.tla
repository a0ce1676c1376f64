---------------------------- MODULE OpusDecoder ----------------------------
(***************************************************************************)
(* The Opus decoder behind opus.Decoder: the control state libopus keeps   *)
(* from one frame to the next (opuscc/common.go, opusDecodeNative and      *)
(* opusDecodeFrame) and the wrapper that lets goroutines share it          *)
(* (opus/decoder.go).                                                      *)
(*                                                                         *)
(* A decoder holds two codecs.  Each predicts its next frame from what it  *)
(* decoded last, which must not lie in the past.  Packets switch codecs,   *)
(* carry redundant CELT frames that hide a switch, are lost, or are empty. *)
(* The model keeps, for each codec, where the frame it decoded last ends   *)
(* relative to the sample decoded next; the signal itself, bandwidth and   *)
(* channels (which travel with the mode) are left out.                     *)
(***************************************************************************)
EXTENDS Integers, Sequences, FiniteSets

CONSTANTS
  Caller,     \* the goroutines that share the decoder
  NoCaller,   \* nobody holds the mutex
  Packet,     \* packets a stream may hold: [mode, size, frames], frames a
              \* sequence of [red, over]; frames = <<>> when it does not parse
  NoPacket,   \* the empty packet: conceal a loss
  AskedSize,  \* frame sizes callers pass
  F2_5        \* samples in 2.5 ms

F5   == 2 * F2_5
F10  == 4 * F2_5
F20  == 8 * F2_5
F40  == 16 * F2_5
F60  == 24 * F2_5
F120 == 48 * F2_5

\* The frames a TOC byte can announce, by mode.
FrameSizes(mode) ==
  CASE mode = "SILK"   -> {F10, F20, F40, F60}
    [] mode = "HYBRID" -> {F10, F20}
    [] mode = "CELT"   -> {F2_5, F5, F10, F20}

\* A packet holds 120 ms at most, or it does not parse.
ASSUME DecoderAssumption ==
  /\ F2_5 \in Nat \ {0}
  /\ NoCaller \notin Caller /\ NoPacket \notin Packet
  /\ AskedSize \subseteq Nat
  /\ \A p \in Packet :
       /\ p.mode \in {"SILK", "HYBRID", "CELT"}
       /\ p.size \in FrameSizes(p.mode)
       /\ p.frames \in Seq([red : {"no", "c2s", "s2c", "empty"}, over : BOOLEAN])
       /\ p.size * Len(p.frames) <= F120

BadArg   == -1
TooSmall == -2
Internal == -3
Invalid  == -4

Mode  == {"none", "SILK", "HYBRID", "CELT"}
Codec == {"SILK", "CELT"}

VARIABLES
  st,      \* the OpusDecoder struct
  closed,  \* Close has run: storage, scratch and TLS are gone
  holder,  \* who holds d.mu
  pc,      \* what each goroutine is about to do
  call,    \* the call in progress
  lastRet  \* history: what the last successful call returned

vars == <<st, closed, holder, pc, call, lastRet>>

Least(a, b) == IF a < b THEN a ELSE b
-----------------------------------------------------------------------------
(***************************************************************************)
(* Where the frame a codec decoded last ends: Fresh after a reset, n >= 0  *)
(* when it ends n samples after the next sample of the output, Stale when  *)
(* it ends before it.                                                      *)
(***************************************************************************)
Fresh == -2
Stale == -1

Moved(end, n) == IF end < 0 THEN end ELSE IF end >= n THEN end - n ELSE Stale

\* The output moves on by n samples; codecs that did not decode fall behind.
Advance(s, n) == [s EXCEPT !.end = [c \in Codec |-> Moved(@[c], n)]]

Reset(s, c) == [s EXCEPT !.end[c] = Fresh]

\* Codec c decodes up to sample n of the frame; heard tells whether the
\* result reaches the output.
Decodes(s, c, n, heard) ==
  [s EXCEPT !.end[c] = n,
            !.stale = IF heard /\ s.end[c] = Stale THEN @ \cup {c} ELSE @]

\* An assertion of the code that fails aborts the program (opusCeltFatal).
Check(s, holds) == [s EXCEPT !.fatal = @ \/ ~holds]
-----------------------------------------------------------------------------
(***************************************************************************)
(* opusDecodeFrame.                                                        *)
(***************************************************************************)
\* Concealment uses the mode heard last: CELT if a redundant frame ended it.
PlcMode(s) == IF s.prev_redundancy THEN "CELT" ELSE s.prev_mode

\* Concealment only runs on 20, 10, 5 (CELT) and 2.5 ms (CELT).
PlcSizeUncut(mode, n) == Least(n, F20)            \* mutant: any size
PlcSize(mode, n) ==
  CASE n >= F20 -> F20
    [] n > F10 /\ n < F20 -> F10
    [] n > F5 /\ n < F10 /\ mode # "SILK" -> F5
    [] OTHER -> n

(* silk_Decode is called until the frame is full; each call yields 10 or   *)
(* 20 ms.  Frames under 10 ms are decoded into a buffer of 10 ms.          *)
SilkPayload(n) == IF n < F10 THEN F10 ELSE n
SilkOutput(n) ==
  LET piece == IF SilkPayload(n) = F10 THEN F10 ELSE F20
  IN  piece * ((n + piece - 1) \div piece)

SilkPart(s, mode, n) ==
  IF mode = "CELT" THEN s
  ELSE LET known == SilkPayload(n) \in {F10, F20, F40, F60}
           fits  == n < F10 \/ SilkOutput(n) = n
           ready == IF s.prev_mode = "CELT" THEN Reset(s, "SILK") ELSE s
       IN  Check(Decodes(ready, "SILK", SilkOutput(n), TRUE), known /\ fits)

CeltKnows(n) == n \in {F2_5, F5, F10, F20}

\* A mode change discards CELT's history unless a redundant frame made it.
DiscardsCelt(s, mode) ==
  mode # s.prev_mode /\ s.prev_mode # "none" /\ ~s.prev_redundancy

\* Hybrid to SILK: CELT decodes silence to fade out, unless a redundant frame
\* at the start of this frame does it.
FadesOut(s, red) ==
  s.prev_mode = "HYBRID" /\ ~(red = "c2s" /\ s.prev_redundancy)

CeltPart(s, mode, n, red) ==
  IF mode # "SILK"
  THEN LET ready == IF DiscardsCelt(s, mode) THEN Reset(s, "CELT") ELSE s
       IN  Check(Decodes(ready, "CELT", Least(F20, n), TRUE),
                  CeltKnows(Least(F20, n)))
  ELSE IF FadesOut(s, red) THEN Decodes(s, "CELT", F2_5, TRUE) ELSE s

Finish(s, mode, red) ==
  [s EXCEPT !.prev_mode = mode, !.prev_redundancy = (red = "s2c")]

\* A frame without data, of a size PlcSize allows.
Conceal(s, mode, n) ==
  Finish(CeltPart(SilkPart(s, mode, n), mode, n, "no"), mode, "no")

\* The switch needs a concealment of the old codec to fade from.
Switches(s, mode) ==
  /\ s.prev_mode # "none"
  /\ \/ mode = "CELT" /\ s.prev_mode # "CELT" /\ ~s.prev_redundancy
     \/ mode # "CELT" /\ s.prev_mode = "CELT"

Transition(s, n) ==
  LET t == Least(F5, n) IN Conceal(s, PlcMode(s), PlcSize(PlcMode(s), t))

\* The redundant frame at the start is only heard after CELT was.
HearsAlways(s) == TRUE                            \* mutant: after SILK too
HearsRedundant(s) == s.prev_mode # "SILK" \/ s.prev_redundancy

LeadIn(s, red) ==
  IF red = "c2s" THEN Decodes(s, "CELT", F5, HearsRedundant(s)) ELSE s

LeadOut(s, n, red) ==
  IF red = "s2c" THEN Decodes(Reset(s, "CELT"), "CELT", n, TRUE) ELSE s

\* A frame with data; red is the redundancy it carries (none with FEC).
Synthesize(s, mode, n, red) ==
  LET early == Switches(s, mode) /\ mode = "CELT"
      late  == Switches(s, mode) /\ mode # "CELT" /\ red = "no"
      s1 == IF early THEN Transition(s, n) ELSE s
      s2 == SilkPart(s1, mode, n)
      s3 == IF late THEN Transition(s2, n) ELSE s2
      s4 == CeltPart(LeadIn(s3, red), mode, n, red)
  IN  Finish(LeadOut(s4, n, red), mode, red)

(***************************************************************************)
(* A round of opusDecodeFrame: the history s it leaves, the samples ret it *)
(* decoded or the error, and how many the frame still has to conceal:      *)
(* losses longer than 20 ms are concealed in pieces.                       *)
(***************************************************************************)
Round(s, ret, rest) == [s |-> s, ret |-> ret, rest |-> rest]

Piece(s, n, goesOn) ==
  LET m == PlcMode(s)
      k == PlcSize(m, Least(n, F20))
  IN  Round(Advance(Conceal(s, m, k), k), k, IF goesOn THEN n - k ELSE 0)

\* Without data, no more is concealed than the last packet's frame size.
LostFrame(s, space) ==
  LET n == Least(Least(space, F120), s.frame_size)
  IN  CASE space < F2_5 -> Round(s, TooSmall, 0)
        [] space >= F2_5 /\ PlcMode(s) = "none" -> Round(s, n, 0)
        [] OTHER -> Piece(s, n, n > F20)

\* With frame f of the packet whose mode and size s holds.  A frame whose CELT
\* part runs over its data is reported when it is over.
DataFrame(s, f, space, fec) ==
  LET n    == s.frame_size
      red  == IF fec \/ s.mode = "CELT" THEN "no" ELSE f.red
      done == Advance(Synthesize(s, s.mode, n, red), n)
  IN  IF n > space THEN Round(s, BadArg, 0)
      ELSE Round(done, IF f.over /\ ~fec /\ s.mode # "SILK" THEN Internal ELSE n, 0)
-----------------------------------------------------------------------------
(***************************************************************************)
(* A call: opus.Decoder.Decode or DecodeF32, down to opusDecodeNative.     *)
(***************************************************************************)
InitState ==
  [mode |-> "none", frame_size |-> F2_5, prev_mode |-> "none",
   prev_redundancy |-> FALSE, last_packet_duration |-> 0,
   end |-> [c \in Codec |-> Fresh], stale |-> {}, fatal |-> FALSE]

NoCall == [phase |-> "none", packet |-> NoPacket, total |-> 0, goal |-> 0,
           count |-> 0, inner |-> 0, next |-> 1, written |-> 0, ret |-> 0, copied |-> 0,
           duration_copy |-> 0, touched |-> FALSE]

\* What is left of a call when it returns.
Outcome(ret, written, touched) ==
  [NoCall EXCEPT !.phase = "return", !.ret = ret, !.written = written,
                 !.touched = touched]

Init ==
  /\ st = InitState
  /\ closed = FALSE
  /\ holder = NoCaller
  /\ pc = [c \in Caller |-> "idle"]
  /\ call = NoCall
  /\ lastRet = 0

Parses(p) == p.frames # <<>>
Samples(p) == p.size * Len(p.frames)

\* The 16-bit entry clips the size to what the packet holds, the float one
\* does not.
Room(p, size, clips, fec) ==
  IF clips /\ p # NoPacket /\ ~fec /\ Parses(p)
  THEN Least(size, Samples(p)) ELSE size

\* FEC data cannot be there, or there is no room for the frame.
NoFec(s, p, size) == size < p.size \/ p.mode = "CELT" \/ s.mode = "CELT"

\* The checks before anything is decoded; 0 if all pass.
RefusalNoRoom(p, room, fec) ==                    \* mutant: room not checked
  CASE (fec \/ p = NoPacket) /\ room % F2_5 # 0 -> BadArg
    [] p # NoPacket /\ ~Parses(p) -> Invalid
    [] OTHER -> 0
Refusal(p, room, fec) ==
  CASE (fec \/ p = NoPacket) /\ room % F2_5 # 0 -> BadArg
    [] p # NoPacket /\ ~Parses(p) /\ (fec => room % F2_5 = 0) -> Invalid
    [] p # NoPacket /\ Parses(p) /\ ~fec /\ Samples(p) > room -> TooSmall
    [] OTHER -> 0

ConfigureEager(s, p) ==                           \* mutant: duration on parsing
  [s EXCEPT !.mode = p.mode, !.frame_size = p.size,
            !.last_packet_duration = Samples(p)]
Configure(s, p) == [s EXCEPT !.mode = p.mode, !.frame_size = p.size]

Phase(s, p, room, fec) ==
  CASE p = NoPacket -> "conceal"
    [] p # NoPacket /\ ~fec -> "frames"
    [] p # NoPacket /\ fec /\ NoFec(s, p, room) -> "conceal"
    [] p # NoPacket /\ fec /\ ~NoFec(s, p, room) /\ room > p.size -> "excess"
    [] OTHER -> "fec"

\* How far concealment goes before the call is over or its FEC frame is next.
Goal(p, room, phase) == IF phase = "excess" THEN room - p.size ELSE room

Configured(s, p, phase) ==
  IF phase \in {"frames", "fec"} THEN Configure(s, p) ELSE s

Free == holder = NoCaller

WantDecode(c) ==
  /\ pc[c] = "idle"
  /\ pc' = [pc EXCEPT ![c] = "decode"]
  /\ UNCHANGED <<st, closed, holder, call, lastRet>>

WantClose(c) ==
  /\ pc[c] = "idle"
  /\ pc' = [pc EXCEPT ![c] = "close"]
  /\ UNCHANGED <<st, closed, holder, call, lastRet>>

Decoding(c, phase) == holder = c /\ pc[c] = "decode" /\ call.phase = phase

\* d.mu.Lock
Lock(c) ==
  /\ pc[c] = "decode" /\ Free
  /\ holder' = c
  /\ call' = [NoCall EXCEPT !.phase = "check"]
  /\ UNCHANGED <<st, closed, pc, lastRet>>

Refuse(ret) ==
  /\ call' = Outcome(ret, 0, FALSE)
  /\ UNCHANGED st

Accept(p, room, ph) ==
  /\ call' = [call EXCEPT !.phase = ph, !.packet = p, !.total = room,
                         !.goal = Goal(p, room, ph),
                         !.duration_copy = IF ph = "excess" THEN st.last_packet_duration ELSE 0,
                         !.touched = Configured(st, p, ph) # st]
  /\ st' = Configured(st, p, ph)

\* The checks of the wrapper and of the native decoder, in their order.
Enter(c) ==
  /\ Decoding(c, "check")
  /\ UNCHANGED <<closed, holder, pc, lastRet>>
  /\ \/ closed /\ Refuse(BadArg)
     \/ ~closed /\ \E size, pcm \in AskedSize :
                     (size = 0 \/ pcm < size) /\ Refuse(BadArg)
     \/ /\ ~closed
        /\ \E p \in Packet \cup {NoPacket}, size \in AskedSize \ {0},
              fec \in BOOLEAN, clips \in BOOLEAN :
             LET room == Room(p, size, clips, fec)
                 no   == Refusal(p, room, fec)
             IN  \/ no # 0 /\ Refuse(no)
                 \/ no = 0 /\ Accept(p, room, Phase(st, p, room, fec))

\* Room for the frame being decoded.
Left ==
  CASE call.inner > 0 -> call.inner
    [] call.inner = 0 /\ call.phase = "fec" -> call.packet.size
    [] OTHER -> call.goal - call.count

Lost == call.phase \in {"conceal", "excess"}
          \/ call.packet.frames[call.next].red = "empty"

Decoded ==
  IF call.inner > 0 THEN Piece(st, call.inner, TRUE)
  ELSE IF Lost THEN LostFrame(st, Left)
  ELSE DataFrame(st, call.packet.frames[call.next], Left, call.phase = "fec")

\* Where in the scratch it goes: the FEC frame at the end of the room.
OffsetAtStart == IF call.phase = "fec" THEN 0 ELSE call.count  \* mutant
Offset == IF call.phase = "fec" THEN call.total - Left ELSE call.count

CountedNot(n) == call.count                       \* mutant: pcm_count left alone
Counted(n) == call.count + n

\* call once n more samples are decoded, rest of the frame still to come.
Grown(n, rest) ==
  [call EXCEPT !.count = Counted(n), !.inner = rest, !.touched = TRUE,
               !.written = IF Offset = @ THEN @ + n ELSE @]

\* What the loop over frames, or over concealment, asserts after each.
Exact(cnt) ==
  IF call.phase = "frames" THEN cnt = call.next * call.packet.size
  ELSE cnt >= call.goal => cnt = call.goal

MoreFrames(cnt) ==
  IF call.phase = "frames" THEN call.next < Len(call.packet.frames)
  ELSE cnt < call.goal

\* A failing concealment before an FEC frame takes its duration back.
Failed(s) ==
  IF call.phase = "excess"
  THEN [s EXCEPT !.last_packet_duration = call.duration_copy] ELSE s

DecodeStep(c) ==
  /\ \E ph \in {"conceal", "excess", "fec", "frames"} : Decoding(c, ph)
  /\ UNCHANGED <<closed, holder, pc, lastRet>>
  /\ \E r \in {Decoded} :
       LET cnt  == Counted(r.ret)
           s    == IF r.rest = 0 THEN Check(r.s, Exact(cnt)) ELSE r.s
           last == [s EXCEPT !.last_packet_duration = cnt]
       IN  \/ /\ r.ret < 0                              \* the frame fails
              /\ call' = Outcome(r.ret, 0, call.touched \/ r.s # st)
              /\ st' = Failed(r.s)
           \/ /\ r.ret >= 0 /\ r.rest > 0               \* the next piece
              /\ st' = s
              /\ call' = Grown(r.ret, r.rest)
           \/ /\ r.ret >= 0 /\ r.rest = 0               \* the next frame
              /\ MoreFrames(cnt)
              /\ st' = s
              /\ call' = [Grown(r.ret, 0) EXCEPT
                            !.next = IF call.phase = "frames" THEN @ + 1 ELSE @]
           \/ /\ r.ret >= 0 /\ r.rest = 0               \* now the FEC frame
              /\ ~MoreFrames(cnt) /\ call.phase = "excess"
              /\ st' = Configure(last, call.packet)
              /\ call' = [Grown(r.ret, 0) EXCEPT !.phase = "fec", !.goal = call.total]
           \/ /\ r.ret >= 0 /\ r.rest = 0               \* the call is over
              /\ ~MoreFrames(cnt) /\ call.phase # "excess"
              /\ st' = last
              /\ call' = Outcome(cnt, Grown(r.ret, 0).written, TRUE)

\* Only a success is copied from the scratch to the caller's pcm.
Copied(ret) == IF ret < 0 THEN 0 ELSE ret

CopyOut(c) ==
  /\ Decoding(c, "return")
  /\ call' = [call EXCEPT !.phase = "done", !.copied = Copied(call.ret),
                         !.touched = FALSE]
  /\ lastRet' = IF call.ret < 0 THEN lastRet ELSE call.ret
  /\ UNCHANGED <<st, closed, holder, pc>>

\* The deferred Unlock.
Leave(c) ==
  /\ Decoding(c, "done")
  /\ holder' = NoCaller
  /\ pc' = [pc EXCEPT ![c] = "idle"]
  /\ call' = NoCall
  /\ UNCHANGED <<st, closed, lastRet>>

\* Close drops the decoder, the scratch and the TLS under the mutex.
Close(c) ==
  /\ pc[c] = "close" /\ Free
  /\ closed' = TRUE
  /\ pc' = [pc EXCEPT ![c] = "idle"]
  /\ UNCHANGED <<st, holder, call, lastRet>>

Next ==
  \E c \in Caller :
    \/ WantDecode(c) \/ WantClose(c)
    \/ Lock(c) \/ Enter(c) \/ DecodeStep(c)
    \/ CopyOut(c) \/ Leave(c) \/ Close(c)

(***************************************************************************)
(* A goroutine inside a call goes on, and a sync.Mutex hands itself to     *)
(* waiters in turn when they starve: a waiter that finds it free again and *)
(* again gets it.  Nobody has to start a call.                             *)
(***************************************************************************)
Fairness ==
  \A c \in Caller :
    /\ SF_vars(Lock(c) \/ Close(c))
    /\ WF_vars(Enter(c) \/ DecodeStep(c) \/ CopyOut(c) \/ Leave(c))

Spec == Init /\ [][Next]_vars /\ Fairness
-----------------------------------------------------------------------------
TypeOK ==
  /\ st.mode \in Mode /\ st.prev_mode \in Mode
  /\ st.frame_size \in Nat /\ st.last_packet_duration \in Nat
  /\ st.prev_redundancy \in BOOLEAN
  /\ closed \in BOOLEAN
  /\ holder \in Caller \cup {NoCaller}
  /\ pc \in [Caller -> {"idle", "decode", "close"}]
  /\ call.phase \in {"none", "check", "conceal", "excess", "fec", "frames", "return", "done"}
  /\ lastRet \in Nat

(* No codec is ever heard from a history that ends before the frame it     *)
(* decodes, whatever sequence of modes, redundant frames, losses, empty    *)
(* packets and failures came before: opusDecodeFrame resets it, conceals   *)
(* with it, or keeps its redundant frame out of the output.                *)
NoStaleAudio == st.stale = {}

(* The assertions of the decoder hold: concealment fills exactly what was  *)
(* asked, a frame is as long as its packet says, SILK and CELT are only    *)
(* asked for lengths they know and SILK never writes past the frame.       *)
AssertionsHold == ~st.fatal

(* "Update the state as the last step to avoid updating it on an invalid   *)
(* packet": a call refused for its arguments or its packet leaves the      *)
(* decoder as it found it, also when it got as far as concealing.          *)
RefusedUntouched ==
  call.phase = "return" /\ call.ret \in {BadArg, TooSmall, Invalid}
    => ~call.touched

(* Between calls the decoder's last packet duration is what the last       *)
(* successful call returned: failures half way, and the inner calls of FEC, *)
(* do not leave theirs behind.                                             *)
DurationTrue == Free => st.last_packet_duration = lastRet

(* The wrapper hands out only what this call decoded: every sample copied  *)
(* from the scratch, which outlives calls, was written by this call up to  *)
(* the last, a failed call leaves the caller's buffer alone, and nothing   *)
(* is decoded for a caller that lost the race against Close.               *)
DeliveredIsDecoded ==
  /\ call.phase = "done" =>
       call.copied = IF call.ret < 0 THEN 0 ELSE call.written
  /\ call.phase \in {"conceal", "excess", "fec", "frames"} => ~closed

(* Every call of Decode, DecodeF32 and Close returns, also those that wait *)
(* for another goroutine or run the concealment loop.                      *)
CallsReturn == \A c \in Caller : pc[c] # "idle" ~> pc[c] = "idle"
=============================================================================
