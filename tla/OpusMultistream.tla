--------------------------- MODULE OpusMultistream ---------------------------
(***************************************************************************)
(* A multistream packet from the encoder to the channels: each stream's    *)
(* encoder makes a packet, opusccenc repacks it with a delimiter           *)
(* (opus_multistream_encode_native), tools pad and unpad the whole in      *)
(* place (opus_multistream_packet_pad, _unpad), and opuscc validates it,   *)
(* gives each stream's part to its decoder and the audio to the channels   *)
(* (opusMSDecodeBound).                                                    *)
(*                                                                         *)
(* What a single stream's encoder chooses to send is open: any frames of   *)
(* the duration asked that fit.  A decoder may fail on any packet: its     *)
(* inside is OpusDecoder.                                                  *)
(***************************************************************************)
EXTENDS OpusPacket

CONSTANTS
  Layouts,     \* [streams, coupled, mapping], mapping from channels to sources
  FrameSize,   \* bytes in a frame an encoder makes
  Units,       \* durations encoders are asked for: 2.5 to 120 ms
  LongD,       \* 100 ms: no packet of fewer than three frames has it
  EncodeMax,   \* max_data_bytes callers give
  Growth,      \* by how much packets are padded
  Garbage,     \* packets that no encoder made
  DecodeSize,  \* frame sizes callers give
  F2_5         \* samples in 2.5 ms

\* Any other layout is refused when the decoder and the encoder are made.
ASSUME MultistreamAssumption ==
  /\ \A l \in Layouts : /\ l.streams \in Nat \ {0} /\ l.coupled \in 0 .. l.streams
                        /\ \A c \in DOMAIN l.mapping : l.mapping[c] \in Nat
  /\ FrameSize \subseteq Nat /\ EncodeMax \subseteq Int /\ DecodeSize \subseteq Int
  /\ Growth \subseteq Nat /\ Garbage \subseteq Seq(Nat)
  /\ LongD \in Nat /\ F2_5 \in Nat \ {0}

\* A frame may be empty; every duration but LongD is that of one frame or two.
ASSUME EncoderAssumption ==
  /\ 0 \in FrameSize /\ FrameSize \subseteq 0..MaxFrame
  /\ \A u \in Units : \E c \in DOMAIN Duration, k \in 1 .. Byte \div 4 - 1 :
       /\ k * Duration[c] = u /\ u <= MaxDuration
       /\ u # LongD => k <= 2

Muted == 255

VARIABLES
  layout, \* of encoder and decoder
  job,    \* what is asked: [kind, units, max, vbr]
  phase,  \* how far it is
  data,   \* the packet's buffer
  sent,   \* history: the frames of each stream, when the packet was valid
  s,      \* stream being handled, counted from 0
  at,     \* position in data of its part
  to,     \* bytes written: tot_size, dst_len
  dec,    \* the decode call: [frame, fec, plc]
  child,  \* each stream's decoder: [touched, frames]
  pcm,    \* to each channel, what was copied: a sequence of [from, n]
  ret     \* what the last call returned

vars == <<layout, job, phase, data, sent, s, at, to, dec, child, pcm, ret>>

Least(a, b) == IF a < b THEN a ELSE b
Most(a, b)  == IF a > b THEN a ELSE b

LastStream == layout.streams - 1
IsLast(n) == n = LastStream
Part == SubSeq(data, at, Len(data))
Stream == 0 .. LastStream
-----------------------------------------------------------------------------
ValidLayout(l) ==
  /\ l.streams + l.coupled <= 255
  /\ \A c \in DOMAIN l.mapping :
       l.mapping[c] < l.streams + l.coupled \/ l.mapping[c] = Muted

(***************************************************************************)
(* opus_multistream_packet_validate: the duration all streams share, or    *)
(* the error; with it, for the history, the frames of each stream.         *)
(***************************************************************************)
AnyDuration(n, m) == FALSE                        \* mutant: not compared
Differs(n, m) == n # m

\* r: how far it is; p: the part of stream n, parsed from rest.
WalkOn(r, n, rest, p) ==
  CASE p.count < 0 -> [r EXCEPT !.ret = p.count]
    [] p.count > 0 /\ n > 1 /\ Differs(NbSamples(rest, p.count), r.ret) ->
         [r EXCEPT !.ret = InvalidPacket]
    [] OTHER ->
         [ret |-> NbSamples(rest, p.count), at |-> r.at + p.end - 1,
          frames |-> Append(r.frames, Frames(rest, p))]

WalkPart(r, n, rest, last) ==
  IF r.ret < 0 THEN r ELSE WalkOn(r, n, rest, Parse(rest, n # last))

Walk(l, d) ==
  FoldLeft(LAMBDA r, n : WalkPart(r, n, SubSeq(d, r.at, Len(d)), l.streams),
           [ret |-> 0, at |-> 1, frames |-> <<>>], [n \in 1..l.streams |-> n])

Validate(l, d) == Walk(l, d).ret

NoDecode == [frame |-> 0, fec |-> FALSE, plc |-> FALSE]

Init ==
  /\ layout \in {l \in Layouts : ValidLayout(l)}
  /\ job \in [kind : {"encode"}, units : Units, max : EncodeMax, vbr : BOOLEAN]
            \cup [kind : {"garbage", "lost"}, units : {0}, max : {0}, vbr : {FALSE}]
  /\ data \in IF job.kind = "garbage" THEN Garbage ELSE {<<>>}
  /\ phase = IF job.kind = "encode" THEN "encode"
             ELSE IF job.kind = "lost" THEN "decode" ELSE "wire"
  /\ sent = IF job.kind = "garbage" /\ Validate(layout, data) > 0
            THEN Walk(layout, data).frames ELSE <<>>
  /\ s = 0 /\ at = 1 /\ to = 0 /\ ret = 0
  /\ dec = NoDecode
  /\ child = [n \in 0 .. layout.streams - 1 |-> [touched |-> FALSE, frames |-> <<>>]]
  /\ pcm = [c \in DOMAIN layout.mapping |-> <<>>]
-----------------------------------------------------------------------------
(***************************************************************************)
(* Encoding.                                                               *)
(***************************************************************************)
Smallest ==
  2 * layout.streams - 1 + (IF job.units = LongD THEN layout.streams ELSE 0)

\* What stream n's encoder may use.
CurrMaxGreedy(n) ==                               \* mutant: nothing reserved
  LET free == job.max - to
  IN  free - IF IsLast(n) THEN 0 ELSE IF free > Escape + 1 THEN 2 ELSE 1
CurrMax(n) ==
  LET behind == layout.streams - n - 1
      free   == job.max - to - Most(0, 2 * behind - 1)
                        - (IF job.units = LongD THEN behind ELSE 0)
      most   == Least(free, 6 * MaxFrame + 12)
  IN  most - IF IsLast(n) THEN 0 ELSE IF most > Escape + 1 THEN 2 ELSE 1

(***************************************************************************)
(* A stream's encoder (opus_encode_native).  One frame may take all the    *)
(* room; several share what the largest header for them would leave, each  *)
(* counted with a TOC of its own; with hardly any room frames are empty.   *)
(***************************************************************************)
HeaderBytes(k) == IF k = 2 THEN 3 ELSE 2 + 2 * (k - 1)

EachMax(n, k) ==
  IF k = 1 THEN Least(CurrMax(n), MaxFrame + 1)
  ELSE (k + CurrMax(n) - HeaderBytes(k)) \div k

EmptyFits(n, k) == CurrMax(n) >= IF k <= 2 THEN 1 ELSE 2

Possible(n) ==
  {f \in [config : DOMAIN Duration,
          size : UNION {[1..k -> FrameSize] : k \in 1 .. Byte \div 4 - 1}] :
     LET k == Len(f.size)
     IN  /\ k * Duration[f.config] = job.units
         /\ \/ \A i \in 1..k : f.size[i] + 1 <= EachMax(n, k)
            \/ EmptyFits(n, k) /\ \A i \in 1..k : f.size[i] = 0}

\* Every byte of a payload has a tag of its own; as a number it is Chunk.
Payload(n, size) ==
  [i \in DOMAIN size |->
     [k \in 1..size[i] |-> Chunk + Byte * (1000 * (n + 1) + 100 * i + k)]]

\* Its packet: at a constant bit rate it is mostly padded to its room.
EncodedOut(n, f, pad) == Out(4 * f.config, f.size, CurrMax(n), FALSE, pad)

Stop(code) ==
  /\ phase' = "unsent"
  /\ ret' = code
  /\ UNCHANGED <<data, sent, s, to>>

EncodeStart ==
  /\ phase = "encode"
  /\ UNCHANGED <<layout, job, at, dec, child, pcm>>
  /\ \/ job.max < Smallest /\ Stop(TooSmall)
     \/ /\ job.max >= Smallest
        /\ phase' = "streams"
        /\ UNCHANGED <<data, sent, s, to, ret>>

\* Take a packet of frames apart and put the frames behind data.  Its padding
\* is the encoder's, all zeros.  The repacketizer's error is not looked at.
Repacketize(packet, frames) ==
  \E p \in {Parse(packet, FALSE)} :
    \/ p.count < 0 /\ Stop(Internal)
    \/ /\ p.count > 0
       /\ \E o \in {Out(Plain(packet[1]), p.size, job.max - to, ~IsLast(s),
                        ~job.vbr /\ IsLast(s))} :
            /\ data' = IF o.ret < 0 THEN data
                       ELSE data \o Packed(o, Frames(packet, p))
            /\ to' = to + o.ret
       /\ sent' = Append(sent, frames)
       /\ s' = s + 1
       /\ UNCHANGED <<phase, ret>>

EncodeStream ==
  /\ phase = "streams" /\ s <= LastStream
  /\ UNCHANGED <<layout, job, at, dec, child, pcm>>
  /\ \/ Possible(s) = {} /\ Stop(TooSmall)
     \/ \E f \in Possible(s), pad \in {FALSE, ~job.vbr} :
          \E e \in {EncodedOut(s, f, pad)} :
            \/ e.ret < 0 /\ Stop(Internal)
            \/ e.ret > 0 /\ Repacketize(Packed(e, Payload(s, f.size)),
                                       Payload(s, f.size))

EncodeDone ==
  /\ phase = "streams" /\ s > LastStream
  /\ phase' = "wire"
  /\ ret' = to
  /\ s' = 0 /\ to' = 0
  /\ UNCHANGED <<layout, job, data, sent, at, dec, child, pcm>>
-----------------------------------------------------------------------------
(***************************************************************************)
(* On the way.                                                             *)
(***************************************************************************)
Refuse(code) == phase' = "torn" /\ ret' = code

AsIs ==
  /\ phase = "wire"
  /\ phase' = "decode"
  /\ UNCHANGED <<layout, job, data, sent, s, at, to, dec, child, pcm, ret>>

\* opus_multistream_packet_pad to n bytes.
PadStart(n) ==
  /\ phase = "wire"
  /\ UNCHANGED <<layout, data, sent, s, at, to, dec, child, pcm>>
  /\ \/ (data = <<>> \/ Len(data) > n) /\ Refuse(BadArg) /\ UNCHANGED job
     \/ /\ data # <<>> /\ Len(data) = n
        /\ phase' = "decode" /\ ret' = 0
        /\ UNCHANGED job
     \/ /\ data # <<>> /\ Len(data) < n
        /\ phase' = "pad"
        /\ job' = [job EXCEPT !.max = n]
        /\ UNCHANGED ret

PadSkip ==
  /\ phase = "pad" /\ s < LastStream
  /\ UNCHANGED <<layout, job, data, sent, to, dec, child, pcm>>
  /\ \E p \in {Parse(Part, TRUE)} :
       \/ p.count < 0 /\ Refuse(p.count) /\ UNCHANGED <<s, at>>
       \/ /\ p.count > 0
          /\ at' = at + p.end - 1
          /\ s' = s + 1
          /\ UNCHANGED <<phase, ret>>

\* All the padding goes into the last stream.  The buffer of a refused packet
\* is not looked at again.
PadLast ==
  /\ phase = "pad" /\ s = LastStream
  /\ UNCHANGED <<layout, job, sent, to, dec, child, pcm>>
  /\ \E o \in PacketPad(Part, Len(Part) + job.max - Len(data)) :
       \/ o.ret < 0 /\ Refuse(o.ret) /\ UNCHANGED <<data, s, at>>
       \/ /\ o.ret >= 0
          /\ data' = SubSeq(data, 1, at - 1) \o o.bytes
          /\ phase' = "decode" /\ ret' = 0
          /\ s' = 0 /\ at' = 1

\* opus_multistream_packet_unpad drops the padding of each stream, extensions
\* included, and moves it to the front, in place.
UnpadStart ==
  /\ phase = "wire"
  /\ UNCHANGED <<layout, job, data, sent, s, at, to, dec, child, pcm>>
  /\ \/ data = <<>> /\ Refuse(BadArg)
     \/ data # <<>> /\ phase' = "unpad" /\ UNCHANGED ret

UnpadStream ==
  /\ phase = "unpad" /\ s <= LastStream
  /\ UNCHANGED <<layout, job, sent, dec, child, pcm>>
  /\ \E p \in {Parse(Part, ~IsLast(s))} :
       \/ p.count < 0 /\ Refuse(p.count) /\ UNCHANGED <<data, s, at, to>>
       \/ /\ p.count > 0
          /\ \E o \in {Out(Plain(Part[1]), p.size, Len(Part), ~IsLast(s), FALSE)} :
               \/ o.ret < 0 /\ Refuse(o.ret) /\ UNCHANGED <<data, s, at, to>>
               \/ /\ o.ret > 0
                  /\ data' = MoveFrames(data, to + 1, o, at, p)
                  /\ to' = to + o.ret
                  /\ at' = at + p.end - 1
                  /\ s' = s + 1
                  /\ UNCHANGED <<phase, ret>>

UnpadDone ==
  /\ phase = "unpad" /\ s > LastStream
  /\ data' = SubSeq(data, 1, to)
  /\ phase' = "decode" /\ ret' = to
  /\ s' = 0 /\ at' = 1 /\ to' = 0
  /\ UNCHANGED <<layout, job, sent, dec, child, pcm>>
-----------------------------------------------------------------------------
(***************************************************************************)
(* Decoding.                                                               *)
(***************************************************************************)
Return(code) == phase' = "done" /\ ret' = code

\* The checks before any stream is decoded.
Unfit(n, size) ==
  CASE n < 0 -> n
    [] n >= 0 /\ n > Least(size, MaxDuration) -> TooSmall
    [] OTHER -> 0

Refusal(size) ==
  CASE size <= 0 -> BadArg
    [] size > 0 /\ data = <<>> -> 0
    [] size > 0 /\ data # <<>> /\ Len(data) < 2 * layout.streams - 1 -> InvalidPacket
    [] OTHER -> Unfit(Validate(layout, data), size)

DecodeStart(size, fec) ==
  /\ phase = "decode"
  /\ UNCHANGED <<layout, job, data, sent, s, at, to, child, pcm>>
  /\ \E code \in {Refusal(size)} :
       \/ code # 0 /\ Return(code) /\ UNCHANGED dec
       \/ /\ code = 0
          /\ dec' = [frame |-> Least(size, MaxDuration), fec |-> fec, plc |-> data = <<>>]
          /\ phase' = "children"
          /\ UNCHANGED ret

\* The channels of the layout that hear side (0 left, 1 right) of stream n;
\* a stream that is not coupled has only one.
Source(n, side) ==
  IF n < layout.coupled THEN 2 * n + side ELSE n + layout.coupled

Heard(n, frames) ==
  [c \in DOMAIN pcm |->
     pcm[c] \o FlattenSeq([i \in 1 .. (IF n < layout.coupled THEN 2 ELSE 1) |->
       IF layout.mapping[c] = Source(n, i - 1) /\ layout.mapping[c] # Muted
       THEN <<[from |-> <<n, i - 1>>, n |-> frames]>> ELSE <<>>])]

\* What stream s's decoder returns: the samples of its part, or for
\* concealment and FEC as many as there is room for.
ChildSamples(p) ==
  CASE (dec.plc \/ dec.fec) /\ dec.frame % F2_5 # 0 -> BadArg
    [] ~dec.plc /\ p.count < 0 -> p.count
    [] ~dec.plc /\ ~dec.fec /\ NbSamples(Part, p.count) > dec.frame -> TooSmall
    [] ~dec.plc /\ ~dec.fec /\ NbSamples(Part, p.count) <= dec.frame ->
         NbSamples(Part, p.count)
    [] OTHER -> dec.frame

DecodeChild ==
  /\ phase = "children" /\ s <= LastStream
  /\ UNCHANGED <<layout, job, data, sent, to>>
  /\ \/ /\ ~dec.plc /\ Part = <<>>
        /\ Return(Internal) /\ UNCHANGED <<s, at, dec, child, pcm>>
     \/ /\ dec.plc \/ Part # <<>>
        /\ \E p \in {IF dec.plc THEN Refused ELSE Parse(Part, ~IsLast(s))} :
             \E n \in {ChildSamples(p)} :
               \/ n <= 0 /\ Return(n) /\ UNCHANGED <<s, at, dec, child, pcm>>
               \/ /\ n > 0                       \* its decoder fails
                  /\ child' = [child EXCEPT ![s].touched = TRUE]
                  /\ Return(Internal) /\ UNCHANGED <<s, at, dec, pcm>>
               \/ /\ n > 0
                  /\ child' = [child EXCEPT ![s] =
                        [touched |-> TRUE,
                         frames  |-> IF dec.plc THEN <<>> ELSE Frames(Part, p)]]
                  /\ at' = IF dec.plc THEN at ELSE at + p.end - 1
                  /\ dec' = [dec EXCEPT !.frame = n]
                  /\ pcm' = Heard(s, n)
                  /\ s' = s + 1
                  /\ UNCHANGED <<phase, ret>>

\* Silence to the muted channels.
Mute ==
  /\ phase = "children" /\ s > LastStream
  /\ pcm' = [c \in DOMAIN pcm |->
               IF layout.mapping[c] = Muted
               THEN Append(pcm[c], [from |-> <<>>, n |-> dec.frame]) ELSE pcm[c]]
  /\ Return(dec.frame)
  /\ UNCHANGED <<layout, job, data, sent, s, at, to, dec, child>>

Next ==
  \/ EncodeStart \/ EncodeStream \/ EncodeDone
  \/ AsIs \/ UnpadStart \/ UnpadStream \/ UnpadDone
  \/ \E n \in Growth : PadStart(Len(data) + n)
  \/ PadSkip \/ PadLast
  \/ \E size \in DecodeSize, fec \in BOOLEAN : DecodeStart(size, fec)
  \/ DecodeChild \/ Mute

Spec == Init /\ [][Next]_vars
-----------------------------------------------------------------------------
(* The encoder keeps its promise about space: asked for at least the       *)
(* smallest packet there is, the reserve of one or two bytes it keeps for  *)
(* the streams to come and for delimiters is enough whatever each stream   *)
(* used: no stream fails, the repacketizer's unchecked error never occurs, *)
(* the packet is no longer than allowed, and at a constant bit rate it is  *)
(* exactly that long.                                                      *)
EncodeFits ==
  /\ phase = "unsent" => job.max < Smallest
  /\ job.kind = "encode" /\ phase = "wire" =>
       /\ ret = Len(data) /\ ret > 0
       /\ IF job.vbr THEN ret <= job.max ELSE ret = job.max

\* Padding came to a last stream whose own padding is not blank.
PaddedOverMore ==
  /\ job.kind = "garbage" /\ job.max > 0 /\ s = LastStream
  /\ ~Blank(Padding(Part, Parse(Part, FALSE)))

(* Every stream's decoder gets exactly the frames its encoder made, also   *)
(* after the packet was padded or unpadded in place, and so it does for a  *)
(* valid packet of an unknown encoder: repacking neither mixes up nor      *)
(* overwrites frames still to be moved.  Unpadding refuses no valid packet *)
(* and padding none of this encoder's, nor any other unless there is more  *)
(* than padding in the padding of its last stream, which may be malformed  *)
(* extensions or ones that do not fit.                                     *)
DeliveredWhole ==
  /\ phase = "done" /\ ret > 0 /\ ~dec.plc =>
       \A n \in Stream : child[n].frames = sent[n + 1]
  /\ phase = "torn" =>
       sent = <<>> \/ (PaddedOverMore /\ ret \in {TooSmall, Internal})
  /\ phase \in {"decode", "done"} /\ sent # <<>> => Validate(layout, data) > 0

(* A decode call is all or nothing as far as a packet can decide it: if it *)
(* is refused, no decoder has moved on and no channel was written, so that *)
(* the streams stay together; only a failure inside a decoder may part     *)
(* them.  If it succeeds every channel got the same number of samples,     *)
(* once, from the side of the stream that its mapping names.               *)
AllOrNothing ==
  phase = "done" =>
    /\ ret <= 0 /\ ret # Internal =>
         /\ \A n \in Stream : ~child[n].touched
         /\ \A c \in DOMAIN pcm : pcm[c] = <<>>
    /\ ret > 0 =>
         /\ \A n \in Stream : child[n].touched
         /\ \A c \in DOMAIN pcm :
              LET m == layout.mapping[c]
                  from == IF m = Muted THEN <<>>
                          ELSE IF m < 2 * layout.coupled
                               THEN <<m \div 2, m % 2>>
                               ELSE <<m - layout.coupled, 0>>
              IN  pcm[c] = <<[from |-> from, n |-> ret]>>

(* Whatever bytes arrive, a packet that is taken apart keeps to itself:    *)
(* header, frames and padding lie inside it in that order, a packet that   *)
(* is not self-delimited is used up, no frame is longer than a frame may   *)
(* be and the packet no longer than 120 ms.                                *)
WithinPacket ==
  phase = "wire" /\ data # <<>> =>
    \A sd \in BOOLEAN :
      \A p \in {Parse(data, sd)} :
          p.count > 0 =>
            /\ p.at >= 2 /\ p.end - 1 <= Len(data)
            /\ p.at + SumFunction(p.size) <= p.end
            /\ ~sd => p.end - 1 = Len(data)
            /\ Len(p.size) = p.count
            /\ \A i \in 1..p.count : p.size[i] \in 0..MaxFrame
            /\ NbSamples(data, p.count) > 0
=============================================================================
