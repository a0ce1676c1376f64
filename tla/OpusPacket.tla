----------------------------- MODULE OpusPacket -----------------------------
(***************************************************************************)
(* The framing of Opus packets: how opuscc takes a packet apart            *)
(* (Opus_opus_packet_parse_impl) and how opusccenc's repacketizer puts the *)
(* frames together again, pads and unpads them, in place where the code    *)
(* does (Opus_opus_repacketizer_out_range_impl).                           *)
(*                                                                         *)
(* The byte is scaled down: Byte stands for 256, and every constant of the *)
(* format with it.  A byte is value + Byte * tag: code that reads it sees  *)
(* the value; the tag tells which byte of a payload it is, 0 for headers.  *)
(* What extensions say, which travel in the padding, is left open.         *)
(***************************************************************************)
EXTENDS Integers, Sequences, SequencesExt

CONSTANTS
  Byte,        \* 256
  Duration,    \* of a frame, by the configuration in the TOC byte
  MaxDuration  \* 120 ms

ASSUME PacketAssumption ==
  /\ Byte \in Nat /\ Byte >= 16 /\ Byte % 4 = 0
  /\ MaxDuration \in Nat
  /\ DOMAIN Duration = 0 .. Byte \div 4 - 1
  /\ \A c \in DOMAIN Duration : Duration[c] \in Nat \ {0} /\ 2 * Duration[c] <= MaxDuration

BadArg        == -1
TooSmall      == -2
Internal      == -3
InvalidPacket == -4

Escape   == Byte - 4                 \* 252: the size takes two bytes
MaxFrame == 5 * (Byte - 1)           \* 1275
Chunk    == Byte - 1                 \* 255: more padding follows

Value(b)  == b % Byte
Code(toc) == Value(toc) % 4
Config(toc) == Value(toc) \div 4
Plain(toc) == Value(toc) - Code(toc)  \* toc & 0xFC

CountOf(ch) == ch % (Byte \div 4)     \* ch & 63
IsPadded(ch) == (ch \div (Byte \div 4)) % 2 = 1
IsVbr(ch) == ch >= Byte \div 2
-----------------------------------------------------------------------------
(***************************************************************************)
(* Sizes of frames.                                                        *)
(***************************************************************************)
EncodeSize(n) ==
  IF n < Escape THEN <<n>>
  ELSE LET first == Escape + (n % 4) IN <<first, (n - first) \div 4>>

\* The size written at d[at], of which left bytes remain.
ParseSize(d, at, left) ==
  CASE left < 1 -> [bytes |-> -1, size |-> -1]
    [] left >= 1 /\ Value(d[at]) < Escape -> [bytes |-> 1, size |-> Value(d[at])]
    [] left = 1 /\ Value(d[at]) >= Escape -> [bytes |-> -1, size |-> -1]
    [] OTHER -> [bytes |-> 2, size |-> 4 * Value(d[at + 1]) + Value(d[at])]

\* n sizes, each of which fits what is left behind it.
OneMore(r, z) ==
  IF ~r.ok \/ z.size < 0 \/ z.size > r.left - z.bytes
  THEN [r EXCEPT !.ok = FALSE]
  ELSE [ok |-> TRUE, at |-> r.at + z.bytes,
        left |-> r.left - z.bytes, size |-> Append(r.size, z.size)]

ParseSizes(d, start, remaining, n) ==
  FoldLeft(LAMBDA r, i : OneMore(r, ParseSize(d, r.at, r.left)),
           [ok |-> TRUE, at |-> start, left |-> remaining, size |-> <<>>],
           [i \in 1..n |-> i])
-----------------------------------------------------------------------------
(***************************************************************************)
(* Taking a packet apart.  d is all there is from the packet on; a self-   *)
(* delimited packet says itself where it ends.                             *)
(***************************************************************************)
Refused == [count |-> InvalidPacket]

Header(count, cbr, at, left, pad) ==
  [count |-> count, cbr |-> cbr, at |-> at, left |-> left, pad |-> pad]

\* The padding counts at d[3]: all but the last are Chunk, which stands for
\* one byte less of padding.  Before each there must be bytes left.
PaddingRuns(d) ==
  {k \in 0 .. Len(d) - 3 :
     /\ k * Chunk < Len(d) - 2
     /\ Value(d[3 + k]) # Chunk
     /\ \A j \in 0 .. k - 1 : Value(d[3 + j]) = Chunk}

LeftKeepsPadding(d, bytes, pad) == Len(d) - 2 - bytes  \* mutant: still counted
LeftAfter(d, bytes, pad) == Len(d) - 2 - bytes - pad

HeaderWith(d, ch, bytes, pad) ==
  IF LeftAfter(d, bytes, pad) < 0 THEN Refused
  ELSE Header(CountOf(ch), ~IsVbr(ch), 3 + bytes, LeftAfter(d, bytes, pad), pad)

LongHeader(d, ch) ==
  CASE CountOf(ch) = 0 -> Refused
    [] CountOf(ch) > 0 /\ Duration[Config(d[1])] * CountOf(ch) > MaxDuration -> Refused
    [] CountOf(ch) > 0 /\ Duration[Config(d[1])] * CountOf(ch) <= MaxDuration ->
         IF ~IsPadded(ch) THEN HeaderWith(d, ch, 0, 0)
         ELSE IF PaddingRuns(d) = {} THEN Refused
         ELSE CHOOSE h \in {HeaderWith(d, ch, k + 1, k * (Chunk - 1) + Value(d[3 + k])) :
                               k \in PaddingRuns(d)} : TRUE

ParseHeader(d) ==
  CASE Code(d[1]) = 0 -> Header(1, FALSE, 2, Len(d) - 1, 0)
    [] Code(d[1]) = 1 -> Header(2, TRUE, 2, Len(d) - 1, 0)
    [] Code(d[1]) = 2 -> Header(2, FALSE, 2, Len(d) - 1, 0)
    [] Code(d[1]) = 3 /\ Len(d) < 2 -> Refused
    [] OTHER -> LongHeader(d, Value(d[2]))

\* count frames: their sizes, where the first starts and the packet ends.
Parsed(h, size, at) ==
  [count |-> h.count, size |-> size, at |-> at,
   end |-> at + SumFunction(size) + h.pad]

Same(n, count) == [i \in 1..count |-> n]

\* The sizes of all frames but the last are written, that of the last follows
\* from the length, or is written too in a self-delimited packet.
\* z is what ParseSizes found, last the size behind it.
LastOfVbr(h, z, last, rest, sd) ==
  CASE ~sd /\ rest \in 0..MaxFrame -> Parsed(h, Append(z.size, rest), z.at)
    [] sd /\ last.size >= 0 /\ last.bytes + last.size <= rest ->
         Parsed(h, Append(z.size, last.size), z.at + last.bytes)
    [] OTHER -> Refused

ParseVbr(d, h, z, sd) ==
  IF ~z.ok THEN Refused
  ELSE LastOfVbr(h, z, ParseSize(d, z.at, z.left), z.left - SumFunction(z.size), sd)

ParseCbr(h, last, sd) ==
  CASE ~sd /\ h.left % h.count = 0 /\ h.left \div h.count <= MaxFrame ->
         Parsed(h, Same(h.left \div h.count, h.count), h.at)
    [] sd /\ last.size >= 0 /\ last.size * h.count <= h.left - last.bytes ->
         Parsed(h, Same(last.size, h.count), h.at + last.bytes)
    [] OTHER -> Refused

ParseFrames(d, h, sd) ==
  CASE h.count < 0 -> Refused
    [] h.count > 0 /\ h.cbr -> ParseCbr(h, ParseSize(d, h.at, h.left), sd)
    [] OTHER -> ParseVbr(d, h, ParseSizes(d, h.at, h.left, h.count - 1), sd)

Parse(d, sd) == IF d = <<>> THEN Refused ELSE ParseFrames(d, ParseHeader(d), sd)

\* Where frame i of a parsed packet starts, and the frames themselves.
FrameAt(p, i) == p.at + SumFunction(SubSeq(p.size, 1, i - 1))
Frames(d, p) ==
  [i \in 1..p.count |-> SubSeq(d, FrameAt(p, i), FrameAt(p, i) + p.size[i] - 1)]

\* The padding itself, behind the frames.
Padding(d, p) == SubSeq(d, p.at + SumFunction(p.size), p.end - 1)

\* Nothing but padding: a byte 1 is one byte of it, from a byte 0 all is.
Blank(x) == \A i \in DOMAIN x : Value(x[i]) > 1 => \E j \in 1 .. i - 1 : Value(x[j]) = 0

NbSamples(d, count) ==
  LET n == count * Duration[Config(d[1])]
  IN  IF n > MaxDuration THEN InvalidPacket ELSE n
-----------------------------------------------------------------------------
(***************************************************************************)
(* Putting frames of the given sizes into a packet of at most maxlen       *)
(* bytes, exactly maxlen if pad: the header before the frames, the bytes   *)
(* of padding behind them, and the length or the error.                    *)
(***************************************************************************)
Delimiter(size, sd) == IF sd THEN EncodeSize(size[Len(size)]) ELSE <<>>

AllSizes(size, n) == FlattenSeq([i \in 1..n |-> EncodeSize(size[i])])

Vbr(size) == \E i \in DOMAIN size : size[i] # size[1]

ShortHead(toc, size) ==
  CASE Len(size) = 1 -> <<toc>>
    [] Len(size) = 2 /\ ~Vbr(size) -> <<toc + 1>>
    [] OTHER -> <<toc + 2>> \o EncodeSize(size[1])

\* The counts for amount bytes of padding, themselves included.
PadCountsWhole(amount) ==                         \* mutant: a full last count
  [i \in 1..(amount \div Chunk) |-> Chunk] \o <<amount % Chunk>>
PadCounts(amount) ==
  LET full == (amount - 1) \div Chunk
  IN  [i \in 1..full |-> Chunk] \o <<amount - Chunk * full - 1>>

LongHeadOf(toc, size, amount) ==
  <<toc + 3,
    Len(size) + (IF Vbr(size) THEN Byte \div 2 ELSE 0)
              + (IF amount > 0 THEN Byte \div 4 ELSE 0)>>
  \o (IF amount > 0 THEN PadCounts(amount) ELSE <<>>)
  \o (IF Vbr(size) THEN AllSizes(size, Len(size) - 1) ELSE <<>>)

Made(head, payload, fill) ==
  [ret |-> Len(head) + payload + fill, head |-> head, fill |-> fill]

\* Any number of frames, amount bytes of padding.
OutLong(toc, size, payload, tail, amount) ==
  Made(LongHeadOf(toc, size, amount) \o tail, payload,
       IF amount = 0 THEN 0 ELSE amount - Len(PadCounts(amount)))

\* Room is left when the short and the long header are as they are.
OutIn(toc, size, payload, tail, pad, roomShort, roomLong) ==
  CASE Len(size) <= 2 /\ roomShort < 0 -> [ret |-> TooSmall]
    [] Len(size) <= 2 /\ roomShort >= 0 /\ ~(pad /\ roomShort > 0) ->
         Made(ShortHead(toc, size) \o tail, payload, 0)
    [] Len(size) > 2 /\ roomLong < 0 -> [ret |-> TooSmall]
    [] OTHER -> OutLong(toc, size, payload, tail, IF pad THEN roomLong ELSE 0)

RoomFor(maxlen, head, tail, payload) == maxlen - Len(head \o tail) - payload

Out(toc, size, maxlen, sd, pad) ==
  OutIn(toc, size, SumFunction(size), Delimiter(size, sd), pad,
        RoomFor(maxlen, ShortHead(toc, size), Delimiter(size, sd), SumFunction(size)),
        RoomFor(maxlen, LongHeadOf(toc, size, 0), Delimiter(size, sd), SumFunction(size)))

(***************************************************************************)
(* The repacketizer takes the extensions of the packets along.  Whether    *)
(* padding that is not blank holds any is left open: if they are malformed *)
(* the result is Internal, and TooSmall if they do not fit any more, which *)
(* the generator of extensions says of itself for long ones; if they are   *)
(* kept, they take bytes of padding that nothing reads again.  Out is what *)
(* happens when the padding is blank or was dropped before.                *)
(***************************************************************************)
Outs(padding, toc, size, maxlen, sd, pad) ==
  {Out(toc, size, maxlen, sd, pad)}
    \cup (IF Blank(padding) THEN {} ELSE {[ret |-> TooSmall], [ret |-> Internal]})

Zeros(n) == [i \in 1..n |-> 0]

\* The packet, when the frames lie elsewhere than the packet.
Packed(o, frames) == o.head \o FlattenSeq(frames) \o Zeros(o.fill)

\* bytes over data, from position at on.
Write(data, at, bytes) ==
  [i \in 1..Len(data) |-> IF i \in at .. at + Len(bytes) - 1
                          THEN bytes[i - at + 1] ELSE data[i]]

(***************************************************************************)
(* The packet, written to data at position to, when its frames still lie   *)
(* in data: the header goes over whatever is there, then each frame is     *)
(* moved, first to last, from where the parsed packet p at position from   *)
(* has it.                                                                 *)
(***************************************************************************)
MoveFrames(data, to, o, from, p) ==
  LET Move(r, i) ==
        [mem |-> Write(r.mem, r.ptr, SubSeq(r.mem, from + FrameAt(p, i) - 1,
                                            from + FrameAt(p, i) + p.size[i] - 2)),
         ptr |-> r.ptr + p.size[i]]
  IN  FoldLeft(Move, [mem |-> Write(data, to, o.head), ptr |-> to + Len(o.head)],
               [i \in 1..p.count |-> i]).mem

(***************************************************************************)
(* opus_packet_pad: what may come of it, the same frames in a packet of    *)
(* n >= Len(d) bytes, from a copy of the packet, or an error.              *)
(***************************************************************************)
Padded(d, p, o) ==
  IF o.ret < 0 THEN [ret |-> o.ret] ELSE [ret |-> o.ret, bytes |-> Packed(o, Frames(d, p))]

Repacked(d, p, n) ==
  IF p.count < 0 THEN {[ret |-> p.count]}
  ELSE {Padded(d, p, o) : o \in Outs(Padding(d, p), Plain(d[1]), p.size, n, FALSE, TRUE)}

PacketPad(d, n) ==
  CASE d = <<>> -> {[ret |-> BadArg]}
    [] d # <<>> /\ Len(d) = n -> {[ret |-> n, bytes |-> d]}
    [] d # <<>> /\ Len(d) > n -> {[ret |-> BadArg]}
    [] OTHER -> Repacked(d, Parse(d, FALSE), n)
=============================================================================
