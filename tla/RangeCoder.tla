----------------------------- MODULE RangeCoder -----------------------------
(***************************************************************************)
(* The range coder of opuscc: encoder (celt_ctl.go), decoder               *)
(* (celt_entropy.go) and the Laplace symbols of CELT's energies            *)
(* (celt_mdct.go).  Symbols go to the front of a buffer, raw bits to its   *)
(* end; both may meet in one byte.  A byte that a carry could still change *)
(* waits in rem, behind it ext bytes that the carry would run through.     *)
(*                                                                         *)
(* Widths are constants, so that TLC can use small ones: SymBits stands    *)
(* for 8, CodeBits for 32, Window for 32, UintBits for 8, LaplaceBits for  *)
(* 15 and LaplaceMin for 16.                                               *)
(***************************************************************************)
EXTENDS Integers, Sequences, Functions

CONSTANTS
  SymBits, CodeBits, Window, UintBits,
  LaplaceBits, LaplaceMin,
  Symbol,    \* what is encoded: [op, value, ...]
  Storage,   \* sizes of buffers
  MaxSymbols, \* in one buffer
  Noise,      \* buffers no encoder made
  MaxNoise    \* bits read from one of them

ASSUME WidthAssumption ==
  /\ SymBits \in Nat \ {0} /\ CodeBits \in Nat /\ CodeBits > 2 * SymBits
  /\ CodeBits % SymBits = 0 /\ Window % SymBits = 0
  /\ UintBits \in 1..(CodeBits - SymBits - 1)
  /\ LaplaceBits \in 1..(CodeBits - SymBits - 1)
  /\ Storage \subseteq Nat \ {0}

VARIABLES
  phase,  \* "encode", "failed", "decode" or "noise" (decoding any buffer)
  enc,    \* ec_enc
  dec,    \* ec_dec
  script, \* history: the symbols encoded
  marks,  \* history: range and bits used after each of them
  got     \* history: the values decoded

vars == <<phase, enc, dec, script, marks, got>>

Least(a, b) == IF a < b THEN a ELSE b
Most(a, b)  == IF a > b THEN a ELSE b

ByteSize == 2 ^ SymBits
SymMax   == ByteSize - 1
Top      == 2 ^ (CodeBits - 1)
Bot      == Top \div ByteSize
Shift    == CodeBits - SymBits - 1
Extra    == ((CodeBits - 2) % SymBits) + 1

\* bits.Len32
Bits(x) == CHOOSE n \in 0..CodeBits : x < 2 ^ n /\ (n = 0 \/ x >= 2 ^ (n - 1))

\* Of bytes.
Or(a, b) ==
  SumFunction([i \in 0 .. SymBits - 1 |->
    IF (a \div 2 ^ i) % 2 = 1 \/ (b \div 2 ^ i) % 2 = 1 THEN 2 ^ i ELSE 0])

\* ec_tell: the bits used so far, the same in encoder and decoder.
Tell(c) == c.total - Bits(c.rng)
-----------------------------------------------------------------------------
(***************************************************************************)
(* The encoder.                                                            *)
(***************************************************************************)
EncInit(size) ==
  [buf |-> [i \in 1..size |-> SymMax], storage |-> size, offs |-> 0, endOffs |-> 0,
   window |-> 0, nend |-> 0, total |-> CodeBits + 1, rng |-> Top, val |-> 0,
   rem |-> -1, ext |-> 0, error |-> FALSE, fatal |-> FALSE]

Free(e) == e.storage - e.offs - e.endOffs

\* Bytes to the front, to the end; what does not fit is an error.
WriteBytes(e, bytes) ==
  LET n == Least(Len(bytes), Free(e))
  IN  [e EXCEPT !.buf = [i \in DOMAIN @ |->
                           IF i \in e.offs + 1 .. e.offs + n
                           THEN bytes[i - e.offs] ELSE @[i]],
                !.offs = @ + n,
                !.error = @ \/ n < Len(bytes)]

WriteAtEnd(e, byte) ==
  IF Free(e) = 0 THEN [e EXCEPT !.error = TRUE]
  ELSE [e EXCEPT !.buf[e.storage - e.endOffs] = byte, !.endOffs = @ + 1]

WaitingNoCarry(e, carry) ==                       \* mutant: runs end the carry
  (IF e.rem >= 0 THEN <<(e.rem + carry) % ByteSize>> ELSE <<>>)
    \o [i \in 1..e.ext |-> SymMax]

Waiting(e, carry) ==
  (IF e.rem >= 0 THEN <<(e.rem + carry) % ByteSize>> ELSE <<>>)
    \o [i \in 1..e.ext |-> (SymMax + carry) % ByteSize]

\* c is a byte and a carry.
CarryOut(e, c) ==
  IF c = SymMax THEN [e EXCEPT !.ext = @ + 1]
  ELSE [WriteBytes(e, Waiting(e, c \div ByteSize)) EXCEPT
          !.ext = 0, !.rem = c % ByteSize]

EncNormalize(e) ==
  LET after[i \in 0..CodeBits] ==
        IF i = 0 THEN e
        ELSE LET p == after[i - 1]
             IN  IF p.rng > Bot THEN p
                 ELSE [CarryOut(p, p.val \div 2 ^ Shift) EXCEPT
                         !.val = (p.val * ByteSize) % Top,
                         !.rng = p.rng * ByteSize,
                         !.total = p.total + SymBits]
  IN  after[CodeBits \div SymBits]

\* The interval from fl to fh of ft; what the division leaves over goes to
\* the first.
Encode(e, fl, fh, ft) ==
  LET r == e.rng \div ft
  IN  EncNormalize(
        IF fl > 0
        THEN [e EXCEPT !.val = @ + e.rng - r * (ft - fl), !.rng = r * (fh - fl)]
        ELSE [e EXCEPT !.rng = @ - r * (ft - fh)])

EncBit(e, value, logp) ==
  LET one == e.rng \div 2 ^ logp
  IN  EncNormalize(
        IF value = 1 THEN [e EXCEPT !.val = @ + e.rng - one, !.rng = one]
        ELSE [e EXCEPT !.rng = @ - one])

\* icdf[n + 1] of 2^ftb lies above symbol n.
EncIcdf(e, value, icdf, ftb) ==
  Encode(e, IF value = 0 THEN 0 ELSE 2 ^ ftb - icdf[value],
            2 ^ ftb - icdf[value + 1], 2 ^ ftb)

\* Raw bits gather in a window; whole bytes leave it when it is full.
FlushEnd(e, all) ==
  LET full == e.nend \div SymBits
      after[i \in 0..full] ==
        IF i = 0 THEN e
        ELSE [WriteAtEnd(after[i - 1], after[i - 1].window % ByteSize) EXCEPT
                !.window = @ \div ByteSize, !.nend = @ - SymBits]
  IN  IF all THEN after[full] ELSE e

EncBits(e, value, n) ==
  LET f == FlushEnd(e, e.nend + n > Window)
  IN  [f EXCEPT !.window = @ + value * 2 ^ f.nend, !.nend = @ + n, !.total = @ + n]

EncUint(e, value, n) ==
  LET low == Bits(n - 1) - UintBits
  IN  IF low <= 0 THEN Encode(e, value, value + 1, n)
      ELSE LET high == value \div 2 ^ low
           IN  EncBits(Encode(e, high, high + 1, (n - 1) \div 2 ^ low + 1),
                       value % 2 ^ low, low)

\* The first n bits, encoded as the first of 2^n equal symbols, are replaced
\* wherever they are now.
PatchByte(b, value, n) == value * 2 ^ (SymBits - n) + (b % 2 ^ (SymBits - n))

PatchInitial(e, value, n) ==
  CASE e.offs > 0 -> [e EXCEPT !.buf[1] = PatchByte(@, value, n)]
    [] e.offs = 0 /\ e.rem >= 0 -> [e EXCEPT !.rem = PatchByte(@, value, n)]
    [] e.offs = 0 /\ e.rem < 0 /\ e.rng <= Top \div 2 ^ n ->
         [e EXCEPT !.val = (@ \div Top) * Top
                           + value * 2 ^ (CodeBits - 1 - n) + (@ % 2 ^ (CodeBits - 1 - n))]
    [] OTHER -> [e EXCEPT !.error = TRUE]

\* The end of the buffer moves to the front.
EncShrink(e, size) ==
  [e EXCEPT !.storage = size,
            !.buf = [i \in 1..size |-> IF i > size - e.endOffs
                                       THEN @[i + e.storage - size] ELSE @[i]]]

\* The fewest bits that lie in the interval whatever follows them.
Ending(e) ==
  LET l    == CodeBits - Bits(e.rng)
      End(k) == LET unit == 2 ^ (CodeBits - 1 - k)
                IN  ((e.val + unit - 1) \div unit) * unit
      lasts == End(l) + 2 ^ (CodeBits - 1 - l) - 1 < e.val + e.rng
      bits  == IF lasts THEN l ELSE l + 1
  IN  [bits |-> bits, end |-> End(bits)]

FinishFront(e) ==
  LET f == Ending(e)
      n == (f.bits + SymBits - 1) \div SymBits
      after[i \in 0..n] ==
        IF i = 0 THEN [e |-> e, end |-> f.end]
        ELSE [e   |-> CarryOut(after[i - 1].e, after[i - 1].end \div 2 ^ Shift),
              end |-> (after[i - 1].end * ByteSize) % Top]
  IN  IF after[n].e.rem >= 0 \/ after[n].e.ext > 0
      THEN CarryOut(after[n].e, 0) ELSE after[n].e

Unused(e) ==
  LET l == Ending(e).bits IN ((l + SymBits - 1) \div SymBits) * SymBits - l

ShareByteStrict(e, unused) ==                     \* mutant: <= for <
  LET at      == e.storage - e.endOffs
      overlap == Free(e) <= 0 /\ unused <= e.nend
      w       == IF overlap THEN e.window % 2 ^ unused ELSE e.window
  IN  CASE e.nend = 0 -> e
        [] e.nend > 0 /\ e.endOffs >= e.storage -> [e EXCEPT !.error = TRUE]
        [] OTHER -> [e EXCEPT !.error = overlap,
                              !.buf[at] = Or(@, w % ByteSize)]

\* The byte both ends share: bits of the window that do not fit it are lost.
ShareByte(e, unused) ==
  LET at      == e.storage - e.endOffs
      overlap == Free(e) <= 0 /\ unused < e.nend
      w       == IF overlap THEN e.window % 2 ^ unused ELSE e.window
  IN  CASE e.nend = 0 -> e
        [] e.nend > 0 /\ e.endOffs >= e.storage -> [e EXCEPT !.error = TRUE]
        [] OTHER -> [e EXCEPT !.error = overlap,
                              !.buf[at] = Or(@, w % ByteSize)]

EncDone(e) ==
  LET f == FlushEnd(FinishFront(e), TRUE)
      cleared == [f EXCEPT !.buf = [i \in DOMAIN @ |->
                    IF i \in f.offs + 1 .. f.storage - f.endOffs THEN 0 ELSE @[i]]]
  IN  IF f.error THEN f ELSE ShareByte(cleared, Unused(e))
-----------------------------------------------------------------------------
(***************************************************************************)
(* The decoder.  Past the ends of the buffer it reads zeros.               *)
(***************************************************************************)
ReadByte(d) ==
  IF d.offs < d.storage
  THEN [d EXCEPT !.offs = @ + 1, !.rem = d.buf[d.offs + 1]]
  ELSE [d EXCEPT !.rem = 0]

DecNormalize(d) ==
  LET after[i \in 0..CodeBits] ==
        IF i = 0 THEN d
        ELSE LET p   == after[i - 1]
                 q   == ReadByte(p)
                 sym == (p.rem * ByteSize + q.rem) \div 2 ^ (SymBits - Extra)
             IN  IF p.rng > Bot THEN p
                 ELSE [q EXCEPT !.total = @ + SymBits,
                                !.rng = @ * ByteSize,
                                !.val = (@ * ByteSize + SymMax - (sym % ByteSize)) % Top]
  IN  after[CodeBits \div SymBits]

DecInit(buf) ==
  LET d == ReadByte(
             [buf |-> buf, storage |-> Len(buf), offs |-> 0, endOffs |-> 0,
              window |-> 0, nend |-> 0, rng |-> 2 ^ Extra, val |-> 0, rem |-> 0,
              total |-> CodeBits + 1 - ((CodeBits - Extra) \div SymBits) * SymBits,
              error |-> FALSE, fatal |-> FALSE])
  IN  DecNormalize([d EXCEPT !.val = 2 ^ Extra - 1 - d.rem \div 2 ^ (SymBits - Extra)])

\* A decoded value and the decoder behind it.
Result(value, d) == [value |-> value, d |-> d]

DecodeUncapped(d, ft) ==                          \* mutant: what division leaves
  ft - (d.val \div (d.rng \div ft) + 1)

\* Where in ft the value lies, and the step over the interval it is in.
Decode(d, ft) == ft - Least(d.val \div (d.rng \div ft) + 1, ft)

DecUpdate(d, fl, fh, ft) ==
  LET r == d.rng \div ft
      s == r * (ft - fh)
  IN  DecNormalize([d EXCEPT !.val = @ - s,
                             !.rng = IF fl > 0 THEN r * (fh - fl) ELSE @ - s])

DecBit(d, logp) ==
  LET one == d.rng \div 2 ^ logp
  IN  IF d.val < one THEN Result(1, DecNormalize([d EXCEPT !.rng = one]))
      ELSE Result(0, DecNormalize([d EXCEPT !.val = @ - one, !.rng = @ - one]))

DecIcdf(d, icdf, ftb) ==
  LET r     == d.rng \div 2 ^ ftb
      n     == CHOOSE k \in DOMAIN icdf :
                 /\ d.val >= r * icdf[k]
                 /\ \A j \in 1 .. k - 1 : d.val < r * icdf[j]
      above == IF n = 1 THEN d.rng ELSE r * icdf[n - 1]
  IN  Result(n - 1, DecNormalize([d EXCEPT !.val = @ - r * icdf[n],
                                           !.rng = above - r * icdf[n]]))

\* Fills the window from the end, byte by byte.
Refill(d) ==
  LET after[i \in 0 .. Window \div SymBits] ==
        IF i = 0 THEN d
        ELSE LET p == after[i - 1]
                 inside == p.endOffs < p.storage
                 b == IF inside THEN p.buf[p.storage - p.endOffs] ELSE 0
             IN  IF i > 1 /\ p.nend > Window - SymBits THEN p
                 ELSE [p EXCEPT !.window = @ + b * 2 ^ p.nend,
                                !.nend = @ + SymBits,
                                !.endOffs = IF inside THEN @ + 1 ELSE @]
  IN  after[Window \div SymBits]

DecBits(d, n) ==
  LET p == IF d.nend < n THEN Refill(d) ELSE d
  IN  Result(p.window % 2 ^ n,
             [p EXCEPT !.window = @ \div 2 ^ n, !.nend = @ - n, !.total = @ + n])

DecUint(d, n) ==
  LET low == Bits(n - 1) - UintBits
      ft  == IF low <= 0 THEN n ELSE (n - 1) \div 2 ^ low + 1
      s   == Decode(d, ft)
      p   == DecUpdate(d, s, s + 1, ft)
      b   == DecBits(p, low)
      v   == s * 2 ^ low + b.value
  IN  CASE low <= 0 -> Result(s, p)
        [] low > 0 /\ v <= n - 1 -> Result(v, b.d)
        [] OTHER -> Result(n - 1, [b.d EXCEPT !.error = TRUE])
-----------------------------------------------------------------------------
(***************************************************************************)
(* Laplace symbols: zero has fs0 of the range, its neighbours shares that  *)
(* decay, and far values one unit each as long as units last; a value      *)
(* beyond them is clipped.                                                 *)
(***************************************************************************)
LaplaceTotal == 2 ^ LaplaceBits

LaplaceFirst(fs0, decay) ==
  ((LaplaceTotal - 2 * LaplaceMin - fs0) * (LaplaceTotal \div 2 - decay))
    \div LaplaceTotal

\* The pair of values -i and i, or where the decay ended: below fl lie the
\* nearer ones.
LaplacePair(fs0, decay, n) ==
  LET pair[i \in 1..n] ==
        IF i = 1 THEN [i |-> 1, fl |-> fs0, fs |-> LaplaceFirst(fs0, decay)]
        ELSE LET p == pair[i - 1]
             IN  IF p.fs = 0 THEN p
                 ELSE [i |-> i, fl |-> p.fl + 2 * p.fs + 2,
                       fs |-> (2 * p.fs * decay) \div LaplaceTotal]
  IN  pair[n]

\* The interval of a value and the value itself, clipped.
LaplaceFar(p, value) ==
  LET less == IF value < 0 THEN 1 ELSE 0
      most == (LaplaceTotal - p.fl + less) \div 2
      di   == Least((IF value < 0 THEN -value ELSE value) - p.i, most - 1)
      fl   == p.fl + 2 * di + 1 - less
  IN  [fl |-> fl, fs |-> Least(1, LaplaceTotal - fl),
       value |-> IF value < 0 THEN -(p.i + di) ELSE p.i + di]
LaplaceInterval(value, fs0, decay) ==
  LET p == LaplacePair(fs0, decay, IF value < 0 THEN -value ELSE value)
  IN  CASE value = 0 -> [fl |-> 0, fs |-> fs0, value |-> 0]
        [] value # 0 /\ p.fs = 0 -> LaplaceFar(p, value)
        [] OTHER -> [fl |-> IF value < 0 THEN p.fl ELSE p.fl + p.fs + 1,
                     fs |-> p.fs + 1, value |-> value]

\* The decoder's walk over pairs until fm lies in one.
LaplaceSearch(fm, fs0, decay) ==
  LET at[i \in 1..LaplaceTotal] ==
        IF i = 1
        THEN [val |-> 1, fl |-> fs0, fs |-> LaplaceFirst(fs0, decay) + 1, on |-> TRUE]
        ELSE LET p == at[i - 1]
             IN  IF ~(p.on /\ p.fs > 1 /\ fm >= p.fl + 2 * p.fs)
                 THEN [p EXCEPT !.on = FALSE]
                 ELSE [p EXCEPT !.val = @ + 1, !.fl = @ + 2 * p.fs,
                         !.fs = ((2 * @ - 2) * decay) \div LaplaceTotal + 1]
      p  == at[LaplaceTotal]
      di == IF p.fs <= 1 THEN (fm - p.fl) \div 2 ELSE 0
  IN  [p EXCEPT !.val = @ + di, !.fl = @ + 2 * di]

DecLaplace(d, fs0, decay) ==
  LET fm  == Decode(d, LaplaceTotal)
      p   == LaplaceSearch(fm, fs0, decay)
      neg == fm < p.fl + p.fs
      fl  == IF fm < fs0 THEN 0 ELSE IF neg THEN p.fl ELSE p.fl + p.fs
      fh  == Least(IF fm < fs0 THEN fs0 ELSE fl + p.fs, LaplaceTotal)
      val == IF fm < fs0 THEN 0 ELSE IF neg THEN -p.val ELSE p.val
  IN  Result(val, [DecUpdate(d, fl, fh, LaplaceTotal) EXCEPT
                     !.fatal = @ \/ ~(fl <= fm /\ fm < fh)])

EncLaplace(e, i) ==
  [Encode(e, i.fl, i.fl + i.fs, LaplaceTotal) EXCEPT
     !.fatal = @ \/ i.fs <= 0 \/ i.fl + i.fs > LaplaceTotal]

-----------------------------------------------------------------------------
(***************************************************************************)
(* Coarse energies.  How one is sent depends on the bits that are left of  *)
(* the buffer, which either side reads off its own coder: nothing in the   *)
(* packet says so.  Near the end the encoder clamps the value; what is     *)
(* modelled is a band that is not the first.                               *)
(***************************************************************************)
Left(c) == c.storage * SymBits - Tell(c)

EnergySent(left, s) ==
  CASE left >= LaplaceBits       -> LaplaceInterval(s.value, s.fs, s.decay).value
    [] left \in 2..LaplaceBits-1 -> Least(1, Most(-1, s.value))
    [] left = 1                  -> Least(0, Most(-1, s.value))
    [] OTHER                     -> -1

SmallEnergy == <<2, 1, 0>>   \* of two bits: 0, -1 and 1

EncEnergy(e, s) ==
  LET v == EnergySent(Left(e), s)
  IN  CASE Left(e) >= LaplaceBits -> EncLaplace(e, LaplaceInterval(s.value, s.fs, s.decay))
        [] Left(e) \in 2..LaplaceBits-1 ->
             EncIcdf(e, IF v < 0 THEN 1 ELSE 2 * v, SmallEnergy, 2)
        [] Left(e) = 1 -> EncBit(e, -v, 1)
        [] OTHER -> e

DecEnergy(d, s) ==
  CASE Left(d) >= LaplaceBits -> DecLaplace(d, s.fs, s.decay)
    [] Left(d) \in 2..LaplaceBits-1 ->
         LET r == DecIcdf(d, SmallEnergy, 2) IN [r EXCEPT !.value = <<0, -1, 1>>[@ + 1]]
    [] Left(d) = 1 -> LET r == DecBit(d, 1) IN [r EXCEPT !.value = -@]
    [] OTHER -> Result(-1, d)

MinAllowedTight(e) == (Tell(e) + SymBits - 1) \div SymBits  \* mutant: what is written fits

\* The least size to which a packet may shrink once it holds energies.
MinAllowed(e) == (Tell(e) + SymBits - 1) \div SymBits + 2
-----------------------------------------------------------------------------
(***************************************************************************)
(* One symbol either way.  "flags" are SILK's voice activity flags, which  *)
(* the encoder reserves before it knows them and patches at the end of the *)
(* packet; they come first.                                                *)
(***************************************************************************)
EncSymbol(e, s) ==
  CASE s.op = "bit"     -> EncBit(e, s.value, s.logp)
    [] s.op = "icdf"    -> EncIcdf(e, s.value, s.icdf, s.ftb)
    [] s.op = "uint"    -> EncUint(e, s.value, s.n)
    [] s.op = "bits"    -> EncBits(e, s.value, s.n)
    [] s.op = "flags"   -> Encode(e, 0, 1, 2 ^ s.n)
    [] s.op = "energy"  -> EncEnergy(e, s)

\* The value the caller of the encoder goes on with.
Encoded(e, s) ==
  IF s.op = "energy" THEN [s EXCEPT !.value = EnergySent(Left(e), s)] ELSE s

DecFlags(d, n) ==
  LET after[i \in 0..n] ==
        IF i = 0 THEN Result(0, d)
        ELSE LET b == DecBit(after[i - 1].d, 1)
             IN  Result(2 * after[i - 1].value + b.value, b.d)
  IN  after[n]

DecSymbol(d, s) ==
  CASE s.op = "bit"     -> DecBit(d, s.logp)
    [] s.op = "icdf"    -> DecIcdf(d, s.icdf, s.ftb)
    [] s.op = "uint"    -> DecUint(d, s.n)
    [] s.op = "bits"    -> DecBits(d, s.n)
    [] s.op = "flags"   -> DecFlags(d, s.n)
    [] s.op = "energy"  -> DecEnergy(d, s)
-----------------------------------------------------------------------------
Mark(c) == [rng |-> c.rng, total |-> c.total]

Init ==
  /\ script = <<>> /\ marks = <<>> /\ got = <<>>
  /\ \/ /\ phase = "encode"
        /\ \E n \in Storage : enc = EncInit(n)
        /\ dec = DecInit(<<0>>)
     \/ /\ phase = "noise"
        /\ enc = EncInit(1)
        /\ \E b \in Noise : dec = DecInit(b)

EncodeNext(s) ==
  /\ phase = "encode" /\ Len(script) < MaxSymbols
  /\ s.op = "flags" => script = <<>> /\ s.value = 0
  /\ enc' = EncSymbol(enc, s)
  /\ script' = Append(script, Encoded(enc, s))
  /\ marks' = Append(marks, Mark(enc'))
  /\ UNCHANGED <<phase, dec, got>>

Patch(v) ==
  /\ phase = "encode" /\ script # <<>>
  /\ script[1].op = "flags" /\ script[1].value = 0 /\ v \in 1 .. 2 ^ script[1].n - 1
  /\ enc' = PatchInitial(enc, v, script[1].n)
  /\ script' = [script EXCEPT ![1].value = v]
  /\ UNCHANGED <<phase, dec, marks, got>>

Shrink(size) ==
  /\ phase = "encode" /\ size < enc.storage /\ enc.offs + enc.endOffs <= size
  /\ (\E i \in DOMAIN script : script[i].op = "energy") => size >= MinAllowed(enc)
  /\ enc' = EncShrink(enc, size)
  /\ UNCHANGED <<phase, dec, script, marks, got>>

Finish ==
  /\ phase = "encode"
  /\ \E done \in {EncDone(enc)} :
       \/ done.error /\ phase' = "failed" /\ UNCHANGED dec
       \/ ~done.error /\ phase' = "decode" /\ dec' = DecInit(done.buf)
  /\ UNCHANGED <<enc, script, marks, got>>

DecodeNext ==
  /\ phase = "decode" /\ Len(got) < Len(script)
  /\ \E r \in {DecSymbol(dec, script[Len(got) + 1])} :
       dec' = r.d /\ got' = Append(got, r.value)
  /\ UNCHANGED <<phase, enc, script, marks>>

\* A buffer no encoder made, read for what it may not hold.
DecodeAny(s) ==
  /\ phase = "noise" /\ Tell(dec) < MaxNoise
  /\ \E r \in {DecSymbol(dec, s)} :
       dec' = r.d /\ got' = <<r.value>> /\ script' = <<s>>
  /\ UNCHANGED <<phase, enc, marks>>

Next ==
  \/ \E s \in Symbol : EncodeNext(s) \/ DecodeAny(s)
  \/ \E v \in 1..SymMax : Patch(v)
  \/ \E n \in Storage : Shrink(n)
  \/ Finish
  \/ DecodeNext

Spec == Init /\ [][Next]_vars
-----------------------------------------------------------------------------
(***************************************************************************)
(* Properties.                                                             *)
(***************************************************************************)
\* What was encoded is what is decoded, symbol by symbol, through carries,
\* patched flags, a moved end and a byte shared by both ends; and after each
\* symbol the decoder has the encoder's range and count of bits, which both
\* sides' bit allocation goes by: even when the packet has shrunk since, an
\* energy is read in the form it was sent in.  No value trips the encoder's
\* assertions.
RoundTrip ==
  /\ ~enc.fatal
  /\ phase = "decode" =>
       /\ \A i \in DOMAIN got : got[i] = script[i].value
       /\ got # <<>> => Mark(dec) = marks[Len(got)]

\* A packet whose bits the encoder counted within the buffer is finished
\* without an error: the count every caller checks is enough, whatever waits
\* for a carry or in the window.  Energies alone keep within it.
RoomEnough ==
  phase = "failed" =>
    /\ Left(enc) < 0
    /\ \E i \in DOMAIN script : script[i].op # "energy"

\* Any bytes decode to values their readers can use, without tripping an
\* assertion, and leave the decoder fit to go on.
Usable(s, value) ==
  CASE s.op = "bit"     -> value \in 0..1
    [] s.op = "icdf"    -> value + 1 \in DOMAIN s.icdf
    [] s.op = "uint"    -> value \in 0 .. s.n - 1
    [] s.op \in {"bits", "flags"} -> value \in 0 .. 2 ^ s.n - 1
    [] s.op = "energy"  -> LaplaceInterval(value, s.fs, s.decay).value = value

DecoderSound ==
  phase = "noise" =>
    /\ got # <<>> => Usable(script[1], got[1])
    /\ ~dec.fatal
    /\ dec.val < dec.rng /\ dec.rng > Bot /\ dec.rng <= Top
    /\ dec.offs <= dec.storage /\ dec.endOffs <= dec.storage /\ dec.nend >= 0
=============================================================================
