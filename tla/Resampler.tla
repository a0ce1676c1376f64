------------------------------ MODULE Resampler ------------------------------
(***************************************************************************)
(* The rate converter (src/resample/resample.go) as it moves along its     *)
(* input: which input frames each output frame is made from, and which     *)
(* ones are kept for later.  A frame is its number; the filter's weights   *)
(* are left out, and channels are alike.                                   *)
(***************************************************************************)
EXTENDS Integers, Sequences

CONSTANTS
    Ratios,       \* [up, down, half]: rates, reduced, and filter half-width
    ChunkSizes,   \* frames of one call of Process
    MaxFrames     \* bound: input frames

ASSUME ResamplerConstants ==
    /\ Ratios \subseteq [up: Nat \ {0}, down: Nat \ {0}, half: Nat \ {0}]
    /\ ChunkSizes \subseteq Nat
    /\ MaxFrames \in Nat

VARIABLES
    ratio,
    buf, base,    \* pending input; buf's first frame is input frame base
    inFrames,     \* input frames seen so far
    next,         \* next output frame to produce
    flushed,
    out           \* history: of each output frame, the input frames in it

converter == <<ratio, buf, base, inFrames, next, flushed, out>>

ConverterInit ==
    /\ ratio \in Ratios
    /\ buf = <<>> /\ base = 0
    /\ inFrames = 0 /\ next = 0
    /\ flushed = FALSE
    /\ out = <<>>

(* Output frame n lies just past input frame Center(n); its filter reaches  *)
(* from half - 1 frames before that to half frames after it.               *)
Center(n) == (n * ratio.down) \div ratio.up
Window(n) == (Center(n) - ratio.half + 1)..(Center(n) + ratio.half)

(* The window is covered by the first `seen' input frames. *)
CoveredEarly(n, seen) == Center(n) + ratio.half =< seen   \* mutant: one short
Covered(n, seen) == Center(n) + ratio.half < seen

(* What output frame n is made from, of an input buffer b that starts at   *)
(* frame `base', of `seen' frames up to now; silence beside them.  A frame *)
(* that is no longer in the buffer (the code would panic) is missed.       *)
Sources(n, b, seen) ==
    {b[i] : i \in {k - base + 1 : k \in Window(n) \cap 0..(seen - 1)} \cap DOMAIN b}

(* Input no future output frame reaches back to.                           *)
DropTooFar(n, seen) == Center(n) - base                  \* mutant: half forgotten
ToDrop(n, seen) == Center(n) - ratio.half + 1 - base
Dropped(n, seen) ==
    LET drop == ToDrop(n, seen)
    IN  IF drop > 0 THEN IF drop < seen - base THEN drop ELSE seen - base
                    ELSE 0

NewBase(drop) == base + drop

(* produce: output frames next..end-1 from the input seen so far.          *)
Produce(b, seen, end) ==
    LET new == IF next < end THEN end - next ELSE 0
    IN  /\ out' = out \o [i \in 1..new |-> Sources(next + i - 1, b, seen)]
        /\ next' = next + new
        /\ buf' = SubSeq(b, Dropped(next + new, seen) + 1, Len(b))
        /\ base' = NewBase(Dropped(next + new, seen))

(* Process(in): every output frame whose window is now covered.            *)
Process(n) ==
    LET seen == inFrames + n
        b    == buf \o [i \in 1..n |-> inFrames + i - 1]
    IN  /\ ~ flushed /\ seen =< MaxFrames
        /\ inFrames' = seen
        /\ \E end \in next..(next + seen * ratio.up) :
             /\ ~ Covered(end, seen)
             /\ \A m \in next..(end - 1) : Covered(m, seen)
             /\ Produce(b, seen, end)
        /\ UNCHANGED <<ratio, flushed>>

(* Flush(): the rest, the input past its end being silence.                *)
TotalRoundedDown == (inFrames * ratio.up) \div ratio.down        \* mutant
Total == (inFrames * ratio.up + ratio.down - 1) \div ratio.down

Flush ==
    /\ ~ flushed /\ flushed' = TRUE
    /\ Produce(buf, inFrames, Total)
    /\ UNCHANGED <<ratio, inFrames>>

ConverterNext == (\E n \in ChunkSizes : Process(n)) \/ Flush

ConverterSpec == ConverterInit /\ [][ConverterNext]_converter

----------------------------------------------------------------------------
(* The buffer holds the input from base on, nothing else. *)
ConverterTypeOK ==
    /\ ratio \in Ratios
    /\ base \in 0..inFrames
    /\ inFrames \in Nat /\ next \in Nat
    /\ flushed \in BOOLEAN
    /\ Len(buf) = inFrames - base
    /\ \A i \in DOMAIN buf : buf[i] = base + i - 1

(* Every output frame is made from its whole window, clipped to the whole  *)
(* input: the same whatever the sizes of the chunks, nothing dropped       *)
(* before its last use, nothing produced before its input was there.       *)
ChunkingInvisible ==
    \A i \in DOMAIN out :
        out[i] = {k \in Window(i - 1) : 0 =< k /\ k < inFrames}

(* "Across the whole stream it produces exactly ceil(inputFrames * to /    *)
(* from) frames."                                                          *)
CountExact ==
    flushed => /\ Len(out) * ratio.down >= inFrames * ratio.up
               /\ (Len(out) - 1) * ratio.down < inFrames * ratio.up
=============================================================================
