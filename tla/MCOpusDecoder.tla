--------------------------- MODULE MCOpusDecoder ---------------------------
(***************************************************************************)
(* Two goroutines share a decoder.  2.5 ms are two samples, so that sizes   *)
(* that are no multiple of it exist.  The packets hold every mode, the     *)
(* shortest and the longest frames of each kind of codec, both kinds of    *)
(* redundancy, empty frames, a frame that overruns its data as the first   *)
(* and as the second of a packet, and a packet that does not parse.        *)
(***************************************************************************)
EXTENDS OpusDecoder

Pkt(mode, size, reds) ==
  [mode |-> mode, size |-> size * F2_5,
   frames |-> [i \in DOMAIN reds |->
                 [red  |-> IF reds[i] = "over" THEN "no" ELSE reds[i],
                  over |-> reds[i] = "over"]]]

MCPacket ==
  {Pkt("SILK", 4, <<"no", "empty">>), Pkt("SILK", 8, <<"s2c">>),
   Pkt("SILK", 8, <<"c2s">>), Pkt("SILK", 24, <<"empty">>),
   Pkt("HYBRID", 8, <<"c2s">>), Pkt("HYBRID", 8, <<"s2c">>),
   Pkt("HYBRID", 4, <<"over", "no">>),
   Pkt("CELT", 1, <<"no", "over">>), Pkt("CELT", 8, <<"no">>),
   Pkt("CELT", 8, <<>>)}

\* 0, 6.25, 12.5 and 67.5 ms
MCAskedSize == {0, 5, 10, 54}
=============================================================================
