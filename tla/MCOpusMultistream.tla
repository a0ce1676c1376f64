------------------------- MODULE MCOpusMultistream -------------------------
(***************************************************************************)
(* Bytes of 16 values.  Frames of 2.5 ms scaled to 2 samples, or twice     *)
(* that; no packet longer than 8.  Layouts with coupled and single         *)
(* streams, a muted channel and channels that share a source.              *)
(***************************************************************************)
EXTENDS OpusMultistream

L(streams, coupled, mapping) ==
  [streams |-> streams, coupled |-> coupled, mapping |-> mapping]

MCLayouts ==
  {L(1, 1, <<0, 1>>), L(2, 1, <<2, 0, 255, 1, 0>>), L(3, 0, <<0, 2, 1>>),
   L(2, 0, <<0, 3>>)}

MCDuration == (0 :> 2) @@ (1 :> 4) @@ (2 :> 4) @@ (3 :> 2)

\* All short packets of bytes that mean something to the header.
MCGarbage ==
  UNION {[1..n -> {0, 1, 2, 3, 5, 7, 11, 15}] : n \in 1..4}
=============================================================================
