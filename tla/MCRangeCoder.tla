---------------------------- MODULE MCRangeCoder ----------------------------
(***************************************************************************)
(* Bytes of two bits and a code of eight: a carry runs through several     *)
(* bytes within four symbols.                                              *)
(***************************************************************************)
EXTENDS RangeCoder

Bit(value, logp) == [op |-> "bit", value |-> value, logp |-> logp]
Icdf(value)  == [op |-> "icdf", value |-> value, icdf |-> <<3, 1, 0>>, ftb |-> 2]
Uint(value, n) == [op |-> "uint", value |-> value, n |-> n]
Raw(value, n)  == [op |-> "bits", value |-> value, n |-> n]
Flags(n) == [op |-> "flags", value |-> 0, n |-> n]
Energy(value) == [op |-> "energy", value |-> value, fs |-> 5, decay |-> 5]

MCSymbol ==
  {Bit(0, 3), Bit(1, 3), Icdf(1), Icdf(2), Uint(1, 5), Uint(4, 5), Raw(5, 3), Flags(1),
   Flags(2), Energy(0), Energy(1), Energy(-9), Energy(9)}

\* All buffers of up to three bytes.
MCNoise == UNION {[1..n -> 0..SymMax] : n \in 1..3}
=============================================================================
