----------------------------- MODULE MCResampler -----------------------------
(* Up- and downsampling, with filters narrow enough for forty frames of     *)
(* input to move past them several times; chunks shorter and longer than    *)
(* the filter.                                                              *)
EXTENDS Resampler

MCRatios == {[up |-> 3, down |-> 2, half |-> 2], [up |-> 2, down |-> 5, half |-> 3],
             [up |-> 1, down |-> 3, half |-> 4], [up |-> 1, down |-> 1, half |-> 1]}
=============================================================================
