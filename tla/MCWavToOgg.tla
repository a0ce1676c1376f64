------------------------------ MODULE MCWavToOgg ------------------------------
(* Frames of two samples, reads of three sample frames: a read leaves part *)
(* of a frame over, and the input may end on or off either boundary.       *)
EXTENDS WavToOgg

MCRatios == {[up |-> 3, down |-> 2, half |-> 1], [up |-> 2, down |-> 3, half |-> 2]}
=============================================================================
