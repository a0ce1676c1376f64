---------------------------- MODULE MCOggStream ----------------------------
(* Pages of 2 lacing values; packets of 1 and 5, that is, sharing a page or *)
(* spread over three; up to five packets, the two headers included.         *)
EXTENDS OggStream

MCLaces == {1, 5}
MCGranules == {1, 4}
=============================================================================
