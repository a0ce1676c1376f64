-------------------------- MODULE MCOggPageWriter --------------------------
(* Pages of 3 lacing values; packets of 1, 2 and 7 (pages shared, or three    *)
(* pages of their own); granule positions modulo 16 around a span *)
(* of 3, falling back below the page start as an end-trimmed packet's does. *)
EXTENDS OggPageWriter

MCLaces == {1, 2, 7}
MCGranules == {1, 2, 5}
=============================================================================
