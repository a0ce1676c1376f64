--------------------------- MODULE PacketChannel ---------------------------
(***************************************************************************)
(* What an Ogg stream promises the two programs at its ends: the packets   *)
(* handed to the muxer come out of the demuxer in order, once each, with   *)
(* their sizes, flags and positions.  OggStream implements this.           *)
(***************************************************************************)
EXTENDS Naturals, Sequences

CONSTANT Packets    \* what can be sent

VARIABLES sent, received

Init == sent = <<>> /\ received = <<>>

Send == \E p \in Packets : /\ sent' = Append(sent, p)
                           /\ UNCHANGED received

Receive == /\ Len(received) < Len(sent)
           /\ received' = Append(received, sent[Len(received) + 1])
           /\ UNCHANGED sent

Spec == Init /\ [][Send \/ Receive]_<<sent, received>>
=============================================================================
