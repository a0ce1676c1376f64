--------------------------- MODULE MCOpusEncoder ---------------------------
(* Calls that change their settings from packet to packet.                 *)
EXTENDS OpusEncoder

Ask(rate, room, vbr, dur) == [rate |-> rate, room |-> room, vbr |-> vbr, dur |-> dur]

MCSetting ==
  {Ask(24000, 1275, TRUE, 8),    \* 20 ms, as much room as there can be
   Ask(24000, 45, TRUE, 8),      \* ... and little
   Ask(32000, 1275, FALSE, 8),   \* CBR with room for redundancy
   Ask(16000, 1275, FALSE, 8),   \* ... and without
   Ask(32000, 1275, FALSE, 16),  \* 40 ms: one SILK frame, two of the others
   Ask(30000, 300, TRUE, 48),    \* 120 ms: two SILK frames, six of the others
   Ask(64000, 1275, FALSE, 2),   \* 5 ms: CELT only
   Ask(24000, 2, TRUE, 8)}       \* no room for anything

\* Every remainder around the limits, where a bit more or less decides.
MCSlack == (-1 .. 44) \cup {112, 180}
=============================================================================
