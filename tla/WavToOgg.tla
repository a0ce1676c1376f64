------------------------------- MODULE WavToOgg -------------------------------
(***************************************************************************)
(* The encode pipeline of src/cmd/wav2oggopus/main.go: a WAV reader        *)
(* (src/wav/reader.go), pcmSource with the rate converter (Resampler), the *)
(* encode loop and the packets it hands to the page writer.                *)
(*                                                                         *)
(* A sample is known by its number: pending and packets hold the numbers   *)
(* of sample frames at the encoder's rate, Silence being the padding.  The *)
(* codec is external: it delays its input by `lookahead' frames.           *)
(***************************************************************************)
EXTENDS Resampler

CONSTANTS
    Scales,        \* 48 kHz samples per sample at the encoder's rate
    Lookaheads,    \* the codec's delay, at the encoder's rate
    FrameSizes,    \* sample frames of one packet
    Channels,      \* channel counts
    ChunkFrames,   \* sample frames of one read from the WAV file
    MaxBytes,      \* bound: bytes of audio a WAV header announces
    MaxPackets     \* bound: packets written

ASSUME WavToOggConstants ==
    /\ Scales \subseteq Nat \ {0} /\ Lookaheads \subseteq Nat \ {0}
    /\ FrameSizes \subseteq Nat \ {0} /\ Channels \subseteq Nat \ {0}
    /\ ChunkFrames \in Nat \ {0}
    /\ MaxBytes \in Nat /\ MaxPackets \in Nat

VARIABLES
    job,            \* the run: see Jobs
    dataRemaining,  \* bytes the WAV reader still expects
    inFile,         \* bytes of audio still in the file
    pending,        \* pcmSource: sample frames not handed out
    eof, exhausted,
    fed, realFrames,
    held,           \* the packet held back: a sequence of at most one
    stream,         \* packets the page writer has accepted
    result          \* "setup", "running", "ok" or "error"

source    == <<dataRemaining, inFile, pending, eof>>
vars      == <<converter, job, source, exhausted, fed, realFrames, held, stream,
               result>>

Silence == -1

(* A run: the WAV file's header and the options.  A rate libopus does not  *)
(* encode is resampled to 48 kHz, so its scale is 1.                       *)
Jobs == {j \in [resampled: BOOLEAN, scale: Scales, lookahead: Lookaheads,
                frame: FrameSizes, channels: Channels, bytes: 0..MaxBytes] :
           j.resampled => j.scale = 1}

Init ==
    /\ ConverterInit
    /\ job \in Jobs
    /\ dataRemaining = job.bytes /\ inFile \in 0..job.bytes
    /\ pending = <<>> /\ eof = FALSE /\ exhausted = FALSE
    /\ fed = 0 /\ realFrames = 0
    /\ held = <<>> /\ stream = <<>>
    /\ result = "setup"

Numbers(from, to) == [i \in 1..(to - from) |-> from + i - 1]
Least(a, b) == IF a < b THEN a ELSE b

PreSkip == job.lookahead * job.scale

(* The files are opened, the encoder configured, the headers written.      *)
WriteHeaders ==
    /\ result = "setup"
    /\ result' \in {"running", "error"}
    /\ UNCHANGED <<converter, job, source, exhausted, fed, realFrames, held, stream>>

----------------------------------------------------------------------------
(* for !src.exhausted || fed < realFrames+lookahead *)
MoreWhileReal == ~ exhausted \/ fed < realFrames                 \* mutant
MoreByOne == ~ exhausted \/ fed =< realFrames + job.lookahead    \* mutant
More == ~ exhausted \/ fed < realFrames + job.lookahead

(* fill's loop goes on. *)
Reading == /\ result = "running" /\ More
           /\ Len(pending) < job.frame /\ ~ eof

(* The samples ReadInt16PCM tries to read.                                 *)
Wanted == Least(ChunkFrames * job.channels, dataRemaining \div 2)

(* Sample frames taken from the file when `remaining' bytes are still      *)
(* expected, a torn one left out.                                          *)
FramesRead(remaining) == ((job.bytes - remaining) \div 2) \div job.channels

AppendedOver(s) == s                                             \* mutant
Appended(s) == pending \o s

(* A whole chunk is read, and cut to whole sample frames.                  *)
ReadChunk ==
    /\ Reading
    /\ Wanted > 0 /\ inFile >= 2 * Wanted
    /\ dataRemaining' = dataRemaining - 2 * Wanted
    /\ inFile' = inFile - 2 * Wanted
    /\ IF job.resampled
       THEN /\ Process(Wanted \div job.channels)
            /\ pending' = Appended(Numbers(next, next'))
       ELSE /\ pending' = Appended(Numbers(FramesRead(dataRemaining),
                                        FramesRead(dataRemaining')))
            /\ UNCHANGED converter
    /\ UNCHANGED <<job, eof, exhausted, fed, realFrames, held, stream, result>>

(* io.EOF: the announced bytes are used up, or the file ends right here.   *)
(* The converter is flushed, its last Process having been given nothing.   *)
ReadEnd ==
    /\ Reading
    /\ Wanted = 0 \/ inFile = 0
    /\ dataRemaining' = IF Wanted = 0 THEN 0 ELSE dataRemaining
    /\ eof' = TRUE
    /\ IF job.resampled
       THEN Flush /\ pending' = Appended(Numbers(next, next'))
       ELSE UNCHANGED <<converter, pending>>
    /\ UNCHANGED <<job, inFile, exhausted, fed, realFrames, held, stream, result>>

(* io.ErrUnexpectedEOF: the file ends within the chunk.                    *)
ReadTorn ==
    /\ Reading
    /\ 0 < inFile /\ inFile < 2 * Wanted
    /\ result' = "error"
    /\ UNCHANGED <<converter, job, source, exhausted, fed, realFrames, held, stream>>

----------------------------------------------------------------------------
Filled == /\ result = "running" /\ More
          /\ Len(pending) >= job.frame \/ eof
          /\ Len(stream) < MaxPackets

Copied == Least(job.frame, Len(pending))

(* fill: the next frame, zeroes where the input has run out.               *)
Frame == SubSeq(pending, 1, Copied) \o [i \in 1..(job.frame - Copied) |-> Silence]

ExhaustedByAudio == eof /\ Copied > 0 /\ Len(pending) = Copied   \* mutant
Exhausted == eof /\ Len(pending) = Copied

EarlyEos == Exhausted                                            \* mutant
HeldEos == FALSE

(* One turn: fill, Encode, and the packet held back goes out.              *)
EncodeFrame ==
    /\ Filled
    /\ pending' = SubSeq(pending, Copied + 1, Len(pending))
    /\ exhausted' = (exhausted \/ Exhausted)
    /\ realFrames' = realFrames + Copied
    /\ fed' = fed + job.frame
    /\ stream' = stream \o [i \in DOMAIN held |-> [held[i] EXCEPT !.eos = HeldEos]]
    /\ held' = <<[audio |-> Frame, granule |-> fed' * job.scale, eos |-> FALSE]>>
    /\ UNCHANGED <<converter, job, dataRemaining, inFile, eof, result>>

(* Encode or WritePacket fails, and encode returns: what it had in memory  *)
(* is gone, and no packet of this turn was written.                        *)
TurnFails ==
    /\ Filled
    /\ result' = "error"
    /\ UNCHANGED <<converter, job, source, exhausted, fed, realFrames, held, stream>>

FinalWithoutSkip == realFrames * job.scale                       \* mutant
FinalGranule == PreSkip + realFrames * job.scale

(* The last packet carries EOS and the end-trimming granule.               *)
WriteLast ==
    /\ result = "running" /\ ~ More
    /\ stream' = stream \o
         [i \in DOMAIN held |-> [held[i] EXCEPT !.granule = FinalGranule, !.eos = TRUE]]
    /\ held' = <<>>
    /\ result' \in {"ok", "error"}         \* pw.Flush may fail
    /\ UNCHANGED <<converter, job, source, exhausted, fed, realFrames>>

WriteLastFails ==
    /\ result = "running" /\ ~ More
    /\ result' = "error"
    /\ UNCHANGED <<converter, job, source, exhausted, fed, realFrames, held, stream>>

Next ==
    \/ WriteHeaders
    \/ ReadChunk \/ ReadEnd \/ ReadTorn
    \/ EncodeFrame \/ TurnFails
    \/ WriteLast \/ WriteLastFails

Spec == Init /\ [][Next]_vars
FairSpec == Spec /\ WF_vars(Next)

----------------------------------------------------------------------------
Packets == stream \o held

(* Every packet is encoded from exactly one frame's worth of samples, as   *)
(* Encode demands of its buffer.                                           *)
TypeOK ==
    /\ ConverterTypeOK
    /\ job \in Jobs
    /\ dataRemaining \in 0..job.bytes /\ inFile \in 0..job.bytes
    /\ eof \in BOOLEAN /\ exhausted \in BOOLEAN
    /\ fed \in Nat /\ realFrames \in Nat
    /\ Len(held) =< 1
    /\ \A i \in DOMAIN Packets :
         /\ Len(Packets[i].audio) = job.frame
         /\ Packets[i].granule \in Nat /\ Packets[i].eos \in BOOLEAN
    /\ result \in {"setup", "running", "ok", "error"}

(* What the encoder was fed, position by position. *)
Fed(p) == Packets[(p \div job.frame) + 1].audio[(p % job.frame) + 1]

(* What the input holds at the encoder's rate, as far as it was read.      *)
Available == IF job.resampled THEN next ELSE FramesRead(dataRemaining)

(* At every moment the samples encoded and those pending are all that was  *)
(* read, each once and in order, with silence only after the last.         *)
NothingLost ==
    /\ realFrames + Len(pending) = Available
    /\ \A i \in DOMAIN pending : pending[i] = realFrames + i - 1
    /\ \A p \in 0..(fed - 1) : Fed(p) = IF p < realFrames THEN p ELSE Silence

(* A finished file plays back the input exactly: the codec's delay before  *)
(* it is skipped, the silence after it is trimmed, and the last sample has *)
(* been pushed through the codec.                                          *)
PlaysInput ==
    result = "ok" =>
        LET end == stream[Len(stream)].granule
            all == IF job.resampled THEN Total ELSE FramesRead(dataRemaining)
        IN  /\ end - PreSkip = all * job.scale
            /\ end =< fed * job.scale
            /\ \A p \in 0..(all - 1) : Fed(p) = p

(* The end trim takes less than the last packet: a packet trimmed away     *)
(* whole would be one the player drops, and its output would stop early.   *)
TrimShort ==
    held = <<>> /\ stream # <<>> =>
        fed * job.scale - stream[Len(stream)].granule < job.frame * job.scale

(* Granules rise from packet to packet, the end-trimming one included.     *)
GranulesRise ==
    \A i, k \in DOMAIN Packets : i < k => Packets[i].granule < Packets[k].granule

(* EOS is on the last packet of a stream that is complete, and nowhere     *)
(* else: a run that failed on the way leaves a stream without one.         *)
EosLast ==
    /\ \A i \in DOMAIN stream :
         stream[i].eos => i = Len(stream) /\ exhausted /\ held = <<>>
    /\ result = "ok" => stream[Len(stream)].eos

(* Only the last packet of a complete stream is marked, and what it trims  *)
(* is less than it holds.                                                  *)
EndMarked == EosLast /\ TrimShort

(* The run ends, whatever the file. *)
Ends == <>(result \in {"ok", "error"})
=============================================================================
