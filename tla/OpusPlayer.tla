----------------------------- MODULE OpusPlayer -----------------------------
(***************************************************************************)
(* The player (src/player/player.go): packets in, a stream of stereo PCM   *)
(* out, trimmed to the stream's pre-skip and granule positions, with       *)
(* seeking.                                                                *)
(*                                                                         *)
(* A decoded sample is the number of its frame in the stream, counted from *)
(* 0 before the pre-skip is dropped, as granule positions count.  Sizes    *)
(* of reads are in values of SampleT: two make a stereo frame.  int16 and  *)
(* float32 differ in that width only.                                      *)
(*                                                                         *)
(* Below the player are the demuxer, of which OggSeek shows what SeekToPage *)
(* promises here, and the decoder, which fills a buffer or refuses.        *)
(***************************************************************************)
EXTENDS Integers, Sequences, SequencesExt, FiniteSetsExt

CONSTANTS
    Streams,     \* [channels, preskip, packets]; a packet is [from, n,
                 \* first, granule, valid, eos, state]
    Cap,         \* frames a decoding buffer holds (120 ms)
    Requests,    \* lengths of p
    Samples,     \* SeekSample's arguments
    MaxCalls     \* bound: calls in one behaviour

(* A stream as a muxer writes it and a demuxer hands it out: its packets   *)
(* follow each other, every page but the last ends at its last packet's    *)
(* end, the last one there or, the end being trimmed, before, and its last *)
(* packet alone may carry the mark.                                        *)
Muxed(packets) ==
    /\ packets # <<>>
    /\ \A k \in DOMAIN packets :
         LET p    == packets[k]
             last == k = Len(packets)
         IN  /\ p.from = IF k = 1 THEN 0 ELSE packets[k - 1].from + packets[k - 1].n
             /\ p.first \in 1..k /\ (p.first > 1 => packets[p.first - 1].valid)
             /\ last => p.valid /\ p.granule <= p.from + p.n
             /\ ~ last => ~ p.eos /\ (p.valid => p.granule = p.from + p.n)

(* A request is of whole stereo frames: a stereo stream's totalSamples     *)
(* counts a single value as no frame at all.                               *)
ASSUME PlayerConstants ==
    /\ Cap \in Nat \ {0}
    /\ Requests \subseteq {r \in Nat \ {0} : r % 2 = 0}
    /\ Samples \subseteq Nat
    /\ MaxCalls \in Nat
    /\ \A s \in Streams :
         /\ s.channels \in {1, 2} /\ s.preskip \in Nat
         /\ s.packets \in Seq([from: Nat, n: 1..Cap, first: Nat, granule: Nat,
                               valid: BOOLEAN, eos: BOOLEAN,
                               state: {"ok", "refused", "lost"}])
         /\ Muxed(s.packets)

VARIABLES
    stream,             \* what is played
    cursor,             \* the packet the demuxer returns next
    store, blen,        \* the buffer: a frame number per frame, its length
    position,           \* what is next of it
    preskipRemaining, totalSamples, finished,
    cachedTotal,        \* OpusReader's: [known, ok, value]
    call,               \* [op, packet, want, got]; op is "idle" outside
    calls,              \* calls made
    result,             \* of the last call: [n, err]
    heard, base,        \* history: frames rendered since the start or the
                        \* last seek, and the first sample asked for
    undisturbed,        \* history: no error since, nothing read ahead
    sought              \* history: some seek has succeeded

buffer == <<store, blen, position, preskipRemaining>>
history == <<heard, base, undisturbed, sought>>
vars == <<stream, cursor, buffer, totalSamples, finished, cachedTotal,
          call, calls, result, history>>

Channels == stream.channels
PreSkip == stream.preskip
Packets == stream.packets
LastGranule == Last(Packets).granule

Idle == [op |-> "idle", packet |-> 0, want |-> 0, got |-> 0]

Init ==
    /\ stream \in Streams
    /\ cursor = 1
    /\ store = <<>> /\ blen = 0 /\ position = 0
    /\ preskipRemaining = PreSkip
    /\ totalSamples = 0 /\ finished = FALSE
    /\ cachedTotal = [known |-> FALSE, ok |-> TRUE, value |-> 0]
    /\ call = Idle /\ calls = 0 /\ result = [n |-> 0, err |-> "none"]
    /\ heard = <<>> /\ base = 0 /\ undisturbed = TRUE /\ sought = FALSE

Return(n, err) == call' = Idle /\ result' = [n |-> n, err |-> err]

(* IsFinished() *)
IsFinished == finished /\ position >= blen

----------------------------------------------------------------------------
(* handleSkip: where the rendering of a decoded packet starts...           *)
Skip(p) == IF preskipRemaining > 0 THEN Min({p.n, preskipRemaining}) ELSE 0

(* ... and what of it the page's granule position leaves.                  *)
ActualFromZero(p) == totalSamples + p.n       \* mutant: pre-skip not added
Actual(p) == totalSamples + p.n + PreSkip

Kept(p, excess) == p.n - excess
NewSize(p) ==
    LET excess == Actual(p) - p.granule
    IN  IF p.valid /\ excess > 0 /\ excess < p.n THEN Kept(p, excess) ELSE p.n

(* Rendering of buf[pos..len] into what is left of p.  Mono samples are    *)
(* written twice; a stereo stream's are counted in pairs.                  *)
Width == IF Channels = 1 THEN 2 ELSE 1
Count(len, pos) == Max({0, Min({(call.want - call.got) \div Width, len - pos})})
ValuesCounted(count) == count                \* mutant: channels not told apart
FramesCounted(count) == IF Channels = 1 THEN count ELSE count \div 2

Render(buf, len, pos) ==
    LET count == Count(len, pos)
        got   == call.got + count * Width
    IN  /\ position' = pos + count
        /\ totalSamples' = totalSamples + FramesCounted(count)
        /\ heard' = IF call.op = "skip" THEN heard ELSE heard \o
                      [i \in 1..count |-> buf[(pos + i - 1) \div Channels + 1]]
        /\ IF call.op = "packet" \/ got >= call.want
           THEN Return(got, "none")
           ELSE call' = [call EXCEPT !.packet = 0, !.got = got]
                /\ UNCHANGED result

----------------------------------------------------------------------------
(* ReadPacket(p) and Read(p), which calls it until p is full.              *)
CallRead(op, want) ==
    /\ call = Idle /\ calls < MaxCalls
    /\ call' = [op |-> op, packet |-> 0, want |-> want, got |-> 0]
    /\ calls' = calls + 1
    /\ UNCHANGED <<stream, cursor, buffer, totalSamples, finished,
                   cachedTotal, result, history>>

EmptyLate == position > blen                 \* mutant: off by one
Empty == position >= blen
Busy == call.op \in {"read", "packet", "skip"}
Ready == Busy /\ call.packet = 0

Serve ==
    /\ Ready /\ ~ Empty
    /\ Render(store, blen, position)
    /\ UNCHANGED <<stream, cursor, store, blen, preskipRemaining, finished,
                   cachedTotal, calls, base, undisturbed, sought>>

(* The buffer is empty: the next packet.                                   *)
EndsAnyPage(p) == p.valid            \* mutant: takes a page's end for the stream's
EndsStream(p) == p.eos
Fetch ==
    /\ Ready /\ Empty
    /\ cursor <= Len(Packets) /\ Packets[cursor].state # "lost"
    /\ call' = [call EXCEPT !.packet = cursor]
    /\ cursor' = cursor + 1
    /\ finished' = (finished \/ EndsStream(Packets[cursor]))
    /\ UNCHANGED <<stream, buffer, totalSamples, cachedTotal, calls, result,
                   history>>

(* No packet: the end of the stream, or a page that cannot be used.        *)
FetchFails ==
    /\ Ready /\ Empty
    /\ \/ /\ cursor > Len(Packets)
          /\ undisturbed' = (undisturbed /\ call.op # "skip")
          /\ Return(call.got, "eof")
          /\ UNCHANGED cursor
       \/ /\ cursor <= Len(Packets) /\ Packets[cursor].state = "lost"
          /\ cursor' = cursor + 1 /\ undisturbed' = FALSE
          /\ Return(call.got, "page")
    /\ finished' = TRUE
    /\ UNCHANGED <<stream, buffer, totalSamples, cachedTotal, calls, heard,
                   base, sought>>

Decode ==
    LET p == Packets[call.packet]
        buf == [i \in 1..Cap |-> IF i <= p.n THEN p.from + i - 1
                                 ELSE IF i \in DOMAIN store THEN store[i]
                                 ELSE -1]
        len == NewSize(p) * Channels
    IN  /\ Busy /\ call.packet # 0 /\ p.state = "ok"
        /\ store' = buf /\ blen' = len
        /\ preskipRemaining' = preskipRemaining - Skip(p)
        /\ Render(buf, len, Skip(p) * Channels)
        /\ UNCHANGED <<stream, cursor, finished, cachedTotal, calls, base,
                       undisturbed, sought>>

(* The packet is refused: the buffer has been extended to its capacity     *)
(* and stays so, with what it held before.                                 *)
DecodeFails ==
    /\ Busy /\ call.packet # 0
    /\ Packets[call.packet].state = "refused"
    /\ position' = 0 /\ blen' = Len(store) * Channels
    /\ undisturbed' = FALSE
    /\ Return(call.got, "decode")
    /\ UNCHANGED <<stream, cursor, store, preskipRemaining, totalSamples,
                   finished, cachedTotal, calls, heard, base, sought>>

----------------------------------------------------------------------------
(* The demuxer's SeekToPage(granule): the first page at or above it, or    *)
(* none, and where the page before it ends.                                *)
Above(g) == {k \in DOMAIN Packets : Packets[k].granule >= g}
PageOf(g) == Packets[Min(Above(g))].first
EndOfPage(k) == Packets[k].granule   \* mutant: the found page's own position
EndBefore(k) == IF k = 1 THEN 0 ELSE Packets[k - 1].granule

Findable(g) == Above(g) # {}
MayMiss(g) ==
    /\ g > 0
    /\ \/ g >= LastGranule
       \/ \E k \in DOMAIN Packets : \/ Packets[k].granule = g
                                    \/ Packets[k].state = "lost"

(* SeekSample(s) *)
SeekFound(s) ==
    LET g     == s + PreSkip
        k     == IF g = 0 THEN 1 ELSE PageOf(g)
        start == IF g = 0 THEN 0 ELSE EndBefore(k)
    IN  /\ Findable(g)
        /\ cursor' = k
        /\ preskipRemaining' = 0
        /\ totalSamples' = start - PreSkip
        /\ position' = 0 /\ blen' = 0
        /\ base' = s /\ heard' = <<>> /\ undisturbed' = TRUE /\ sought' = TRUE
        /\ IF g = start
           THEN Return(0, "none")
           ELSE call' = [op |-> "skip", packet |-> 0,
                         want |-> 2 * (g - start), got |-> 0]
                /\ UNCHANGED result
        /\ UNCHANGED <<stream, store, finished>>

(* The page is not found: the demuxer stays where the search left it.      *)
SeekMissed(s) ==
    /\ MayMiss(s + PreSkip)
    /\ cursor' \in 1..(Len(Packets) + 1)
    /\ undisturbed' = FALSE
    /\ Return(0, "seek")
    /\ UNCHANGED <<stream, buffer, totalSamples, finished, heard, base, sought>>

SeekSample(s) == SeekFound(s) \/ SeekMissed(s)

CallSeekStart ==
    /\ call = Idle /\ calls < MaxCalls /\ calls' = calls + 1
    /\ \E s \in Samples : SeekSample(s)
    /\ UNCHANGED cachedTotal

(* Seek(-b, io.SeekCurrent): never below the start.                        *)
CallSeekCurrent ==
    /\ call = Idle /\ calls < MaxCalls /\ calls' = calls + 1
    /\ \E b \in Samples : SeekSample(Max({0, totalSamples - b}))
    /\ UNCHANGED cachedTotal

(* The length, asked for once: the demuxer reads on to the end.  All pages *)
(* of these streams lie in the tail it reads.                              *)
TotalOnce ==
    LET ok == /\ Last(Packets).eos
              /\ \A k \in DOMAIN Packets : Packets[k].state # "lost"
    IN  IF cachedTotal.known THEN cachedTotal
        ELSE [known |-> TRUE, ok |-> ok,
              value |-> IF ok THEN LastGranule - PreSkip ELSE 0]
Length == TotalOnce.value

CallLength ==
    /\ call = Idle /\ calls < MaxCalls /\ calls' = calls + 1
    /\ cachedTotal' = TotalOnce
    /\ result' = [n |-> Length, err |-> "none"]
    /\ IF cachedTotal.known
       THEN UNCHANGED <<cursor, undisturbed>>
       ELSE cursor' = Len(Packets) + 1 /\ undisturbed' = FALSE
    /\ UNCHANGED <<stream, buffer, totalSamples, finished, call, heard, base,
                   sought>>

CallSeekEnd ==
    /\ call = Idle /\ calls < MaxCalls /\ calls' = calls + 1
    /\ cachedTotal' = TotalOnce
    /\ \E b \in Samples : SeekSample(Max({0, Length - b}))

Reads == \E op \in {"read", "packet"}, r \in Requests : CallRead(op, r)
Seeks == CallSeekStart \/ CallSeekCurrent \/ CallSeekEnd
Steps == Serve \/ Fetch \/ FetchFails \/ Decode \/ DecodeFails

Next == Reads \/ Seeks \/ CallLength \/ Steps

Spec == Init /\ [][Next]_vars

(* A call in progress runs on: the demuxer reads a file, not a network.    *)
FairSpec == Spec /\ WF_vars(Steps)

----------------------------------------------------------------------------
TypeOK ==
    /\ cursor \in 1..(Len(Packets) + 1)
    /\ Len(store) \in {0, Cap}
    /\ blen \in 0..(Cap * Channels)
    /\ position \in 0..(Cap * Channels)
    /\ preskipRemaining \in 0..PreSkip
    /\ totalSamples \in Int
    /\ call.op \in {"idle", "read", "packet", "skip"}
    /\ call.got \in 0..call.want

(* Some packet of the stream is the last one of its page and yet reaches   *)
(* into the pre-skip: handleSkip then takes it for too long.               *)
PageEndsInPreSkip ==
    \E k \in DOMAIN Packets : Packets[k].valid /\ Packets[k].from < PreSkip

(* The last page's position drops whole packets, or the pre-skip too.      *)
DropsPackets == LastGranule <= Last(Packets).from \/ LastGranule < PreSkip

Plain == ~ PageEndsInPreSkip /\ ~ DropsPackets

(* Without errors the sound starts where the caller asked, at the end of   *)
(* the pre-skip or at the sample sought, and has no gap and no repetition, *)
(* however its packets lie on pages and whatever the sizes of the reads;   *)
(* and CurrentSample is the sample that comes next.                        *)
Gapless ==
    undisturbed =>
        /\ ~ PageEndsInPreSkip =>
             \A i \in DOMAIN heard :
                 heard[i] = base + PreSkip + (i - 1) \div Channels
        /\ call = Idle => totalSamples = base + Len(heard) \div Channels

(* Played to the end from anywhere, a stream has the length that Length()  *)
(* tells (player_test.go, TestBasic), its end trimmed by the last granule  *)
(* position.                                                               *)
LengthPlayed ==
    undisturbed /\ Plain /\ call = Idle /\ result.err = "eof" =>
        base + Len(heard) \div Channels = LastGranule - PreSkip

(* The same of every stream whose end is not trimmed.                      *)
LengthPlayedAlways ==
    undisturbed /\ call = Idle /\ result.err = "eof"
    /\ LastGranule = Last(Packets).from + Last(Packets).n =>
        base + Len(heard) \div Channels = LastGranule - PreSkip

(* IsFinished says so only when the stream is over and all that was        *)
(* decoded has been read.  A seek back never clears finished, so this is   *)
(* of streams without a seek.                                              *)
Over == cursor > Len(Packets) /\ call.packet = 0 /\ Empty
FinishedMeansOverUnsought ==
    IsFinished /\ call = Idle /\ undisturbed /\ ~ sought => Over

(* A call returns. *)
CallReturns == call # Idle ~> call = Idle
=============================================================================
