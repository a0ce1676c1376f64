# Verification of opus-go

opus-go plays and writes Ogg Opus files in pure Go. This directory holds TLA+
models of its core logic (the Ogg muxer and demuxer, seeking, the player, the
rate converter, the encode pipeline; and of the codec behind it the decoder's
and the encoder's frames and modes, packets and multistream packets, and the
range coder), the TLC configurations that model-check them, and TLAPS proofs
about all of them but the range coder. Paths such as
`ogg/packets.go` are relative to `src/`. All commands run in this directory:

    tlasany M.tla                                # parse
    tlc -workers 2 -config MCOggSeek.cfg MCOggSeek  # model-check one run
    tlapm WavToOggProofs.tla                     # check one module's proofs

`PROJECT.json` lists the runs, which source lines every definition stands for
(`map`), a deliberately broken variant of a definition for every property
(`mutants`; the operators marked "mutant" in the modules are these variants and
nothing else uses them), the disagreements found (`findings`) and what is hard
to test in this code (`hazards`).

## 1. The system

    WAV file -> wav.Reader -> pcmSource -> resample.Resampler
                                  |
                              encode loop <-> opus.Encoder (opusccenc, libcshim)
                                  |
                              ogg.PageWriter -> ogg.PacketWriter -> bytes
                                                                      |
    caller <- player.OpusPlayer <- ogg.OpusReader <- ogg.PacketReader <- bytes
                     |
                opus.Decoder (opuscc, libcshim)

Nothing but `opus.Decoder` and `opus.Encoder` holds a lock. Concurrency is left
to callers: `examples/net` reads a stream that a server is still writing and
polls the player from a second goroutine, `examples/convert` decodes in a
goroutine of its own, and `examples/play` is pulled by the audio library's
callback.

| component | state it keeps | operations | what makes it correct |
|---|---|---|---|
| Ogg muxer `ogg/page_writer.go`, `ogg/writer.go` | lacing values and bodies of the pending page, its granule and where it starts, sequence number, a buffered output with a sticky error | WriteHeaderPacket, WritePacket, Flush | pages within 255 lacing values and the span asked for; each carries the position of the last packet that ends on it; the continuation flag agrees with the page before; nothing lost or repeated, also around an output error |
| Ogg demuxer `ogg/ogg.go`, `ogg/packets.go` | serial number once known, packet begun on an earlier page, queue of complete packets | ReadPacket, SeekToPage, LastPageGranule | packets in order and intact whatever the layout; damage costs no packet whose pages are met; positions only on the packet that owns them; seeks land right before the packet the page of the target completes, and end |
| Opus reader `ogg/opus_reader.go`, `ogg/opus_packets.go` | headers, cached length | NewOpusReader, ReadAudioPacket, SeekToPage, TotalSamples | headers first and once; the length is true |
| Player `player/player.go` | decoding buffer, position in it, pre-skip left, samples rendered, finished flag | Read, ReadPacket, Seek, SeekSample, Length, IsFinished | no gap, no repetition, right length, true position, calls that return |
| Rate converter `resample/resample.go` | pending input and its offset, input seen, next output frame, flushed flag | Process, Flush | how the input is cut into chunks cannot be heard; the documented number of frames |
| Encode pipeline `cmd/wav2oggopus/main.go`, `wav/reader.go` | bytes the header still promises, samples not yet handed out, the packet held back, frames fed | fill, encode | what plays back is exactly what went in, or the run fails; the end mark and the trim are on the last packet |
| Decoder wrapper `opus/decoder.go` | decoder state, scratch kept between calls, mutex | Decode, DecodeF32, Close | Close excludes calls; failed calls leave the caller's memory alone; what is handed out was decoded by this call |
| Encoder wrapper `opus/encoder.go` | C state behind a TLS handle, scratch, mutex | Encode, controls, Lookahead, Close | as the decoder's |
| Decoder's frames and modes `opuscc/common.go` | mode and redundancy of the frame before, mode and size of this packet, two codecs with their histories | opusDecodeNative, opusDecodeFrame | no codec is heard from a history that is not the frame before; concealment has the length asked for; refused packets change nothing |
| Encoder's frames and modes `opusccenc/opusccenc_opus.go` | mode before, a pending change of SILK's rate, CELT's history | opus_encode_native, opus_encode_frame_native | the decoder finds each part of a frame though no length is sent; a frame fits its room; CELT predicts from what the decoder has |
| Packets `opuscc/common.go`, `opusccenc/opusccenc_opus.go` | none but the packet; a repacketizer while it works | parse, repacketize, pad, unpad, multistream encode and decode | frames come out as they went in; lengths stay within the packet; all streams of a packet or none |
| Range coder `opuscc/celt_ctl.go`, `celt_entropy.go`, `celt_mdct.go`, `opusccenc` | range, value, bytes held back for a carry, window of raw bits | ec_enc_*, ec_dec_*, Laplace symbols | what is encoded is decoded; the count of bits is enough to know that a packet fits; any bytes decode safely |
| libcshim `libcshim/libcshim.go` | stack, heap registry, aliases | Alloc, Free, Xmalloc, Xfree, Close | addresses stay valid until freed |
| Signal processing `opuscc`, `opusccenc` | filters, transforms, quantizers | | as libopus |
| WAV writer `wav/wav.go` | bytes written, closed flag | Write, Close | header sizes agree with the data |
| Tools and examples | | | callers of the above |

What is hard here, and seldom tested:

* **arithmetic on both sides**: encoder and decoder must do the same sums over
  bits used and bytes left, as no length is sent; a packet may shrink after parts
  of it were written;
* **boundaries**: a packet ends on a page's last lacing value, the input on a
  read's or a frame's, the pre-skip inside a packet that is trimmed as well,
  the target of a seek on a page's own position;
* **losses**: pages that are missing, fail their CRC, or belong to another
  stream, between the parts of a packet; a write error between its pages;
* **state left over**: a seek resets most of the player and of the demuxer, not
  all; a failed decode or seek leaves half-moved state; each change of mode leaves
  a codec behind whose history grows old;
* **order**: the position of a packet must not leak onto the page of its
  predecessors; the last packet can only be marked when it is known to be last;
* **termination**: loops that call until something is full, found or over;
* **interleaving**: a reader at the end of a file that is still being written,
  Close against Decode.

`PROJECT.json` lists each at its line as a hazard, with the properties that
would catch it, or the reason why there is none.

## 2. The modules

| module | models | builds on |
|---|---|---|
| `OggPageWriter` | the muxer | |
| `OggPageWriterProofs` | theorems | `OggPageWriter` |
| `OggPacketReader` | the demuxer's ReadPacket over ReadPage | |
| `PacketChannel` | abstract: a reliable FIFO channel of packets | |
| `OggStream` | muxer and demuxer on one stream; implements `PacketChannel` | INSTANCE of both and of `PacketChannel` |
| `OggStreamProofs` | the refinement proved | INSTANCE of both proof modules |
| `OggSeek` | SeekToPage, LastPageGranule | EXTENDS `OggPacketReader` |
| `OggPacketReaderProofs` | theorems about reading and seeking | EXTENDS `OggSeek` |
| `OpusPlayer`, `OpusPlayerProofs` | the player, over what `OggSeek` shows of seeking, theorems | |
| `Resampler` | the rate converter | |
| `WavToOgg`, `WavToOggProofs` | the encode pipeline; theorems about it and about the rate converter in it | EXTENDS `Resampler` |
| `OpusDecoder`, `OpusDecoderProofs` | the decoder's control state, and the wrapper that goroutines share, theorems | |
| `OpusEncoder`, `OpusEncoderProofs` | the encoder's frames, and the decoder that takes them apart, theorems | INSTANCE `OpusDecoder` for its operators |
| `OpusPacket` | framing: parsing, building, padding, self-delimited packets, as operators | |
| `OpusMultistream`, `OpusMultistreamProofs` | multistream packets from encoders to channels, theorems about framing and them | EXTENDS `OpusPacket` |
| `RangeCoder` | range encoder and decoder, Laplace symbols | |

Each `MC*` module gives the constants of one of them for TLC.

### OggPageWriter

Packets are numbered in the order they are handed over. A lacing value is a
record of the packet it belongs to, its place there and whether it ends the
packet; it stands for its up to 255 bytes of body too. `segs`, `granule`,
`pageStart`, `seq` are the fields of `PageWriter` and `PacketWriter`; `out` is
the pages the output has taken, `failed` the sticky error of the
`bufio.Writer`. `WriteHeaderPacket`, `WriteSpanning`, `RefusePacket`,
`QueuePacket` and `FlushPage` are the calls. Each includes the page flushes it
makes on the way, and may fail at any of them: `RefusePacket` is a call whose first
flush fails, so that the packet is not taken. Granule positions are modulo
`GranuleMod` as they are modulo 2^64 in the code: `granulePos - pageStart`
really wraps when an end-trimmed position lies below the page's start, and the
model wraps in the same way. CRC and byte layout are left out.

### OggPacketReader, PacketChannel, OggStream

A file is a sequence of pages with flags, position, lacing values, serial number
and whether the CRC is right; a page whose CRC is wrong says what is damaged
(`Damages`). `ReadOn` is a page through the loop of `ReadPacket` that completes no
packet; `ServeQueue` and `Deliver` return packets, and only the last packet a page
completes keeps the page's position. `ReturnError` is a page of another stream, a
continued page whose beginning was lost, or a damaged page. `ReadPage` finds the end of a page by
its own lengths and never looks for the next one: a page damaged in its body is
consumed whole (`Rejected`); without its capture pattern or version only 27 bytes
of it are, and the next call starts in the middle of it; with a wrong segment count or
lacing table the call ends anywhere behind (`Onward`). A reader that stands at no
page (`astray`) returns errors (`ReadAstray`) until, by luck, a read ends where a page
starts, or the file ends. The history variable `missed` names the pages it ran past.

In `OggStream` the file the demuxer reads is the muxer's `out`, growing while it
is read. The refinement mapping takes `sent` as it is and turns each packet delivered into the
packet it is made of, provided it has all of that packet's lacing values, its
flags and its position where it claims one; otherwise into something that was
never sent, so that any mangled packet breaks the refinement.

### OggSeek

`SeekToPage` is a bisection over byte offsets followed by a scan, step by step
as in the code, `pc` naming the place. Offsets and page sizes are those of the
file; a reader that starts at an offset finds the next page that begins there or
later and within `Window` bytes (64K in the code), unless its capture pattern or version is damaged,
as `findNextPage`'s search for the two does. Pages remembered by position
(`granulePositions`), the bounds, the tie break of `packets.go:148`, the rewind
that skips two headers, and putting back the packet that ended the scan are all
there. `LastPageGranule` starts `Backup` bytes (64K in the code) before the end.

### OpusPlayer

A decoded frame is its number in the stream, so what is heard is a sequence of
numbers that should simply count. `Serve`, `Fetch`, `FetchFails`, `Decode`,
`DecodeFails` are the steps of `ReadPacket`, which `Read` and the skipping at
the end of `SeekSample` repeat; between them `call` says what the caller is
waiting for. The buffer keeps what older packets left in it, since the code
extends it to its capacity before it knows that the decoder succeeds. The demuxer below is abstract:
a seek moves to the first packet of the page of the target, or misses in just
the cases in which `OggSeek` can miss, leaving the demuxer anywhere. The decoder
fills the buffer or refuses. Int16 and float32 differ in the width of a value
only; the model counts values.

### Resampler

An input frame is its number, an output frame the set of input frames it is
made from. The filter's weights are left out: which frames meet which is what
chunking could disturb. `Process(n)` appends n frames, produces what is covered
and drops what will not be needed; `Flush` produces the rest.

### WavToOgg

A job is a WAV file (channels, bytes announced, bytes really there), a codec
(frame size, lookahead, samples of 48 kHz per sample) and a rate ratio or
none. `ReadChunk`, `ReadEnd`, `EncodeFrame`, `WriteLast` follow `fill` and
`encode`, with the failure of every call that can fail; `Resampler` runs inside
`fill`, as `R`. The codec is external: it puts its input `lookahead` frames
later into its packets. That is what `encode` relies on, and all it relies on.

### OpusDecoder

`st` is the part of the `OpusDecoder` struct that outlives a frame: `mode`,
`prev_mode`, `frame_size`, `prev_redundancy`, `last_packet_duration`, and for
each codec where the frame it decoded last ends, relative to the sample decoded
next. A codec that decodes with an end in the past is stale, and if that is
heard `stale` remembers it. A packet is its mode, frame size and frames, each
with the redundancy it carries, or empty, or overrunning its data.
`Synthesize` and `Conceal` are the two branches of `opusDecodeFrame`, in its order (transition,
lead-in, main part, fade-out, lead-out); `DecodeStep` is a step of
`opusDecodeNative`: the checks, the concealment loop, the FEC detour, one frame
each. Around it goroutines `Lock`, `Refuse` or `Enter`, `CopyOut` and `Leave`, or
`Close`.

### OpusEncoder

`Decide` picks a packet's mode: the choice between SILK and CELT comes from the
signal and is open, what the code makes of it is not: rates, the least sizes,
the packet that only says "conceal", the switch to CELT that waits for the end
of the packet, the split into frames of 20 ms or more. A frame then goes through
`CodeSilk` (which takes any number of bits, as a rate control that aims but may
miss does), `Signal` (the redundancy flags and sizes), `Lead`, `Main`, `Tail` (the
CELT frames) and `Close`. `Decode` is the decoder: `Found` repeats its search
for the parts, `Heard` runs its CELT over the frames. What a CELT frame is predicted
from is a name (`fresh`, `prefill`, `lead`, `main`, `tail`, `last`), `other` when
the two sides no longer agree.

### OpusPacket, OpusMultistream

A byte is a number below `Byte`, so lengths of one or two bytes and paddings of
many are all there with small numbers. `Parse` is `opus_packet_parse_impl` as an
operator, `Out` and `Packed` the repacketizer's `opus_repacketizer_out_range_impl`, `Outs`
that with the extensions a packet brings along in its padding: unless the padding is `Blank`
the result may also be an error, -3 when they are malformed, -2 when they no longer
fit. Only padding a packet meets them: this encoder's own padding is zeros, and unpadding
drops it. A multistream packet is encoded stream by stream into what the reserve leaves, padded,
unpadded in place frame by frame, validated, given to one decoder after another
and copied to the channels by the mapping.

### RangeCoder

The registers of `ec_enc` and `ec_dec` with their widths as constants. All
operations are there: symbols from a table, bits, capped integers, raw bits from
the far end, patching the first bits, shrinking, finishing; on the other side
their counterparts; and the energies' Laplace symbols with the forms they take
when bits run out.

## 3. The runs

| run | states | what it asks |
|---|---|---|
| `ogg_page_writer` | 96,708 | every sequence of up to five calls, output failing at any page: are the pages legal and is the stream whole? |
| `ogg_packet_reader` | 240,628 | four packets in every pagination, up to two pages lost, damaged in one of three ways or preceded by a foreign one: what is delivered? |
| `ogg_stream` | 37,902 | is a muxer with a demuxer a reliable channel, and does everything arrive? |
| `ogg_seek` | 351,298 | 3528 files, every target: where does a seek land, does it find, does it end, is the length right? |
| `opus_decoder` | 63,288 | any packets, losses, FEC, refusals, two goroutines and Close: is what is heard decoded from the right history? |
| `opus_encoder` | 1,194,009 | packets of every mode, size and rate in any order: does the decoder find all parts, do they fit, does CELT stay in step? |
| `opus_multistream` | 380,237 | encode, pad, unpad, decode, and any garbage: does every frame reach its channel? |
| `range_coder` | 496,013 | any four symbols in buffers of any size, any three bytes: do both sides agree? |
| `opus_player` | 509,848 | any three calls on small streams: gaps, position, length, finished, return |
| `opus_player_length` | violation | see section 6 |
| `resampler` | 328 | four ratios, chunks of any size |
| `wav_to_ogg` | 88,716 | every WAV file up to 18 bytes, every failure: does it play back as it was? |

The properties, by run:

* **ogg_page_writer**. `PageLimits`: at most `MaxSegs` lacing values, sequence
  numbers without a gap. `PageHeadersRight`: a page has the position of the
  last packet that ends on it, or none; it is marked continued just
  when the page before ends inside a packet, and last where the packet
  marked last ends. `StreamIntegrity`: the lacing values written and pending
  are those of the packets taken, in order, each once. `SpanBounded`: shared
  pages span no more than the maximum.
* **ogg_packet_reader**. `InOrder`: never out of order, never twice.
  `DamageContained`: a packet all of whose pages the reader met comes out whole; at
  the end of the file those are missing only of which a page was not met, or one on the
  way to it from a page that starts with a packet; and a page is only run past behind one whose capture
  pattern, version or lacing table is damaged. `GranuleIsOwn`: a valid
  position is the packet's own.
* **ogg_stream**. `ImplementsChannel` (refinement), `EveryPacketArrives`
  (liveness).
* **ogg_seek**. `SeekLands`: after a successful call, a rewind included, the next
  packet is the right one. `SeekFindsBetween`: a target between two pages'
  positions is found. `LengthRight`: the last page's position, and found when it
  is in reach. `CallsEnd`: bisection terminates.
* **opus_decoder**. `NoStaleAudio`: no codec is heard whose history is not the
  frame before. `AssertionsHold`: lengths add up, codecs are asked for lengths
  they know. `RefusedUntouched`: a call refused for its packet or arguments
  changes nothing. `DurationTrue`: the remembered duration is the last success's.
  `DeliveredIsDecoded`: the wrapper hands out what this call decoded, all of it or
  nothing, and never from a closed decoder. `CallsReturn`.
* **opus_encoder**. `LayoutAgrees`: the decoder finds each part where the encoder
  put it, also when a variable size has shrunk the frame. `BudgetKept`: whatever
  SILK took, the frame fits, and only a bust one is sent as lost. `CeltInSync`:
  no CELT frame is heard that was decoded from other energies than it was
  predicted from, with the exceptions of section 6.
* **opus_multistream**. `EncodeFits`: the reserve suffices, a constant rate is
  met. `DeliveredWhole`: each decoder gets its encoder's frames, after padding
  and unpadding in place too, and no valid packet is refused on the way, except for
  padding one whose last stream holds more than padding in its own padding. `AllOrNothing`: a refused packet has moved no decoder
  and no channel, an accepted one every one of them once. `WithinPacket`: whatever
  bytes arrive, frames and padding lie inside the packet, in order.
* **range_coder**. `RoundTrip`: what is encoded is decoded, and both sides count
  the same bits after every symbol. `RoomEnough`: finishing fails only when
  more bits were used than counted as there. `DecoderSound`: any bytes decode to
  values in range and leave registers in range.
* **opus_player**. `Gapless`: what is heard from the start, or from the sample
  sought, counts up without gap or repetition, and CurrentSample is
  the next sample. `LengthPlayed`: read to the end from anywhere, the stream has
  the length that `Length()` says. `FinishedMeansOverUnsought`: IsFinished says
  so only when it is. `CallReturns`.
* **resampler**. `ChunkingInvisible`: each output frame is made from its whole
  window of the whole input. `CountExact`: ceil(input * to / from) frames.
* **wav_to_ogg**. `NothingLost`: a run that succeeds has fed all the audio the
  file holds. `PlaysInput`: trimmed by pre-skip and last granule, the packets
  hold the input, frame for frame. `EndMarked`: only the last packet of a
  complete stream is marked, and the trim takes less than it holds, without which
  the player would ignore it. `GranulesRise`. `Ends`.

Each module also has a type invariant (`TypeOK`), which the proofs start from.

### Bounds, and why they are enough

* Page size is `MaxSegs` = 3 (2 in `ogg_stream`) lacing values in place of 255.
  Packets of 1, 2 and 7 share a page, fill one, exceed the room left, and are
  spread over three pages, the last one full or not; five packets suffice to
  close a page by each of its rules and go on. The muxer's proofs hold for every size.
* Positions are modulo 16 with a span of 3, so that they wrap within five calls.
  `MaxPageGranules` is 0 in `ogg_page_writer`, which selects the default, and set in
  `ogg_stream`.
* `ogg_packet_reader` takes all 64 paginations of packets of 2, 1, 3 and 1
  values, so every packet meets every boundary, and two faults, so that the
  second can hit what the recovery from the first has built. The proofs hold for
  every file and any number of faults.
* `ogg_seek`: up to three audio packets on up to four audio pages, one of them
  possibly spread or sharing its page, one page possibly damaged in one of three ways; page
  sizes of 1, 2 and 6 bytes let probes hit a page often, seldom, or only on its
  first byte; targets 0 to 7 reach from the start to past the end (6). One call:
  a call starts from nothing but the file, and the state in which the one before left
  the reader is thrown away.
* `opus_player`: two or three packets of one or two frames, in a buffer of two
  frames; a pre-skip of 0, 1 or 3 frames ends before, inside, at the end of and
  after the first packet; reads of 2 and 8 values are smaller and larger than a
  packet. Three calls are enough for read, seek, read. Reads are of whole stereo
  frames (section 6).
* `resampler`: forty frames of input move filters of up to eight taps several
  times along, in chunks of 0, 1, 2 and 7. Only few states are needed because
  what was heard so far does not influence what follows. The proofs cover all sizes.
* `wav_to_ogg`: up to 18 bytes are 9 mono or 4 stereo frames, that is, three
  reads of three frames, and several packets of 2 or 3; lookaheads of 1 to 3 are less than, equal to
  and more than a packet. `MaxPackets` = 20 and the embedded converter's
  `MaxFrames` = 9 never hold a run up.

* `opus_decoder`: 2.5 ms are two samples, so that there are sizes between the
  steps. Ten packets have every mode, the least and greatest frame of each codec,
  both redundancies, empty and overrunning frames first and second in a packet; four
  sizes asked, three of them no multiple of 2.5 ms. The state is finite, so sequences of
  calls are of any length. Two goroutines: more would only queue longer.
* `opus_encoder`: eight settings choose a plenty, little or no room, variable
  and constant rate, 5, 20, 40 and 120 ms, that is, one, two and six frames in a packet.
  SILK leaves from -1 to 44 bits, which passes every limit in the sums (17, 37,
  two bytes and the positions between them), or 112 or 180, which leave room for a
  redundant frame of a size worth sending. Here too sequences are of any length. One channel: a second
  only moves the least size of a redundant frame.
* `opus_multistream`: frames of 2.5 and 5 ms, as 2 and 4 samples, in packets of 2 to 8 (`Units`), 6 in the place of 100 ms; bytes of 16 values, so sizes from 12 on take two bytes and
  paddings of more than 14 two counts; frames are empty or 12 bytes long; up to three streams,
  coupled, muted and shared channels; garbage is all packets of up to four of the
  bytes that mean something to the header.
* `range_coder`: bytes of 2 bits in a code of 8 keep the proportion of 8 in 32, and a
  carry runs through several bytes within four symbols. Buffers of 1, 3 and 5 bytes are too small, just
  right and large; any three bytes are decoded.

`CHECK_DEADLOCK FALSE` is set where callers may stop calling or the stream ends.

### Fairness

* `ogg_stream`: `WF(FlushPage)`, since a writer's last call is Flush (as in
  `cmd/wav2oggopus`); `WF(Read)`, since the reader's goroutine runs on while
  there is something to read. Writes are under no fairness.
* `ogg_seek`, `opus_player`: `WF(Steps)`, the steps of a call that has begun. These
  are loops of one goroutine over a file, and nothing blocks. Beginning a call is under
  no fairness.
* `wav_to_ogg`: `WF(Next)`: the program is one such loop.
* `opus_decoder`: `SF(Lock or Close)` for each goroutine, which `sync.Mutex` grants: a
  waiter that fails for a millisecond puts it into starvation mode, and is next.
  `WF` of the steps inside a call, which block on nothing.

## 4. What is proved

All proofs are checked to the last leaf by TLAPS, for every value of the
constants. They assume the named assumptions on the constants and nothing else;
every run evaluates those of its module.

| theorems | property | module |
|---|---|---|
| `WriterTypeOK`, `WriterPageLimits`, `WriterHeadersRight`, `WriterSpanBounded`, `WriterIntegrity` | all of `ogg_page_writer` | `OggPageWriterProofs` |
| `ReaderTypeOK`, `ReaderInOrder`, `ReaderGranuleIsOwn`, `ReaderDamageContained` | all of `ogg_packet_reader` | `OggPacketReaderProofs` |
| `SeekLandsHolds`, `SeekFindsHolds`, `LengthHolds` | the safety properties of `ogg_seek` | `OggPacketReaderProofs` |
| `StreamIsChannel` | the refinement `ImplementsChannel` of `ogg_stream` | `OggStreamProofs` |
| `TypeCorrect`, `HistoryFresh`, `NeverAborts`, `RefusalsClean`, `DurationKept`, `OnlyDecodedDelivered` | the safety properties of `opus_decoder` | `OpusDecoderProofs` |
| `LayoutsAgree`, `BudgetsKept`, `CeltInStep` | all of `opus_encoder` | `OpusEncoderProofs` |
| `PlayerInvariant`, `PlayerGapless`, `PlayerLength`, `PlayerFinished` | the safety properties of `opus_player` | `OpusPlayerProofs` |
| `ResamplerChunking`, `ResamplerCount` | all of `resampler` | `WavToOggProofs` |
| `WavToOggEnd` (`WavToOggTrim` and `WavToOggEos` together), `WavToOggGranules`, `WavToOggNothingLost`, `WavToOggPlays` | the safety properties of `wav_to_ogg` | `WavToOggProofs` |
| `TypesHold`, `PacketsKeepWithin`, `DecodeIsAllOrNothing`, `EncodeFitsHolds` | types, `WithinPacket`, `AllOrNothing` and `EncodeFits` of `opus_multistream` | `OpusMultistreamProofs` |

### The assumptions, and what in the code grants them

* `WriterConstants`, `StreamConstants`: a packet has at least one lacing value
  (even an empty one has one, of 0), positions are below the modulus.
* `ReaderConstants`: the pages in a file whose CRC is right are pages a muxer
  made of the packets of one stream, or of another stream altogether, and those of one
  stream are in its order (`MuxedPage`, `MuxedFile`). Any of them may be missing, damaged
  in any way (`DamageKnown`: a damaged page says in which), or have others in between. A page that passes its CRC is what some muxer wrote;
  that one stream is not shuffled is what a file or a TCP connection gives the
  reader, which compares no sequence numbers of its own. The proof that
  *this* muxer's files are of that kind is `StreamIsChannel`, which takes nothing from
  `ReaderConstants` about files: it has the muxer's invariant instead.
* `SeekConstants`: a file to seek in is one stream as a muxer wrote it
  (`SeekableFile`): the identification and the comment header each have a page of their own,
  of position 0, as `WriteHeaderPacket` flushes both; pages are numbered from 0 and lie one behind another;
  positions never fall from one page on which a packet ends to the next, as those
  of a stream that counts samples; the last page ends a packet, and only it may mark the end. Any page may be
  unreadable, the end mark may be missing, and pages have any size that `findNextPage` finds within its window:
  an Ogg page has at most 65,307 bytes, and the window 65,536.
* `DecoderAssumption`: a packet's mode has frames of the sizes its TOC byte can
  name, and at most 120 ms of them, which `opus_packet_parse_impl` checks.
* `EncoderAssumption`: packets have the durations the API takes; SILK has always
  written something when it is done (`MinSilkBits` > 8; the smallest it does
  write is larger).
* `PlayerConstants`: a stream is one a muxer wrote and a demuxer hands out
  (`Muxed`): packets follow each other, a page's position is where its last
  packet ends, on the last page there or before, and only the last packet may carry the mark.
  Packets may be refused by the decoder or lost all the same. Requests are of
  whole stereo frames; that smaller ones misbehave is in section 6.
* `ResamplerConstants`, `WavToOggConstants`: rates, sizes and delays are positive.
* `PacketAssumption`: a byte has room for the fields of a TOC and of a count
  (`Byte` is a multiple of 4 and at least 16), every configuration has a
  duration, and two frames of any are at most 120 ms, as the table of the TOC byte's 32
  configurations has it (2.5 to 60 ms).
* `MultistreamAssumption`: a layout has a stream, no more coupled streams than streams, and
  names sources by number: `opus_multistream_decoder_init` (`opuscc/common.go:3446`) and the
  encoder's refuse any other.
* `EncoderAssumption` of `OpusMultistream`: every duration an encoder is asked for is
  made of one or two frames of some configuration, but 100 ms of five; those of
  `Opus_frame_size_select` (`opusccenc/opusccenc_opus.go:15048`) are 2.5, 5, 10, 20, 40,
  60, 80, 100 and 120 ms. A frame may be empty, and none is longer than the parser takes.

### The arguments

An invariant a run checks is seldom inductive. Each proof has one that is, holds it
against every action in a lemma of its own, and draws the property from it.

**OggPageWriterProofs**. For `PageLimits`, `IInv`: the pending page is within
the limit too, and the pages of one spread packet (`SliceBounds`,
`PacketPagesGood`: 1 to `MaxSegs` values each) are numbered on from `seq`, also if
the output fails after some of them (`PrefixGood`). For the rest, `HInv`: what
is written and pending is one *run* of lacing values, each the successor of the one before
(`Follows`), beginning with the first packet's first. A run is determined by its
first value and its length (`RunDetermined`), so it is the lacing values of the
packets taken (`WriterIntegrity`). `PagesRight` and `Joined` say of each page and
each pair what the headers must; `PendingRight` says of the page being filled that
it starts where a packet does, that `pageStart` is the position before that, and how far it
spans, in the arithmetic that wraps.

**OggPacketReaderProofs**. `RInv` relates what the reader holds to the lacing
values on the undamaged pages it has met (`Seen`, over `Reached`: the file with the pages
in `missed` taken for unreadable ones, so that running past some pages is reading as many bad ones,
`HeldMisses`). `BehindTorn`: where the reader is astray, or has missed a page, a page
whose framing is damaged lies before. `Kept`: what is pending is the beginning of a packet, up to the
last value seen. `Given`: each packet handed out or queued has an ascending
stretch of values that ends where its packet does, and they belong to packets in
ascending order. `Synced`: at the end of an undamaged chain of consecutive pages all packets
that end in it were given, and what is pending is pending because the last page ends inside
a packet. The counting operators by which the model cuts pages into
packets are first shown to mean what they say (`EndsAre`, `PageCut`, `PacketWhole`).

The seek theorems have an invariant of their own, `SeekInv`, by the place in a call
(`Places`). `Known`: each position remembered is that of the first packet ending at
or behind a page probed, so that the scan, which starts from the one closest below the
target, starts below it. `Passed`: the scan has passed pages below the target
only, and `last` is the position of the last of them; so it stops on the first page that
reaches the target, with `last` that of the page before (`LandsAt`). `Wide`: while no page
above the target was seen, the last page lies in the range still searched and every
page probed below it, so that a range that became empty has seen one. `Tailing`:
as long as the tail can be read, each page that continues a packet finds its beginning
pending (`InStep`), which rests on the muxer's order of pages. That a probe finds a page at all
(`FindsNext`) is where the window must hold a whole page.

**OggStreamProofs**. `StreamInv` is the muxer's `HInv` with two facts about the demuxer:
`AllCame` (the i-th packet delivered or queued is the i-th taken, with its
flags, and with its position where it claims one) and `Cursor` (what is pending is the
beginning of the next). Under it every write is a `Send` of `PacketChannel`
or a stutter, every delivery a `Receive`, every other read a stutter (`StreamStep`).

**OpusDecoderProofs**. `IInv` describes a call in flight by its phase. `Live`: a codec the next frame may go on with is not stale; `OnCourse`: what a phase has still to decode has a length it can decode, which the
loop's arithmetic on multiples of 2.5 ms must keep (`Whole`); `Remembered`,
`Returned`, `Covered`: what the fields say about the last success, what is returned, and what
of the caller's memory is filled by this call. There may be any number of goroutines:
all but the holder of the mutex are idle in it.

**OpusEncoderProofs**. Both sides do sums over bits; `IInv` keeps, phase by
phase, the inequalities between bits used, bytes left, redundancy and room
(`Planned`, `Roomy`, `Signalled`, `Shrunk`) from which the decoder's search for
the parts must end where the encoder put them. They hold for every room, rate,
and number of bits SILK takes. For CELT, `SyncInv` follows the two sides' modes
and energies through a frame: `Abreast` before it is coded, `Predicted` while it is,
`Ready` when it waits for the decoder; `Switching` is the packet that ends in
a pending change of mode.

**OpusPlayerProofs**. `PInv`: while nothing disturbed the play, the player is in one of two
situations (`Placed`). Pre-skip is still to be dropped, nothing was rendered and
nothing is buffered (`Waits`); or the buffer goes on where what was heard ends,
and the next packet goes on where the buffer ends (`GoesOn`). `Counted` joins
`totalSamples` to what was heard, across mono and stereo, `SeekSample`'s skipping included;
`ToTheEnd` the end of the last packet to the length. The first finding of section 6
shows in the proof as the one case in which a packet takes the player out of both
situations.

**WavToOggProofs, the converter**. The code drops input by one formula, `Center(next) - half + 1`,
and reads it by another, the window of a frame. The invariant joins them: `Buffer` (the
buffer holds the frames from `base` to the last one seen), `Reach` (no frame still
to come reaches below `base`), `Done` (what was produced was covered). The arithmetic
rests on lemmas about integer division. So for every ratio, filter
and sequence of chunks the output is a function of the whole input.

**WavToOggProofs, the pipeline**. The properties speak of the last packet once it is
written, but are decided earlier. `Ahead`: while input is left just as much has
been fed as was there, and at no time is the encoder a whole frame ahead of
`realFrames + lookahead`. `Marked`: packets written and held are what was fed, frame
by frame, none of them marked. `Finished`: what the final packet carries. From `Ahead`
the trim is less than a packet, hence the final granule still exceeds the one before.
`Sound` adds the samples: what waits in `pending` and what lies in the packets are
the samples of the input at their places, silence behind it. It uses the converter's own
invariant for what comes out of `Process` and `Flush`.

**OpusMultistreamProofs**. First the operators: sums and concatenations of
any number of frames (`SumAppend`, `FlattenAppend`), folds step by step
(`FoldsSteps`), and from them what parsing returns for any bytes
(`ParseGood`: header, frames and padding in this order, within the packet) and what
`Out` builds. Then `StreamInv`. `Positions`: unpadding in place never writes
further than it has read, because a packet without padding is no longer than any packet of
the same frames (`OutBare`, `PartEnds`). `Silent`: before decoding begins no decoder
and no channel was touched. `Decoding`: the decode loop follows the walk of the validation
(`Walking`) over the same bytes, so that no stream can be refused after another was
decoded; each stream so far gave the same number of samples, to the channels mapped to it.

For `EncodeFits`, that parsing undoes building. A header is spelled out in the buffer
(`Spells`: delimiter, count byte, sizes, runs of padding), and what is spelled out is read back
as the header it was made for, one form at a time (`ShortBack`, `LongBack`, together
`RoundTrip`), the frames behind it as the frames (`FramesBack`, `LiesParses`).
So what the encoder made is what its packet says when the repacketizer takes it in, and
what comes out has the length `PartLength` counts (`OutPart`). The invariant of the loop is
`Room`: after stream s the packet has left a byte or two for each of those behind it
(`Reserved`, three where 100 ms need a count byte), and so much is enough: for the smallest packet
of every encoder (`EncoderRoom`) and for the delimiter, as long as sizes below the byte where
they take two are spelled by one (`DelimiterFits`), whence the repacketizer does not refuse (`OutFits`).
At a constant rate the last stream is padded to what is left, no more and no less.

What concerns all elements of a sequence is stated position by position, and where
it must be carried along the sequence, over the least position that would fail
(`LeastOf`, from the library's well-founded orders); so is what
`FlattenSeq` yields for pages of any number (`FlattensExists`, `FlattensUnique`,
`FlattenBuilding`).

### Only model-checked, and why

* Liveness (`EveryPacketArrives`, `CallsEnd`, `CallReturns`, `CallsReturn`,
  `Ends`): TLAPS has no support for fairness beyond propositional steps.
* `DeliveredWhole` of `OpusMultistream`. That parsing undoes building is proved; what is
  missing is that a packet parses alike when bytes behind its end change, for any bytes, as
  padding and unpadding in place have garbage to keep whole too.
* `RoundTrip`, `RoomEnough`, `DecoderSound` of `RangeCoder`: powers of two of any
  exponent and nonlinear division throughout, which the SMT backend does not decide.

## 5. What is not modelled

* The codec's signal processing (`opuscc`, `opusccenc`): analysis, prediction,
  transforms, quantization. This is arithmetic on samples, some 100,000 of the
  repository's lines, translated by a tool from libopus or tables of numbers. Its control is modelled as
  far as it decides about packets, modes, histories and bits; what decides about quality is left open.
* Of the encoder: DTX, in-band FEC and forced modes, which `opus.Encoder` has no
  call for, the application RESTRICTED_SILK, the choice of bandwidth, and the
  number of bits SILK and CELT take. Of the decoder: bandwidth and channels within a stream.
* libcshim: `Alloc` would move a stack whose addresses are integers when it
  grows, but all the regions the translated code asks for, some 49,000 bytes
  together, fit into the first 64 KiB.
* The WAV writer, `examples/convert`, chained streams.
* Byte layouts and CRC computation: a page's CRC is right or wrong, and bytes within
  a page never pass for a page whose CRC is right. Which lengths a damaged header
  claims is left open: the read ends anywhere behind it.
* Filter weights, rounding, dither; channel mixing beyond mono to stereo.
* What extensions in a packet's padding say. Whether padding that is neither ones nor cut off
  by a zero holds any, malformed or not, is left open: `opus_packet_pad` may then keep them or
  refuse the packet (`opusccenc_opus.go:27168-27189`, `27352-27381`), and the decoder
  passes over them.
* The least CELT frame of `OpusEncoder` is 3 bytes; for silence and under constrained VBR the
  code may go down to 2, which no property turns on.
* Option parsing, help, logging, and the developer tools.
* `LengthPlayed` leaves out streams whose last position drops a whole packet or
  more (the player ignores such a position; the encode pipeline provably never
  writes one) and those of the first finding below. `Gapless`
  speaks of play without an error since the last start or seek: after one, nothing in the
  repository says what should be heard.
* Page sequence numbers are not compared by the demuxer, so a packet whose
  middle page vanished is delivered with a hole. `DamageContained` is about
  packets whose pages were all met.
* `ReadPage` does not resynchronise: behind a page whose capture pattern, version,
  segment count or lacing table is damaged (`ogg.go:75-100`) intact pages are lost too, up to
  the end of the file, however often the caller goes on. `DamageContained` promises
  nothing of the packets on them (`missed`), only that nothing else makes the reader miss a page.

## 6. Findings

Shown by a run whose one property TLC refutes:

* `opus_player_length`: `handleSkip` adds the whole pre-skip to a count that
  lacks the samples skipped in this packet (or has pre-skip still to come), so
  the last packet of a page that ends there is cut short. Affected are streams
  whose first audio page ends within, or with the packet that ends, the pre-skip.
  `player_test.go:31` expects `Length()` samples.

Deviations the properties leave out by name:

* `SeekSample` never clears `finished`: after a seek back from the end
  `IsFinished` is true as soon as the buffer is empty (`FinishedMeansOverUnsought`).
* When less than one mono frame fits what is left of p, `ReadPacket` returns 0
  and no error, and `Read` never ends; and reads of one value at a time never move
  CurrentSample, as each adds `count / 2`. The runs read whole frames.
* A target that equals a probed page's position moves neither bound of the
  search; if it is the last page's, the seek fails with an error whose comment
  says the target is beyond the end (`SeekFindsBetween`).
* CELT of the encoder and of the decoder part (`CeltInSync`, the variable
  `gaveUp`) when a packet has no room for more than "conceal" or SILK busts its
  frame, when CELT has no bits left to say "intra", and when a switch to CELT goes
  without its redundant frame. The last happens when there is no room for it
  (as at a constant 16 kb/s), and when SILK changed its rate in the packet before, which
  turns the frame at the end into one at the start: the encoder then goes on from a
  CELT the decoder resets. The two meet again at the next intra frame.

## 7. The plan

Done: muxer, demuxer, their composition, seeking, player, rate converter,
encode pipeline; decoder and its wrapper, encoder's frames, packets, multistream,
range coder; proofs of all but the range coder.

Theorems to come, the most important first:

1. `DeliveredWhole` of `OpusMultistream`, from `RoundTrip` and a lemma that a
   self-delimited packet does not depend on what stands behind it.
2. `DecoderSound` of `RangeCoder`: the registers stay in range for every width and
   any bytes; then `RoomEnough`, whose count of bits has to bound what the encoder
   still holds back, and `RoundTrip`, which needs the carry.

Modules left: a composition of `OpusPlayer` with `OggSeek` in place of its
abstract demuxer; `Convert` (`examples/convert`: the goroutine, its channel of 16 chunks,
whether either can be left waiting); `WavWriter` (closed flag, failed Close,
sizes that wrap); SILK's rate control and CELT's allocation, which would bound the bits that
`OpusEncoder` leaves open.
