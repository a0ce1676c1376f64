--------------------------- MODULE OggPageWriter ---------------------------
(***************************************************************************)
(* The muxer: PageWriter (src/ogg/page_writer.go), which packs audio       *)
(* packets onto shared pages, on top of PacketWriter (src/ogg/writer.go),  *)
(* which turns one packet into pages of its own.                           *)
(*                                                                         *)
(* Data abstraction.  A packet is its index in `sent' and its number of    *)
(* lacing values; a lacing value is the packet it belongs to, its place    *)
(* there and whether it ends the packet (in the code: is < 255), and       *)
(* stands for its <= 255 bytes of body as well.                            *)
(***************************************************************************)
EXTENDS Naturals, Sequences, SequencesExt

CONSTANTS
    MaxSegs,         \* lacing values one page can hold (255)
    MaxPageGranules, \* PageWriter.MaxPageGranules as the caller set it
    DefaultMaxPageGranules,  \* the span used when that is zero
    GranuleMod,      \* granule positions are modulo this (2^64)
    Laces,           \* packet sizes tried, in lacing values
    Granules,        \* granule positions callers pass
    Serial,          \* the stream's serial number
    MaxPackets       \* bound: packets handed to the writer

ASSUME WriterConstants ==
    /\ MaxSegs \in Nat \ {0}
    /\ MaxPageGranules \in Nat
    /\ DefaultMaxPageGranules \in Nat \ {0}
    /\ GranuleMod \in Nat \ {0}
    /\ Laces \subseteq Nat \ {0}
    /\ Granules \subseteq 0..(GranuleMod - 1)
    /\ MaxPackets \in Nat

VARIABLES
    segs,       \* w.segs: lacing values of the page being filled
    granule,    \* w.granule
    pageStart,  \* w.pageStart
    seq,        \* w.pw.seq
    out,        \* pages the bufio.Writer has taken
    failed,     \* the bufio.Writer holds a sticky error
    sent        \* history: every packet the writer took, in order

writerVars == <<segs, granule, pageStart, seq, out, failed, sent>>

NoGranule == GranuleMod - 1   \* math.MaxUint64: no packet ends on the page
maxSpan == IF MaxPageGranules = 0 THEN DefaultMaxPageGranules
                                  ELSE MaxPageGranules

Granule == 0..(GranuleMod - 1)
Seg == [pkt: Nat, k: Nat, end: BOOLEAN]
Page == [cont: BOOLEAN, bos: BOOLEAN, eos: BOOLEAN, granule: Granule,
         seq: Nat, segs: Seq(Seg), serial: {Serial}, crc: {TRUE}]
SentPacket == [laces: Nat \ {0}, granule: Granule, bos: BOOLEAN, eos: BOOLEAN]

(* oggLacing: n - 1 full values and the one that ends the packet. *)
oggLacing(p, n) == [k \in 1..n |-> [pkt |-> p, k |-> k, end |-> k = n]]

(* The part of a packet's lacing that its i-th page carries... *)
SliceOverlap(lace, i) ==     \* mutant: advances by one value too few
    SubSeq(lace, (i - 1) * (MaxSegs - 1) + 1,
           IF i * MaxSegs < Len(lace) THEN i * MaxSegs ELSE Len(lace))
Slice(lace, i) ==
    SubSeq(lace, (i - 1) * MaxSegs + 1, IF i * MaxSegs < Len(lace)
                                        THEN i * MaxSegs ELSE Len(lace))

(* ... and the header of that page, one of `count': the granule position   *)
(* only where the packet ends.                                             *)
HeaderNotContinued(i, count, g, bos, eos) ==   \* mutant: flag 0x01 forgotten
    [cont |-> FALSE, bos |-> bos /\ i = 1, eos |-> eos /\ i = count,
     granule |-> IF i = count THEN g ELSE NoGranule]
HeaderGranuleEverywhere(i, count, g, bos, eos) ==   \* mutant: never -1
    [cont |-> i > 1, bos |-> bos /\ i = 1, eos |-> eos /\ i = count,
     granule |-> g]
HeaderEosFirst(i, count, g, bos, eos) ==   \* mutant: eos treated like bos
    [cont |-> i > 1, bos |-> bos /\ i = 1, eos |-> eos /\ i = 1,
     granule |-> IF i = count THEN g ELSE NoGranule]
Header(i, count, g, bos, eos) ==
    [cont |-> i > 1, bos |-> bos /\ i = 1, eos |-> eos /\ i = count,
     granule |-> IF i = count THEN g ELSE NoGranule]

MakePage(h, number, s) ==
    [cont |-> h.cont, bos |-> h.bos, eos |-> h.eos, granule |-> h.granule,
     seq |-> number, segs |-> s, serial |-> Serial, crc |-> TRUE]

PageCount(n) == (n + MaxSegs - 1) \div MaxSegs

(* The pages of PacketWriter.WritePacket for packet p of n lacing values.  *)
PacketPages(p, n, g, bos, eos, first) ==
    [i \in 1..PageCount(n) |->
        MakePage(Header(i, PageCount(n), g, bos, eos), first + i - 1,
                 Slice(oggLacing(p, n), i))]

(* The page flushPage writes, if there is anything to write. *)
FlushPages(s, g, eos, number) ==
    IF s = <<>> THEN <<>>
    ELSE << MakePage(Header(1, 1, g, FALSE, eos), number, s) >>

----------------------------------------------------------------------------
(* What the output does with the pages one call writes: it takes the first *)
(* k; a shortfall is an error, which bufio.Writer then repeats for ever.   *)
(* pw.seq counts the pages taken.                                          *)
Emit(pages, k) ==
    /\ failed => k = 0
    /\ out' = out \o SubSeq(pages, 1, k)
    /\ seq' = seq + k
    /\ failed' = (failed \/ k < Len(pages))

Take(n, g, bos, eos) ==
    sent' = Append(sent, [laces |-> n, granule |-> g, bos |-> bos, eos |-> eos])

Init ==
    /\ segs = <<>> /\ granule = 0 /\ pageStart = 0
    /\ seq = 0 /\ out = <<>> /\ failed = FALSE
    /\ sent = <<>>

Flushed == FlushPages(segs, granule, FALSE, seq)

(* The two conditions of WritePacket that close a page. *)
OverflowsLate(n) == Len(segs) > MaxSegs          \* mutant: packet not counted
Overflows(n) == Len(segs) + n > MaxSegs
SpansLate(g, start) ==                           \* mutant: > for >=
    (g + GranuleMod - start) % GranuleMod > maxSpan
Spans(g, start) == (g + GranuleMod - start) % GranuleMod >= maxSpan

(* WriteHeaderPacket: the pending page, then the packet on its own pages.  *)
(* Callers send OpusHead (bos) and OpusTags before any audio.              *)
WriteHeaderPacket(n) ==
    LET bos   == sent = <<>>
        pages == Flushed \o PacketPages(Len(sent) + 1, n, 0, bos, FALSE,
                                        seq + Len(Flushed))
    IN  /\ Len(sent) < 2
        /\ \E k \in 0..Len(pages) :
              /\ Emit(pages, k)
              /\ IF k >= Len(Flushed)
                   THEN segs' = <<>> /\ Take(n, 0, bos, FALSE)
                   ELSE UNCHANGED <<segs, sent>>
        /\ UNCHANGED <<granule, pageStart>>

InAudio == /\ Len(sent) \in 2..(MaxPackets - 1)
           /\ ~ Last(sent).eos

(* WritePacket, a packet too big to share a page. *)
WriteSpanning(n, g, eos) ==
    LET pages == Flushed \o PacketPages(Len(sent) + 1, n, g, FALSE, eos,
                                        seq + Len(Flushed))
    IN  /\ InAudio
        /\ n > MaxSegs
        /\ \E k \in 0..Len(pages) :
              /\ Emit(pages, k)
              /\ IF k >= Len(Flushed)
                   THEN /\ segs' = <<>> /\ granule' = g /\ pageStart' = g
                        /\ Take(n, g, FALSE, eos)
                   ELSE UNCHANGED <<segs, granule, pageStart, sent>>

(* WritePacket, a packet that shares a page.  It is refused when the page  *)
(* it does not fit on cannot be closed...                                  *)
RefusePacket(n) ==
    /\ InAudio
    /\ n <= MaxSegs
    /\ Overflows(n)
    /\ Emit(Flushed, 0)
    /\ UNCHANGED <<segs, granule, pageStart, sent>>

(* ... and queued otherwise; eos or the page's span closes the page.       *)
QueuePacket(n, g, eos) ==
    LET before == IF Overflows(n) THEN Flushed ELSE <<>>
        base   == IF Overflows(n) THEN <<>> ELSE segs
        start  == IF base = <<>> THEN granule ELSE pageStart
        page   == base \o oggLacing(Len(sent) + 1, n)
        after  == IF eos \/ Spans(g, start)
                  THEN FlushPages(page, g, eos, seq + Len(before)) ELSE <<>>
    IN  /\ InAudio
        /\ n <= MaxSegs
        /\ \E k \in Len(before)..(Len(before) + Len(after)) :
              /\ Emit(before \o after, k)
              /\ segs' = IF after # <<>> /\ k = Len(before \o after)
                         THEN <<>> ELSE page
        /\ granule' = g
        /\ pageStart' = start
        /\ Take(n, g, FALSE, eos)

(* FlushPage, and Flush, whose second half is the bufio.Writer's. *)
FlushPage ==
    /\ segs # <<>>
    /\ \E k \in 0..1 :
          /\ Emit(Flushed, k)
          /\ segs' = IF k = 1 THEN <<>> ELSE segs
    /\ UNCHANGED <<granule, pageStart, sent>>

Next ==
    \/ FlushPage
    \/ \E n \in Laces :
          \/ WriteHeaderPacket(n)
          \/ RefusePacket(n)
          \/ \E g \in Granules, eos \in BOOLEAN :
                WriteSpanning(n, g, eos) \/ QueuePacket(n, g, eos)

Spec == Init /\ [][Next]_writerVars

----------------------------------------------------------------------------
TypeOK ==
    /\ segs \in Seq(Seg)
    /\ granule \in Granule /\ pageStart \in Granule
    /\ seq \in Nat
    /\ out \in Seq(Page)
    /\ failed \in BOOLEAN
    /\ sent \in Seq(SentPacket)

(* The segment count of a page is one byte of its header: no page, written *)
(* or pending, ever holds more than MaxSegs lacing values, whatever order  *)
(* of failed flushes and retried calls led there; and pages are numbered   *)
(* without a gap although a failed page does not count.                    *)
PageLimits ==
    /\ Len(segs) <= MaxSegs
    /\ seq = Len(out)
    /\ \A i \in DOMAIN out : /\ Len(out[i].segs) \in 1..MaxSegs
                             /\ out[i].seq = i - 1

Completed(page) == {j \in DOMAIN page.segs : page.segs[j].end}
LastCompleted(page) ==   \* index in sent
    page.segs[CHOOSE j \in Completed(page) :
                \A i \in Completed(page) : i <= j].pkt

(* "Its granule position is that of the last packet completed on it", and  *)
(* -1 where none is: of every page, whichever call closed it.              *)
GranuleOfLastPacket ==
    \A i \in DOMAIN out :
        out[i].granule = IF Completed(out[i]) = {} THEN NoGranule
                         ELSE sent[LastCompleted(out[i])].granule

(* A page says "continued" exactly when the page before it broke off       *)
(* inside a packet.                                                        *)
ContinuedExactly ==
    \A i \in DOMAIN out :
        out[i].cont <=> i > 1 /\ ~ Last(out[i - 1].segs).end

(* The end-of-stream flag is on the page that ends the eos packet and on   *)
(* no other; nothing is written after that page.                           *)
EosOnLastPage ==
    \A i \in DOMAIN out :
        /\ out[i].eos <=> LET s == Last(out[i].segs)
                          IN  s.end /\ sent[s.pkt].eos
        /\ out[i].eos => i = Len(out)

(* What a page's header says of position, continuation and end is true of  *)
(* its lacing values, on every page of a packet cut into many.             *)
PageHeadersRight == GranuleOfLastPacket /\ ContinuedExactly /\ EosOnLastPage

(* No lacing value is lost, repeated or reordered on its way through the   *)
(* pending page: pages and pending page hold what was sent, and after an   *)
(* error what was written is still a prefix of it.                         *)
Stream == FlattenSeq([p \in DOMAIN sent |-> oggLacing(p, sent[p].laces)])
Wire == FlattenSeq([i \in DOMAIN out |-> out[i].segs])
StreamIntegrity ==
    IF failed THEN IsPrefix(Wire, Stream) ELSE Wire \o segs = Stream

(* A page is closed as soon as its packets span maxSpan: up to its last    *)
(* packet but one, no page spans that much; nor does the pending page.     *)
Spanned(p, q) == (sent[q].granule + GranuleMod - sent[p].granule) % GranuleMod
SpanBounded ==
    /\ ~ failed /\ segs # <<>> => Spanned(segs[1].pkt - 1, Last(segs).pkt) < maxSpan
    /\ \A i \in DOMAIN out :
          LET first == out[i].segs[1].pkt
              last  == Last(out[i].segs).pkt
          IN  last > first => Spanned(first - 1, last - 1) < maxSpan
=============================================================================
