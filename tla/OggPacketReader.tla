-------------------------- MODULE OggPacketReader --------------------------
(***************************************************************************)
(* The demuxer: PacketReader.ReadPacket (src/ogg/packets.go) on top of     *)
(* PageReader.ReadPage (src/ogg/ogg.go), over a file whose pages may be    *)
(* missing, damaged or of another stream.                                  *)
(*                                                                         *)
(* A page is what OggPageWriter makes, plus its serial number and whether  *)
(* its CRC matches; one that fails it says what is damaged.  Bytes within  *)
(* a page never pass for a page with a right CRC.  havePending is not      *)
(* kept: a lacing value that does not end its packet has 255 bytes, so it  *)
(* is TRUE exactly when pending is not empty.                              *)
(***************************************************************************)
EXTENDS Naturals, Sequences, SequencesExt

CONSTANTS
    Files,       \* the page sequences a reader may be given
    NoSerial,    \* r.serial == nil
    NoGranule,   \* math.MaxUint64
    Sent         \* the packets the muxer was given: [laces, granule]; only
                 \* the properties know them

(* A lacing value: its packet, its place there, and whether it ends it.    *)
Seg == [pkt: DOMAIN Sent, k: Nat, end: BOOLEAN]
Before(s, t) == s.pkt < t.pkt \/ (s.pkt = t.pkt /\ s.k < t.k)

(* What the properties suppose of a file.  A page that passes its CRC is a *)
(* page some muxer made: its lacing values in order, a packet starting     *)
(* where another ends, its header true of the last packet it completes...  *)
MuxedPage(pg) ==
    /\ pg.segs \in Seq(Seg) /\ pg.seq \in Nat /\ pg.granule \in Nat
    /\ \A flag \in {pg.cont, pg.bos, pg.eos} : flag \in BOOLEAN
    /\ pg.cont <=> pg.segs # <<>> /\ pg.segs[1].k > 1
    /\ \A j \in DOMAIN pg.segs :
          LET s == pg.segs[j]
          IN  /\ s.k \in 1..Sent[s.pkt].laces
              /\ s.end <=> s.k = Sent[s.pkt].laces
              /\ \A i \in 1..(j - 1) : Before(pg.segs[i], s)
              /\ j > 1 => (s.k = 1 <=> pg.segs[j - 1].end)
              /\ s.end /\ (\A i \in (j + 1)..Len(pg.segs) : ~ pg.segs[i].end) =>
                    /\ pg.granule \in {NoGranule, Sent[s.pkt].granule}
                    /\ pg.eos => s.pkt = Len(Sent)

(* ... and the pages of one stream are in its order, whichever are left: a *)
(* page without lacing values stands for a page of a stream we never sent. *)
MuxedFile(f) ==
    /\ f \in Seq(Range(f))
    /\ \A i \in DOMAIN f :
          /\ f[i].crc \in BOOLEAN /\ f[i].serial # NoSerial
          /\ f[i].crc => MuxedPage(f[i])
    /\ \A j \in DOMAIN f : \A i \in 1..(j - 1) :
          f[i].crc /\ f[j].crc /\ f[i].serial = f[j].serial =>
            /\ f[i].segs = <<>> <=> f[j].segs = <<>>
            /\ \A s \in Range(f[i].segs), t \in Range(f[j].segs) : Before(s, t)
            /\ f[i].segs # <<>> =>
                 /\ f[i].seq < f[j].seq
                 /\ f[j].seq = f[i].seq + 1 => (f[j].cont <=> ~ Last(f[i].segs).end)

(* What is damaged decides where ReadPage is afterwards: the capture       *)
(* pattern or the version, the segment count or the lacing table, or       *)
(* nothing it finds the next page by.                                      *)
Damages == {"capture", "lacing", "body"}
DamageKnown(f) == \A i \in DOMAIN f : f[i].crc \/ f[i].damage \in Damages

ASSUME ReaderConstants ==
    /\ Sent \in Seq([laces: Nat \ {0}, granule: Nat])
    /\ \A f \in Files : MuxedFile(f) /\ DamageKnown(f)

(* A reader: the next page of the file that starts at or behind its place  *)
(* in the bytes, whether that place is astray, within the page before, and *)
(* PacketReader's fields.                                                  *)
NewReader(at) ==
    [next |-> at, astray |-> FALSE,
     serial |-> NoSerial, pending |-> <<>>, queue |-> <<>>]

(* reset() and a new PageReader at another page; the serial number stays.  *)
Reposition(rd, at) ==
    [rd EXCEPT !.next = at, !.astray = FALSE, !.pending = <<>>, !.queue = <<>>]

(* Where the packets completed on a page end, in order. *)
EndsUpTo(pg, k) == Cardinality({i \in 1..k : pg.segs[i].end})
Ends(pg) == [j \in 1..EndsUpTo(pg, Len(pg.segs)) |->
               CHOOSE k \in DOMAIN pg.segs :
                 pg.segs[k].end /\ EndsUpTo(pg, k) = j]

(* The packets completed on a page.  All carry its granule position, only  *)
(* the last one as valid, and only the last one the end of the stream.     *)
PagePacketsAllValid(pg, pending) ==   \* mutant: every packet's is valid
    LET e == Ends(pg)
    IN  [j \in 1..Len(e) |->
          [segs    |-> IF j = 1 THEN pending \o SubSeq(pg.segs, 1, e[1])
                                ELSE SubSeq(pg.segs, e[j - 1] + 1, e[j]),
           seq     |-> pg.seq,
           granule |-> pg.granule,
           valid   |-> pg.granule # NoGranule,
           bos     |-> pg.bos /\ j = 1,
           eos     |-> pg.eos /\ j = Len(e)]]
PagePackets(pg, pending) ==
    LET e == Ends(pg)
    IN  [j \in 1..Len(e) |->
          [segs    |-> IF j = 1 THEN pending \o SubSeq(pg.segs, 1, e[1])
                                ELSE SubSeq(pg.segs, e[j - 1] + 1, e[j]),
           seq     |-> pg.seq,
           granule |-> pg.granule,
           valid   |-> j = Len(e) /\ pg.granule # NoGranule,
           bos     |-> pg.bos /\ j = 1,
           eos     |-> pg.eos /\ j = Len(e)]]

(* What a page leaves unfinished behind the last packet it completes. *)
RestDropped(pg) == <<>>                \* mutant: tail of the page forgotten
Rest(pg) == SubSeq(pg.segs, Last(Ends(pg)) + 1, Len(pg.segs))

(* What is left of an unfinished packet when a page follows that does not  *)
(* continue it: nothing.                                                   *)
KeepPending(rd, pg) == rd.pending      \* mutant: stale data kept
Carried(rd, pg) == IF pg.cont THEN rd.pending ELSE <<>>

(* What a page does to the call that reads it.  Only a page of this stream *)
(* touches pending.                                                        *)
Owned(rd, pg) == IF rd.serial = NoSerial THEN pg.serial ELSE rd.serial
Accepted(rd, pg) ==
    /\ pg.crc
    /\ pg.serial = Owned(rd, pg)
    /\ pg.cont => rd.pending # <<>>

(* An accepted page: the packets it completes are queued and the first one *)
(* is returned; if it completes none, the loop reads on.                   *)
PopNothing(queue) == queue               \* mutant: packet left in the queue
PopAll(queue) == <<>>                    \* mutant: the page's others forgotten
Pop(queue) == Tail(queue)

Completed(rd, pg) == PagePackets(pg, Carried(rd, pg))

Absorbed(rd, pg) ==
    [next    |-> rd.next + 1,
     astray  |-> FALSE,
     serial  |-> Owned(rd, pg),
     pending |-> IF Ends(pg) = <<>> THEN Carried(rd, pg) \o pg.segs
                                      ELSE Rest(pg),
     queue   |-> IF Ends(pg) = <<>> THEN <<>> ELSE Pop(Completed(rd, pg))]

----------------------------------------------------------------------------
(* A caller that goes on reading whatever it is told, up to the end.       *)
VARIABLES
    file,        \* what is read
    reader,      \* the PacketReader
    delivered,   \* history: packets returned
    lastErr,     \* history: the error of the last call, "none" if it had none
    missed       \* history: pages whose start it was never at

readerVars == <<file, reader, delivered, lastErr, missed>>

Init ==
    /\ file \in Files
    /\ reader = NewReader(1)
    /\ delivered = <<>>
    /\ lastErr = "none"
    /\ missed = {}

Reading == reader.queue = <<>> /\ ~ reader.astray /\ reader.next <= Len(file)
Astray == reader.queue = <<>> /\ reader.astray
AllRead(rd) == ~ rd.astray /\ rd.next > Len(file)
page == file[reader.next]

(* ReadPage takes lengths from bytes that are none: it may stop anywhere   *)
(* from here on, by luck at the start of a page.                           *)
Onward(rd) == {[rd EXCEPT !.next = at[1], !.astray = at[2]] :
                  at \in (rd.next..(Len(file) + 1)) \X BOOLEAN}

(* A page that is not accepted is consumed whole if its lengths are right. *)
(* Without the capture pattern or the version only 27 bytes of it are (all *)
(* of it, if it has no lacing values).  Nothing looks for the next page.   *)
Rejected(rd, pg) ==
    LET after == [rd EXCEPT !.next = @ + 1,
                            !.serial = IF pg.crc THEN Owned(rd, pg) ELSE @]
    IN  IF pg.crc \/ pg.damage = "body" THEN {after}
        ELSE IF pg.damage = "capture" THEN {after, [after EXCEPT !.astray = TRUE]}
        ELSE Onward(after)

(* The errors it is rejected with; a page cut short by the end of the file *)
(* is io.ErrUnexpectedEOF, or io.EOF if that comes between two of its      *)
(* parts.                                                                  *)
CutShort(after) == IF AllRead(after) THEN {"short", "eof"} ELSE {}
PageErrors(rd, pg, after) ==
    IF pg.crc
    THEN IF pg.serial # Owned(rd, pg) THEN {"serial"} ELSE {"continued"}
    ELSE CASE pg.damage = "body" -> {"crc"}
           [] pg.damage = "capture" -> {"capture"}
           [] OTHER -> {"crc"} \cup CutShort(after)

(* The pages run past on the way to where a call leaves the reader.        *)
RunPast(after) ==
    (IF reader.astray THEN reader.next ELSE reader.next + 1)..(after.next - 1)

(* ReadPacket, a packet of the last page left to return. *)
ServeQueue ==
    /\ reader.queue # <<>>
    /\ delivered' = Append(delivered, Head(reader.queue))
    /\ reader' = [reader EXCEPT !.queue = Pop(@)]
    /\ lastErr' = "none"
    /\ UNCHANGED <<file, missed>>

(* ReadPacket's loop: a page that completes no packet... *)
ReadOn ==
    /\ Reading
    /\ Accepted(reader, page) /\ Ends(page) = <<>>
    /\ reader' = Absorbed(reader, page)
    /\ UNCHANGED <<file, delivered, lastErr, missed>>

(* ... one that does... *)
Deliver ==
    /\ Reading
    /\ Accepted(reader, page) /\ Ends(page) # <<>>
    /\ reader' = Absorbed(reader, page)
    /\ delivered' = Append(delivered, Completed(reader, page)[1])
    /\ lastErr' = "none"
    /\ UNCHANGED <<file, missed>>

(* ... a bad one, or one of another stream... *)
ReturnError ==
    /\ Reading
    /\ ~ Accepted(reader, page)
    /\ reader' \in Rejected(reader, page)
    /\ lastErr' \in PageErrors(reader, page, reader')
    /\ missed' = missed \cup RunPast(reader')
    /\ UNCHANGED <<file, delivered>>

(* ... bytes that are no page... *)
ReadAstray ==
    /\ Astray
    /\ reader' \in Onward(reader)
    /\ lastErr' \in {"capture", "crc"} \cup CutShort(reader')
    /\ missed' = missed \cup RunPast(reader')
    /\ UNCHANGED <<file, delivered>>

(* ... and none at all. *)
EndOfFile ==
    /\ reader.queue = <<>> /\ AllRead(reader)
    /\ lastErr # "eof" /\ lastErr' = "eof"
    /\ UNCHANGED <<file, reader, delivered, missed>>

Next == ServeQueue \/ ReadOn \/ Deliver \/ ReturnError \/ ReadAstray \/ EndOfFile

Spec == Init /\ [][Next]_readerVars

----------------------------------------------------------------------------
Packet == [segs: Seq(Seg), seq: Nat, granule: Nat, valid: BOOLEAN,
           bos: BOOLEAN, eos: BOOLEAN]

(* Unfinished data never holds a finished packet: havePending is told from *)
(* pending alone.                                                          *)
TypeOK ==
    /\ reader.next \in 1..(Len(file) + 1) /\ reader.astray \in BOOLEAN
    /\ missed \subseteq 1..(reader.next - 1)
    /\ reader.pending \in Seq(Seg)
    /\ \A k \in DOMAIN reader.pending : ~ reader.pending[k].end
    /\ reader.queue \in Seq(Packet)
    /\ delivered \in Seq(Packet)

Lacing(p) == [k \in 1..Sent[p].laces |-> [pkt |-> p, k |-> k, end |-> k = Sent[p].laces]]
Owner(d) == Last(d.segs).pkt

(* Pages of the reader's own stream that it could use, by page number; and *)
(* the numbers of those that carry packet p.                               *)
Good == {i \in DOMAIN file \ missed : file[i].crc /\ file[i].serial = reader.serial}
GoodSeqs == {file[i].seq : i \in Good}
SeqsOf(p) == {file[i].seq : i \in {j \in Good : p \in {s.pkt : s \in ToSet(file[j].segs)}}}
BehindTorn(i) == \E j \in 1..(i - 1) : ~ file[j].crc /\ file[j].damage # "body"
Arrived(p) == ToSet(Lacing(p)) \subseteq UNION {ToSet(file[i].segs) : i \in Good}

(* No damage to the file makes the reader return a packet twice or out of  *)
(* order.                                                                  *)
InOrder ==
    \A i, j \in DOMAIN delivered :
        i < j => Owner(delivered[i]) < Owner(delivered[j])

(* The damage is contained, as far as the reader keeps to the pages.       *)
(* Whatever was lost around it, a packet all of whose pages were met comes *)
(* out exactly as it was sent, with nothing of another packet in it; and   *)
(* at the end of the file every packet has been returned for which, from   *)
(* some page that does not continue a packet up to the page it ends on,    *)
(* all pages were met.  Only damage to a capture pattern, a version or a   *)
(* lacing table makes it miss pages, and only pages behind it.             *)
DamageContained ==
    /\ \A i \in DOMAIN delivered :
          Arrived(Owner(delivered[i])) =>
              delivered[i].segs = Lacing(Owner(delivered[i]))
    /\ lastErr = "eof" =>
        \A p \in DOMAIN Sent :
            /\ Arrived(p)
            /\ \E i \in Good : /\ ~ file[i].cont
                               /\ \A q \in SeqsOf(p) : file[i].seq <= q
                               /\ \A q \in SeqsOf(p) : file[i].seq..q \subseteq GoodSeqs
            => \E i \in DOMAIN delivered : delivered[i].segs = Lacing(p)
    /\ \A i \in missed : BehindTorn(i)

(* The granule position marked valid is that of the packet itself, damaged *)
(* or not: the player trims the stream's end by it.                        *)
GranuleIsOwn ==
    \A i \in DOMAIN delivered :
        LET d == delivered[i]
        IN  /\ d.valid => d.granule = Sent[Owner(d)].granule
            /\ d.eos => Owner(d) = Len(Sent)
=============================================================================
