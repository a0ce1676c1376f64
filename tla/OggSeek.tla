------------------------------ MODULE OggSeek ------------------------------
(***************************************************************************)
(* Random access: PacketReader.SeekToPage and LastPageGranule              *)
(* (src/ogg/packets.go), on the page-by-page reader of OggPacketReader.    *)
(*                                                                         *)
(* Every page has the byte offset `at' it starts at and the file `size'    *)
(* bytes.  findNextPage's scan window of 64K holds more than a page, and   *)
(* no packet contains the capture pattern.                                 *)
(***************************************************************************)
EXTENDS OggPacketReader

CONSTANTS
    Window,     \* how far findNextPage looks (65536 bytes)
    Targets,    \* granule positions SeekToPage is called with
    Backup,     \* how far from the end LastPageGranule looks (65536 bytes)
    MaxCalls    \* bound: calls of either in one behaviour

(* A file to seek in: one stream as it was written, some pages perhaps no  *)
(* longer readable.  The pages lie one behind another and are numbered     *)
(* from 0; the two headers have a page each, and positions never fall from *)
(* one page a packet ends on to the next.  Only the last page, on which a  *)
(* packet ends, may mark the end.                                          *)
SeekableFile(f) ==
    LET ending == {i \in DOMAIN f : Ends(f[i]) # <<>>}
    IN  /\ Len(f) > 2 /\ {1, 2, Len(f)} \subseteq ending
        /\ \A i \in 1..2 : f[i].granule = 0 /\ (f[i].crc => Len(Ends(f[i])) = 1)
        /\ \A i \in DOMAIN f :
              /\ f[i].serial = f[1].serial /\ f[i].seq = i - 1 /\ f[i].segs # <<>>
              /\ f[i].granule \in Nat /\ (f[i].eos => i = Len(f))
              /\ f[i].at \in Nat /\ f[i].size \in 1..Window
              /\ f[i].at = IF i = 1 THEN 0 ELSE f[i - 1].at + f[i - 1].size
        /\ \A j \in ending : /\ f[j].granule # NoGranule
                             /\ \A i \in ending : i < j => f[i].granule <= f[j].granule

ASSUME SeekConstants ==
    /\ Targets \subseteq Nat
    /\ Window \in Nat
    /\ Backup \in Nat
    /\ MaxCalls \in Nat
    /\ \A f \in Files : SeekableFile(f)

VARIABLES
    size,             \* the file's length
    pc,               \* where in which call we are; "idle" outside
    target,           \* granulePos
    total, start,     \* the byte range still searched
    position,         \* where the current probe started
    pagePosition,     \* the page it found
    granulePositions, \* granule position -> page, of the pages probed
    lowest, highest, highestPage,
    last,             \* of the final scan; headers left to skip
    calls,            \* calls made
    result            \* of the last call: [ok, value, call]

seekVars == <<total, start, position, pagePosition, granulePositions,
              lowest, highest, highestPage, last>>
vars == <<readerVars, size, pc, target, calls, result, seekVars>>

Offset(i) == file[i].at
PageFrom(p) == {i \in DOMAIN file : /\ Offset(i) \in p..(p + Window - 1)
                                    /\ file[i].crc \/ file[i].damage # "capture"}
NextPage(p) == CHOOSE i \in PageFrom(p) : \A j \in PageFrom(p) : i <= j
PageAt(p) == CHOOSE i \in DOMAIN file : Offset(i) = p

(* A player's reader has read the two headers when it first seeks. *)
InitSeek ==
    /\ file \in Files
    /\ reader = [NewReader(3) EXCEPT !.serial = file[1].serial]
    /\ delivered = <<>> /\ lastErr = "none" /\ missed = {}
    /\ size = Last(file).at + Last(file).size
    /\ pc = "idle" /\ target = 0 /\ calls = 0
    /\ total = 0 /\ start = 0 /\ position = 0 /\ pagePosition = 0
    /\ granulePositions = << >>
    /\ lowest = 0 /\ highest = 0 /\ highestPage = 0 /\ last = 0
    /\ result = [ok |-> TRUE, value |-> 0, call |-> "none"]

Return(ok, value) ==
    /\ pc' = "idle"
    /\ result' = [ok |-> ok, value |-> value, call |-> result.call]

Keep == UNCHANGED <<file, size, delivered, lastErr, missed, target, calls>>

----------------------------------------------------------------------------
(* One turn of ReadPacket inside a call: it has a packet, or an error (the  *)
(* end of the file too), or it takes another turn.                         *)
TurnPacket == IF reader.queue # <<>> THEN Head(reader.queue)
              ELSE Completed(reader, page)[1]
HasPacket == \/ reader.queue # <<>>
             \/ Reading /\ Accepted(reader, page) /\ Ends(page) # <<>>
AfterPacket == IF reader.queue # <<>> THEN [reader EXCEPT !.queue = Pop(@)]
               ELSE Absorbed(reader, page)

TurnMore ==
    /\ pc \in {"skip", "read", "scan", "tail"}
    /\ Reading /\ Accepted(reader, page) /\ Ends(page) = <<>>
    /\ reader' = Absorbed(reader, page)
    /\ Keep /\ UNCHANGED <<pc, result, seekVars>>

HasError == /\ reader.queue = <<>>
            /\ Reading => ~ Accepted(reader, page)
AfterError == CASE Reading -> Rejected(reader, page)
                [] Astray  -> Onward(reader)
                [] OTHER   -> {reader}

----------------------------------------------------------------------------
(* SeekToPage(0): back to the start, past the two header packets.          *)
OneHeader == 1                    \* mutant: OpusTags is left to be read
Headers == 2
CallRewind ==
    /\ pc = "idle" /\ calls < MaxCalls
    /\ 0 \in Targets
    /\ reader' = Reposition(reader, 1)
    /\ target' = 0 /\ last' = Headers
    /\ pc' = "skip" /\ calls' = calls + 1
    /\ result' = [result EXCEPT !.call = "seek"]
    /\ UNCHANGED <<file, size, delivered, lastErr, missed, total, start, position,
                   pagePosition, granulePositions, lowest, highest, highestPage>>

SkipHeader ==
    /\ pc = "skip" /\ HasPacket
    /\ reader' = AfterPacket
    /\ last' = last - 1
    /\ IF last = 1 THEN Return(TRUE, 0) ELSE UNCHANGED <<pc, result>>
    /\ Keep /\ UNCHANGED <<total, start, position, pagePosition,
                           granulePositions, lowest, highest, highestPage>>

SkipFails ==
    /\ pc = "skip" /\ HasError
    /\ reader' \in AfterError
    /\ Return(FALSE, 0)
    /\ Keep /\ UNCHANGED seekVars

(* SeekToPage(t): bisect the file's bytes, probing the page that follows   *)
(* the middle.                                                             *)
CallSeek(t) ==
    /\ pc = "idle" /\ calls < MaxCalls
    /\ t > 0
    /\ target' = t
    /\ total' = size /\ start' = 0
    /\ granulePositions' = << >>
    /\ lowest' = 0 /\ highest' = 0 /\ highestPage' = 0
    /\ pc' = "probe" /\ calls' = calls + 1
    /\ result' = [result EXCEPT !.call = "seek"]
    /\ UNCHANGED <<file, size, delivered, lastErr, missed, reader, position,
                   pagePosition, last>>

Middle == (total + start) \div 2
SearchingShort == start + 1 < total   \* mutant: the range's last byte unseen
Searching == start < total

PageFound(p) == Offset(NextPage(p))
Probe ==
    /\ pc = "probe" /\ Searching
    /\ position' = Middle
    /\ IF PageFrom(Middle) = {}
       THEN /\ total' = Middle
            /\ UNCHANGED <<reader, pc, pagePosition>>
       ELSE /\ pagePosition' = PageFound(Middle)
            /\ reader' = Reposition(reader, NextPage(Middle))
            /\ pc' = "read"
            /\ UNCHANGED total
    /\ Keep /\ UNCHANGED <<result, start, granulePositions, lowest, highest,
                           highestPage, last>>

(* "this wasn't a page after all?"                                         *)
ProbeUnreadable ==
    /\ pc = "read" /\ HasError
    /\ reader' \in AfterError
    /\ total' = position
    /\ pc' = "probe"
    /\ Keep /\ UNCHANGED <<result, start, position, pagePosition,
                           granulePositions, lowest, highest, highestPage, last>>

ScannedNever(g) == FALSE          \* mutant: a page met again is not told apart
Scanned(g) == g \in DOMAIN granulePositions /\ granulePositions[g] = pagePosition

(* The page was probed before: the range is too wide, look at its start.   *)
ProbeAgain ==
    /\ pc = "read" /\ HasPacket /\ Scanned(TurnPacket.granule)
    /\ reader' = AfterPacket
    /\ total' = start + 1
    /\ pc' = IF position = start THEN "pick" ELSE "probe"
    /\ Keep /\ UNCHANGED <<result, start, position, pagePosition,
                           granulePositions, lowest, highest, highestPage, last>>

TooHigh(g) == g > target /\ (highest = 0 \/ g <= highest)
TooLow(g) == g < target

(* A page seen for the first time narrows the range from above or below;   *)
(* one at the target itself does neither.                                  *)
NarrowToPage(p) == p              \* mutant: the page just probed stays in range
NarrowTo(p) == p + 1
ProbePage ==
    LET pkt == TurnPacket
        g   == pkt.granule
    IN  /\ pc = "read" /\ HasPacket /\ ~ Scanned(g)
        /\ reader' = AfterPacket
        /\ granulePositions' =
             [h \in DOMAIN granulePositions \cup {g} |->
                IF h = g THEN pagePosition ELSE granulePositions[h]]
        /\ IF TooHigh(g)
           THEN highest' = g /\ highestPage' = pkt.seq /\ total' = position
           ELSE UNCHANGED <<highest, highestPage, total>>
        /\ IF TooLow(g)
           THEN /\ lowest' = IF g > lowest THEN g ELSE lowest
                /\ start' = NarrowTo(pagePosition)
           ELSE UNCHANGED <<lowest, start>>
        /\ pc' = IF TooHigh(g) /\ pkt.seq = 2 THEN "pick" ELSE "probe"
        /\ Keep /\ UNCHANGED <<result, position, pagePosition, last>>

EndSearch ==
    /\ pc = "probe" /\ ~ Searching
    /\ pc' = "pick"
    /\ Keep /\ UNCHANGED <<reader, result, seekVars>>

(* The closest page found below the target, from where to scan.            *)
ScanFrom == IF lowest \in DOMAIN granulePositions
            THEN PageAt(granulePositions[lowest]) ELSE 1

NotFound ==
    /\ pc = "pick" /\ highest = 0
    /\ Return(FALSE, 0)
    /\ Keep /\ UNCHANGED <<reader, seekVars>>

BeginScan ==
    /\ pc = "pick" /\ highest # 0
    /\ reader' = Reposition(reader, ScanFrom)
    /\ last' = 0
    /\ pc' = "scan"
    /\ Keep /\ UNCHANGED <<result, total, start, position, pagePosition,
                           granulePositions, lowest, highest, highestPage>>

PutBackNot(rd, pkt) == rd         \* mutant: the packet that ended the scan is lost
PutBack(rd, pkt) == [rd EXCEPT !.queue = <<pkt>> \o @]

(* Read on to the first packet at or above the target and put it back.     *)
Scan ==
    /\ pc = "scan" /\ HasPacket
    /\ IF TurnPacket.granule >= target
       THEN /\ reader' = PutBack(AfterPacket, TurnPacket)
            /\ Return(TRUE, last)
            /\ UNCHANGED last
       ELSE /\ reader' = AfterPacket
            /\ last' = TurnPacket.granule
            /\ UNCHANGED <<pc, result>>
    /\ Keep /\ UNCHANGED <<total, start, position, pagePosition,
                           granulePositions, lowest, highest, highestPage>>

ScanFails ==
    /\ pc = "scan" /\ HasError
    /\ reader' \in AfterError
    /\ Return(FALSE, 0)
    /\ Keep /\ UNCHANGED seekVars

----------------------------------------------------------------------------
(* LastPageGranule: read on from the first page in the file's tail to the  *)
(* packet that ends the stream.                                            *)
Tail64K == IF size > Backup THEN size - Backup ELSE 0

CallLastGranule ==
    /\ pc = "idle" /\ calls < MaxCalls
    /\ calls' = calls + 1
    /\ IF PageFrom(Tail64K) = {}
       THEN /\ result' = [ok |-> FALSE, value |-> 0, call |-> "length"]
            /\ UNCHANGED <<reader, pc>>
       ELSE /\ reader' = Reposition(reader, NextPage(Tail64K))
            /\ result' = [result EXCEPT !.call = "length"]
            /\ pc' = "tail"
    /\ UNCHANGED <<file, size, delivered, lastErr, missed, target, seekVars>>

IsLastAnyEos(pkt) == pkt.eos           \* mutant: validity not asked for
IsLastUnmarked(pkt) == pkt.valid       \* mutant: any page end will do
IsLast(pkt) == pkt.eos /\ pkt.valid

LastGranule ==
    /\ pc = "tail" /\ HasPacket
    /\ reader' = AfterPacket
    /\ IF IsLast(TurnPacket) THEN Return(TRUE, TurnPacket.granule)
                             ELSE UNCHANGED <<pc, result>>
    /\ Keep /\ UNCHANGED seekVars

LastGranuleFails ==
    /\ pc = "tail" /\ HasError
    /\ reader' \in AfterError
    /\ Return(FALSE, 0)
    /\ Keep /\ UNCHANGED seekVars

Calls == CallRewind \/ (\E t \in Targets : CallSeek(t)) \/ CallLastGranule

Steps ==
    \/ TurnMore
    \/ SkipHeader \/ SkipFails
    \/ Probe \/ ProbeUnreadable \/ ProbeAgain \/ ProbePage \/ EndSearch
    \/ NotFound \/ BeginScan \/ Scan \/ ScanFails
    \/ LastGranule \/ LastGranuleFails

NextSeek == Calls \/ Steps

SpecSeek == InitSeek /\ [][NextSeek]_vars

(* A call that was made runs on: nothing in it waits for anybody. *)
FairSeek == SpecSeek /\ WF_vars(Steps)

----------------------------------------------------------------------------
SeekTypeOK ==
    /\ reader.next \in 1..(Len(file) + 1)
    /\ pc \in {"idle", "skip", "probe", "read", "pick", "scan", "tail"}
    /\ start \in 0..size /\ total \in 0..size
    /\ position \in 0..size
    /\ \A g \in DOMAIN granulePositions :
          \E i \in DOMAIN file : Offset(i) = granulePositions[g]
    /\ result.ok \in BOOLEAN

Ending(i) == Ends(file[i]) # <<>>     \* a packet ends on page i
AtOrAbove == {i \in DOMAIN file : Ending(i) /\ file[i].granule >= target}
Below == {i \in DOMAIN file : Ending(i) /\ file[i].granule < target}
Returned(call) == pc = "idle" /\ result.call = call

(* A successful seek leaves the reader at the first packet of the page the *)
(* target is on, no packet of it lost, and returns the position that page  *)
(* starts from; wherever the bisection went, in files with packets spread  *)
(* over pages and with unreadable pages too.                               *)
LandsInStream ==
    Returned("seek") /\ result.ok /\ target > 0 =>
        LET i == CHOOSE j \in AtOrAbove : \A k \in AtOrAbove : j <= k
            b == {j \in Below : j < i}
        IN  /\ AtOrAbove # {}
            /\ reader.next = i + 1
            /\ Len(reader.queue) = Len(Ends(file[i]))
            /\ result.value = file[CHOOSE j \in b : \A k \in b : k <= j].granule

(* Seeking to zero leaves the reader at the first audio page, or fails.    *)
RewindLands ==
    Returned("seek") /\ result.ok /\ target = 0 =>
        reader.next = 3 /\ reader.queue = <<>>

(* Either way the next packet is the right one.                            *)
SeekLands == LandsInStream /\ RewindLands

Readable == \A i \in DOMAIN file : file[i].crc

(* A target inside the stream is found at least when it is not itself the  *)
(* position of a page (which moves neither bound), lies below the last     *)
(* one, and no page continues a packet (a probe that meets one gives up    *)
(* the range above it): bisection never drops the page it looks for.       *)
SeekFindsBetween ==
    /\ Returned("seek") /\ Readable
    /\ target < Last(file).granule
    /\ \A i \in DOMAIN file : /\ file[i].granule # target \/ target = 0
                             /\ ~ file[i].cont
    => result.ok

(* The stream's length is that of its last page, if the call succeeds; and *)
(* it succeeds when that page marks the end and is within reach.           *)
LengthRight ==
    Returned("length") =>
        /\ result.ok => result.value = Last(file).granule
        /\ /\ Readable
           /\ Last(file).eos
           /\ \E i \in PageFrom(Tail64K) : /\ ~ file[i].cont
                                           /\ i = NextPage(Tail64K)
           => result.ok

(* Bisection ends: no probe leaves the search where it was for ever.       *)
CallsEnd == pc # "idle" ~> pc = "idle"
=============================================================================
