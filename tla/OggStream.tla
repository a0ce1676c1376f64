----------------------------- MODULE OggStream -----------------------------
(***************************************************************************)
(* A muxer and a demuxer at the two ends of one byte stream, as when       *)
(* examples/net plays what a server is still writing: OggPageWriter's      *)
(* pages are OggPacketReader's file.  The stream itself loses nothing; the *)
(* muxer's output may fail for good at any page.                           *)
(***************************************************************************)
EXTENDS Naturals, Sequences, SequencesExt

CONSTANTS MaxSegs, MaxPageGranules, DefaultMaxPageGranules, GranuleMod,
          Laces, Granules, MaxPackets, Serial, NoSerial

ASSUME StreamConstants ==   \* OggPageWriter's WriterConstants
    /\ MaxSegs \in Nat \ {0}
    /\ MaxPageGranules \in Nat
    /\ DefaultMaxPageGranules \in Nat \ {0}
    /\ GranuleMod \in Nat \ {0}
    /\ Laces \subseteq Nat \ {0}
    /\ Granules \subseteq 0..(GranuleMod - 1)
    /\ MaxPackets \in Nat

VARIABLES segs, granule, pageStart, seq, out, failed, sent,  \* the muxer
          reader, delivered, lastErr, missed                 \* the demuxer

W == INSTANCE OggPageWriter

(* The reader's file is what was written so far: ReadFull waits for the     *)
(* rest of a page, so a page is there or it is not.                        *)
R == INSTANCE OggPacketReader WITH
        Files <- {<<>>}, Sent <- <<>>, file <- out,
        NoGranule <- GranuleMod - 1

writerVars == <<segs, granule, pageStart, seq, out, failed, sent>>
readerVars == <<reader, delivered, lastErr, missed>>
vars == <<segs, granule, pageStart, seq, out, failed, sent,
          reader, delivered, lastErr, missed>>

Init == W!Init /\ R!Init

Write == W!Next /\ UNCHANGED readerVars

Read == UNCHANGED writerVars /\ (R!ServeQueue \/ R!ReadOn \/ R!Deliver)

Next == Write \/ Read

(* The caller's last call is Flush (cmd/wav2oggopus/main.go), and the      *)
(* reader's goroutine does not stop while there is something to read.      *)
Fairness == /\ WF_vars(W!FlushPage /\ UNCHANGED readerVars)
            /\ WF_vars(Read)

Spec == Init /\ [][Next]_vars
FairSpec == Spec /\ Fairness

----------------------------------------------------------------------------
(* The demuxer never runs ahead of the bytes that exist. *)
TypeOK == /\ W!TypeOK
          /\ reader.next \in 1..(Len(out) + 1)
          /\ reader.pending \in Seq(W!Seg)
          /\ \A i \in DOMAIN delivered : delivered[i].segs \in Seq(W!Seg)

(* A delivered packet as what was sent, if it is what was sent: every      *)
(* lacing value in place, the flags, and the position where it has one.    *)
(* (A first packet spread over pages would lose its bos flag, which the    *)
(* demuxer takes from the page a packet ends on; OpusHead fits one page.)  *)
Owner(d) == Last(d.segs).pkt
Received(d) ==
    LET p == sent[Owner(d)]
    IN  IF /\ d.segs = W!oggLacing(Owner(d), p.laces)
           /\ d.eos = p.eos
           /\ p.laces <= MaxSegs => d.bos = p.bos
           /\ d.valid => d.granule = p.granule
        THEN p ELSE [laces |-> 0]

Channel == INSTANCE PacketChannel WITH
    Packets  <- [laces: Laces, granule: Granules \cup {0},
                 bos: BOOLEAN, eos: BOOLEAN],
    sent     <- sent,
    received <- [i \in DOMAIN delivered |-> Received(delivered[i])]

(* Muxer and demuxer together are a reliable packet channel: paging,       *)
(* lacing and reassembly are inverse to each other.                        *)
ImplementsChannel == Channel!Spec

(* With working output every packet written comes out at the other end,    *)
(* although the muxer holds packets back to share a page.                  *)
EveryPacketArrives ==
    \A p \in 1..MaxPackets : Len(sent) >= p ~> (failed \/ Len(delivered) >= p)
=============================================================================
