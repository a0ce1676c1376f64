------------------------- MODULE MCOggPacketReader -------------------------
(* Four packets of 2, 1, 3 and 1 lacing values, laid out on pages in every *)
(* way any muxer could, at most MaxFaults of the pages lost, damaged in    *)
(* one way or another, or preceded by a page of another stream.            *)
EXTENDS OggPacketReader

CONSTANT MaxFaults

MCSent == << [laces |-> 2, granule |-> 1], [laces |-> 1, granule |-> 2],
             [laces |-> 3, granule |-> 3], [laces |-> 1, granule |-> 4] >>

Lace == FlattenSeq([p \in DOMAIN MCSent |->
            [k \in 1..MCSent[p].laces |->
                [pkt |-> p, k |-> k, end |-> k = MCSent[p].laces]]])

(* The pages that end at the lacing values in cuts. *)
Pages(cuts) ==
    LET at == SetToSortSeq(cuts \cup {Len(Lace)}, <)
        from(i) == IF i = 1 THEN 1 ELSE at[i - 1] + 1
        done(i) == {k \in from(i)..at[i] : Lace[k].end}
    IN  [i \in DOMAIN at |->
            [cont    |-> i > 1 /\ ~ Lace[from(i) - 1].end,
             bos     |-> i = 1,
             eos     |-> i = Len(at),
             granule |-> IF done(i) = {} THEN NoGranule
                         ELSE MCSent[Lace[Max(done(i))].pkt].granule,
             seq     |-> i - 1,
             segs    |-> SubSeq(Lace, from(i), at[i]),
             serial  |-> "own", crc |-> TRUE]]

Foreign == [cont |-> FALSE, bos |-> FALSE, eos |-> FALSE, granule |-> 0,
            seq |-> 0, segs |-> <<>>, serial |-> "foreign", crc |-> TRUE]

Faults == {"lost", "foreign"} \cup Damages
After(pg, fault) ==
    CASE fault = "ok"      -> <<pg>>
      [] fault = "lost"    -> <<>>
      [] fault = "foreign" -> <<Foreign, pg>>
      [] OTHER             -> <<[crc |-> FALSE, damage |-> fault] @@ pg>>

Damaged(pages) ==
    {FlattenSeq([i \in DOMAIN pages |-> After(pages[i], f[i])]) :
        f \in {g \in [DOMAIN pages -> {"ok"} \cup Faults] :
                  Cardinality({i \in DOMAIN pages : g[i] # "ok"}) <= MaxFaults}}

MCFiles == UNION {Damaged(Pages(cuts)) : cuts \in SUBSET (1..(Len(Lace) - 1))}
=============================================================================
