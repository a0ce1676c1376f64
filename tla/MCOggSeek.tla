----------------------------- MODULE MCOggSeek -----------------------------
(* Two header pages and up to three audio packets; the second may be spread *)
(* over two pages, share its page with the third, or have a damaged page.   *)
(* Pages of 1, 2 and 6 bytes make the bisection hit a page often, seldom,   *)
(* or on its first byte only.                                               *)
EXTENDS OggSeek

S(p, k, n) == [pkt |-> p, k |-> k, end |-> k = n]
P(segs, g, cont) == [segs |-> segs, granule |-> g, cont |-> cont]

Layouts ==
    LET head == << P(<<S(1, 1, 1)>>, 0, FALSE), P(<<S(2, 1, 1)>>, 0, FALSE) >>
        a == P(<<S(3, 1, 1)>>, 2, FALSE)
    IN  { head \o << P(<<S(6, 1, 1)>>, 6, FALSE) >>,
          head \o << a, P(<<S(4, 1, 1)>>, 4, FALSE), P(<<S(6, 1, 1)>>, 6, FALSE) >>,
          head \o << a, P(<<S(4, 1, 1), S(6, 1, 1)>>, 6, FALSE) >>,
          head \o << a, P(<<S(5, 1, 2)>>, NoGranule, FALSE),
                        P(<<S(5, 2, 2), S(6, 1, 1)>>, 6, TRUE) >>,
          head \o << a, P(<<S(5, 1, 2)>>, NoGranule, FALSE),
                        P(<<S(5, 2, 2)>>, 4, TRUE), P(<<S(6, 1, 1)>>, 6, FALSE) >> }

PageSizes == {1, 2, 6}

(* Page i of layout l at its offset, with its header fields. *)
FileOf(l, sizes, bad, damage, eos) ==
    LET ends == [i \in 0..Len(l) |->
                   MapThenSumSet(LAMBDA j : sizes[j], 1..i)]
    IN  [i \in DOMAIN l |->
            [cont |-> l[i].cont, bos |-> i = 1, eos |-> eos /\ i = Len(l),
             granule |-> l[i].granule, seq |-> i - 1, segs |-> l[i].segs,
             serial |-> "own", crc |-> i # bad, damage |-> damage,
             at |-> ends[i - 1], size |-> sizes[i]]]

MCFiles ==
    UNION {{FileOf(l, sz, b[1], b[2], eos) :
              sz \in {f \in [DOMAIN l -> PageSizes] : f[1] = 1},
              b \in {<<0, "body">>} \cup {Len(l) - 1} \X Damages,
              eos \in BOOLEAN} : l \in Layouts}

(* The packets: the headers, the first audio packet, the second one in one *)
(* lacing value or in two, and the last.                                   *)
MCSent == LET p(laces, granule) == [laces |-> laces, granule |-> granule]
          IN  << p(1, 0), p(1, 0), p(1, 2), p(1, 4), p(2, 4), p(1, 6) >>
MCTargets == 0..7
=============================================================================
