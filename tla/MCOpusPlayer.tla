---------------------------- MODULE MCOpusPlayer ----------------------------
(* Streams of two or three packets of one or two frames, on one to three    *)
(* pages, with a pre-skip of 0, 1 or 3 frames, the end trimmed by one frame *)
(* or not, one packet refused by the decoder or lost with its page, mono    *)
(* and stereo; the plain ones with and without an end mark.                *)
EXTENDS OpusPlayer

CONSTANTS
    States,     \* what may happen to one packet
    PreSkips

Lengths == {<<2, 1>>, <<1, 2, 2>>}

(* lasts: the packets that end a page. *)
StreamOf(ns, lasts, channels, preskip, trim, eos, at, st) ==
    LET end(k) == MapThenSumSet(LAMBDA j : ns[j], 1..k)
        lastOf(k) == Min({j \in lasts : j >= k})
        granule(k) == end(k) - (IF k = Len(ns) THEN trim ELSE 0)
    IN  [channels |-> channels, preskip |-> preskip,
         packets |-> [k \in DOMAIN ns |->
            [from    |-> end(k - 1), n |-> ns[k],
             first   |-> Max({0} \cup {j \in lasts : j < k}) + 1,
             granule |-> granule(lastOf(k)),
             valid   |-> k \in lasts,
             eos     |-> eos /\ k = Len(ns),
             state   |-> IF k = at THEN st ELSE "ok"]]]

(* A lost page takes all its packets with it: here it holds just one. *)
MCStreams ==
    UNION {{StreamOf(ns, lasts \cup {Len(ns)}, ch, ps, trim, fate[2], at, fate[1]) :
              lasts \in SUBSET DOMAIN ns, ch \in {1, 2}, ps \in PreSkips,
              trim \in {0, 1}, at \in {1, 2},
              fate \in {f \in States \X BOOLEAN : f[1] = "ok" \/ f[2]}}
           : ns \in Lengths}
=============================================================================
