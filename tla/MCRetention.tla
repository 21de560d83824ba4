---------------------------- MODULE MCRetention ----------------------------
(***************************************************************************)
(* Retention with runs of two servers that make room for each other, with  *)
(* an external client's, and with one run of any bytes that is paged       *)
(* through while it is written.                                            *)
(***************************************************************************)
EXTENDS Retention

CONSTANTS r1, r2, r3, r4, s1, s2, nobody

Chars(n) == [i \in 1..n |-> "char"]

\* Streams of two bytes and of one.
Room(by, faults, external, sweeps) ==
    [streams |-> [r \in Runs |-> Chars(IF r \in {r1, r3} THEN 2 ELSE 1)],
     by |-> by, faults |-> faults, external |-> external,
     sweeps |-> sweeps, reads |-> nobody]

Two == {r1, r2}
Three == {r1, r2, r3}
Both(runs) == [r \in runs |-> IF r \in {r1, r4} THEN s1 ELSE s2]
Alone(runs) == [r \in runs |-> s1]

Reading(stream) ==
    [streams |-> [r \in Runs |-> IF r = r1 THEN stream ELSE <<>>],
     by |-> [r \in {r1} |-> s1],
     faults |-> {"kill"}, external |-> FALSE, sweeps |-> FALSE, reads |-> r1]

\* Every short stream, and longer ones of whole, cut and broken characters.
Streams ==
    UNION {[1..n -> Bytes] : n \in 0..2}
        \cup {<<"char", "lead2", "cont">>, <<"lead3", "cont", "bad">>,
              <<"lead4", "cont", "cont">>, <<"cont", "cont", "char">>,
              <<"lead4", "cont", "cont", "cont", "lead2", "cont">>,
              <<"char", "lead3", "cont", "cont", "cont", "char">>,
              <<"lead3", "cont", "lead4", "cont", "cont", "bad">>}

Cases ==
    {Room(Both(Runs), {}, FALSE, FALSE),
     Room(Both(Three), {"kill"}, FALSE, FALSE),
     Room(Both(Two), {"kill", "fork"}, FALSE, TRUE),
     Room(Alone(Three), {"fork", "spawn"}, TRUE, FALSE)}
        \cup {Reading(stream) : stream \in Streams}
=============================================================================
