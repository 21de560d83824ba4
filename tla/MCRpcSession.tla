---------------------------- MODULE MCRpcSession ----------------------------
(***************************************************************************)
(* RpcSession with one start key: two starts with one input, a third with  *)
(* another, and two clients that ask.                                      *)
(***************************************************************************)
EXTENDS RpcSession

CONSTANTS a1, a2, c1, c2, c3, k1, n1, n2, i1, i2

OneKey == [c \in Starts |-> k1]
TwoInputs == [c \in Starts |-> IF c = c3 THEN i2 ELSE i1]

Meets(calls, faults) == [calls |-> calls, faults |-> faults]

\* Starts that race or follow each other's crash; stops at every step of an
\* owner; a workspace bound back and forth.
Contended ==
    {Meets({c1, c2, a1}, {"kill"}),
     Meets({c1, c2, c3}, {"disk", "spawn", "kill"}),
     Meets({c1, a1, a2}, {"disk", "link", "spawn", "slay"}),
     Meets({c1, a1}, {"disk", "ps", "link", "spawn", "kill", "slay"}),
     Meets({c1, c2}, {"kill", "rebind"}),
     Meets({c1, a1}, {"disk", "link", "rebind"})}

\* Everything but a disk that takes no writes, and a workspace bound anew.
Mended ==
    {Meets({c1, c2}, {"ps", "link", "spawn", "kill", "slay"}),
     Meets({c1, a1}, {"ps", "link", "kill", "slay"})}
=============================================================================
