---------------------------- MODULE SingleWriter ----------------------------
(***************************************************************************)
(* What the write guard of crates/ccnm-core/src/mcp/write_guard.rs         *)
(* promises about one working tree: write authority is given to one server *)
(* at a time, and only when nothing that an earlier server started can     *)
(* still write the tree.                                                   *)
(***************************************************************************)
CONSTANTS Servers, Nobody

VARIABLES
    writer,     \* the server with write authority, or Nobody
    working     \* the servers that started something which still runs

vars == <<writer, working>>

Init ==
    /\ writer = Nobody
    /\ working = {}

\* Authority is given only over a quiet tree.
Grant(s) ==
    /\ writer = Nobody
    /\ working = {}
    /\ writer' = s
    /\ UNCHANGED working

Begin(s) ==
    /\ writer = s
    /\ working' = working \cup {s}
    /\ UNCHANGED writer

Finish(s) ==
    /\ s \in working
    /\ working' = working \ {s}
    /\ UNCHANGED writer

\* The writer ends or dies. What it started may outlive it.
Leave(s) ==
    /\ writer = s
    /\ writer' = Nobody
    /\ UNCHANGED working

Next == \E s \in Servers : Grant(s) \/ Begin(s) \/ Finish(s) \/ Leave(s)

Spec == Init /\ [][Next]_vars
=============================================================================
