---------------------------- MODULE GuardedWork ----------------------------
(***************************************************************************)
(* One session's use of the write guard, as WriteGuard sees it: it starts  *)
(* things that write the tree only while the guard is held, and releases   *)
(* the guard only when none of them is left.                               *)
(***************************************************************************)
VARIABLES
    guard,      \* "held", "released" or "kept"
    live        \* something the session started still runs

vars == <<guard, live>>

Init == guard = "held" /\ live = FALSE

Start == guard = "held" /\ live' = TRUE /\ UNCHANGED guard

End == live' = FALSE /\ UNCHANGED guard

Release == guard = "held" /\ ~live /\ guard' = "released" /\ UNCHANGED live

\* Abandoned on purpose, whether or not what was named still runs.
Keep == guard = "held" /\ guard' = "kept" /\ UNCHANGED live

Next == Start \/ End \/ Release \/ Keep

Spec == Init /\ [][Next]_vars
=============================================================================
