----------------------------- MODULE MCCleanup -----------------------------
(***************************************************************************)
(* Cleanup with one session that comes and goes, one that ended long ago,  *)
(* and cleanups and purges one after another, with two Agents.             *)
(***************************************************************************)
EXTENDS Cleanup

CONSTANTS s1, s2, own, other, o1

\* Both on the workspace's own Agent, or the one that ended on another.
Placed == {[s \in {s1, s2} |-> own], [s \in {s1, s2} |-> IF s = s2 THEN other ELSE own]}
=============================================================================
