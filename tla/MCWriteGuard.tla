---------------------------- MODULE MCWriteGuard ----------------------------
(***************************************************************************)
(* WriteGuard on small sets of servers, observations and inodes.           *)
(***************************************************************************)
EXTENDS WriteGuard, TLC

CONSTANTS s1, s2, s3, o1, f1, f2, f3

ThreeServers == {s1, s2, s3}
OneObservation == {o1}
ThreeFiles == {f1, f2, f3}

\* Servers and inodes are interchangeable; no liveness is checked with it.
Interchangeable ==
    Permutations(Servers) \cup Permutations(Observations) \cup Permutations(Files)
=============================================================================
