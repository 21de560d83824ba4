--------------------------- MODULE MCPatchCommit ---------------------------
(***************************************************************************)
(* PatchCommit with a patch of three files and one of two, on paths of     *)
(* their own; and with two patches of one file.                            *)
(***************************************************************************)
EXTENDS PatchCommit

CONSTANTS p1, p2, fa, fb, fc, fd, fe, ff

Change(op, path) == [op |-> op, path |-> path, to |-> path]
Move(path, to) == [op |-> "move", path |-> path, to |-> to]

OfTheirOwn ==
    [p \in Patches |->
        IF p = p1 THEN <<Change("update", fa), Change("delete", fb), Change("add", fc)>>
        ELSE <<Move(fd, fe), Change("update", ff)>>]
OfOneFile == [p \in Patches |-> <<Change("update", fa)>>]

InTree == [x \in Paths |-> IF x \in {fc, fe} THEN "none" ELSE "old"]
=============================================================================
