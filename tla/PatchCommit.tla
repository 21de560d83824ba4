---------------------------- MODULE PatchCommit ----------------------------
(***************************************************************************)
(* apply_patch (mcp/patch.rs): a patch of several files is planned, staged *)
(* beside its targets, journalled, and committed one rename or unlink at a *)
(* time; a failure puts back what was renamed, and what a killed process   *)
(* left behind is known from its journal alone.  Calls run on threads of   *)
(* their own, of one server or of several on one state directory.          *)
(*                                                                         *)
(* What a path holds is "none", what was there at first, or the patch that *)
(* wrote it.  A journal is locked by its process for as long as that       *)
(* commits.  Directories made for a file are left out.  A leftover is old  *)
(* enough to be swept at any time after its process is gone, or never; not *)
(* so one of a process that was still there when the sweep began.          *)
(* What may go wrong:                                                      *)
(*   "io"    staging, journalling, a rename or an unlink fails             *)
(*   "stat"  a rename succeeds and the stat of its result fails            *)
(*   "undo"  a rename or an unlink of a rollback fails                     *)
(*   "kill"  the process is killed                                         *)
(*   "unread" a sweep cannot read a journal, and goes on without it        *)
(*   "late"  a sweep stands still for as long as a leftover needs to age   *)
(***************************************************************************)
EXTENDS Sequences, Naturals, FiniteSets

CONSTANTS
    Patches,    \* calls of apply_patch
    Files,      \* Files[p]: the changes of p, a sequence of [op, path, to]
    Paths,      \* the paths of the workspace
    AtFirst,    \* AtFirst[path]: "none" or "old"
    Faults      \* what may go wrong

Ops == {"add", "update", "delete", "move"}

ASSUME FilesAssumption ==
    Files \in [Patches -> Seq([op : Ops, path : Paths, to : Paths])]
ASSUME AtFirstAssumption == AtFirst \in [Paths -> {"none", "old"}]
ASSUME PatchesAssumption == Patches \cap {"none", "old"} = {}
ASSUME FaultsAssumption == Faults \subseteq {"io", "stat", "undo", "kill", "unread", "late"}

VARIABLES
    tree,       \* tree[path]: what is there
    pc,         \* pc[p]: the next step of p, or its answer
    read,       \* read[p]: what the caller had read when it made the patch
    done,       \* done[p]: how many of its files p has committed
    failed,     \* failed[p]: the changes p could not undo
    unseen,     \* history: the changes p made and took for failures
    temps,      \* temps[p]: the new contents p has staged and not renamed
    backups,    \* backups[p]: the originals p has staged and not renamed
    journal,    \* journal[p]: "none", "tmp" or "json"
    cleared,    \* cleared[p]: a person deleted the journal of p
    stale,      \* stale[p]: the patches that were over when p's sweep began
    named       \* named[p]: those whose backups it found a journal to name

leftovers == <<stale, named>>
patching == <<tree, pc, read, done, failed, unseen, temps, backups, journal, cleared,
              leftovers>>

Init ==
    /\ tree = AtFirst
    /\ pc = [p \in Patches |-> "idle"]
    /\ read = [p \in Patches |-> AtFirst]
    /\ done = [p \in Patches |-> 0]
    /\ failed = [p \in Patches |-> {}]
    /\ unseen = [p \in Patches |-> {}]
    /\ temps = [p \in Patches |-> {}]
    /\ backups = [p \in Patches |-> {}]
    /\ journal = [p \in Patches |-> "none"]
    /\ cleared = [p \in Patches |-> FALSE]
    /\ stale = [p \in Patches |-> {}]
    /\ named = [p \in Patches |-> {}]

-----------------------------------------------------------------------------
Indices(p) == 1..Len(Files[p])
Touched(p) ==
    {Files[p][i].path : i \in Indices(p)}
        \cup {Files[p][i].to : i \in {j \in Indices(p) : Files[p][j].op = "move"}}

Answered == {"refused", "ok", "rolledBack", "partial"}
Over(p) == pc[p] \in Answered \cup {"dead"}

\* A `.json` whose lock is free: its process is gone, or has let go of it.
Abandoned(p) == journal[p] = "json" /\ (Over(p) \/ pc[p] = "undone")

To(p, step) == pc' = [pc EXCEPT ![p] = step]

\* What one file's commit, and its undoing, make of the tree.
Applied(p, f) ==
    CASE f.op \in {"add", "update"} -> [tree EXCEPT ![f.path] = p]
      [] f.op = "delete" -> [tree EXCEPT ![f.path] = "none"]
      [] f.op = "move" -> [tree EXCEPT ![f.to] = tree[f.path], ![f.path] = "none"]

Undone(p, f) ==
    CASE f.op = "add" -> [tree EXCEPT ![f.path] = "none"]
      [] f.op \in {"update", "delete"} -> [tree EXCEPT ![f.path] = read[p][f.path]]
      [] f.op = "move" -> [tree EXCEPT ![f.path] = tree[f.to], ![f.to] = "none"]

Staged(p, ops) == {i \in Indices(p) : Files[p][i].op \in ops}
NewTemps(p) == Staged(p, {"add", "update"})
Backups(p) == Staged(p, {"update", "delete"})

-----------------------------------------------------------------------------
(* plan and stage *)

\* The model reads the files it is going to change.
Read(p) ==
    /\ pc[p] = "idle"
    /\ read' = [read EXCEPT ![p] = tree]
    /\ To(p, "called")
    /\ UNCHANGED <<tree, done, failed, unseen, temps, backups, journal, cleared, leftovers>>

\* check_abandoned: a journal nobody holds refuses the next patch.  One whose
\* rename never happened is garbage.
Refuses == \E q \in Patches : Abandoned(q)
Unfinished(q) == journal[q] = "tmp" /\ Over(q)

Check(p) ==
    /\ pc[p] = "called"
    /\ To(p, IF Refuses THEN "refused" ELSE "checked")
    /\ \E old \in SUBSET {q \in Patches : Unfinished(q)} :
          journal' = [q \in Patches |-> IF q \in old THEN "none" ELSE journal[q]]
    /\ UNCHANGED <<tree, read, done, failed, unseen, temps, backups, cleared, leftovers>>

\* check_version, and that what is to be made is not there.
Plan(p) ==
    /\ pc[p] = "checked"
    /\ To(p, IF \A x \in Touched(p) : tree[x] = read[p][x]
             THEN "planned" ELSE "refused")
    /\ UNCHANGED <<tree, read, done, failed, unseen, temps, backups, journal, cleared,
                   leftovers>>

\* Slip: a journal speaks for its backups while somebody commits under it.
SpokenByHolder(q) == journal[q] = "json" /\ ~Over(q)

\* A journal names its backups, whoever holds it.
Spoken(q) == journal[q] = "json"

\* backups_in_journals: what a sweep will spare is settled before it looks at
\* a file.
ReadJournals(p) ==
    /\ pc[p] = "planned"
    /\ stale' = [stale EXCEPT ![p] = {q \in Patches : Over(q)}]
    /\ \E unread \in SUBSET (IF "unread" \in Faults THEN Patches ELSE {}) :
          named' = [named EXCEPT ![p] = {q \in Patches : Spoken(q)} \ unread]
    /\ To(p, "sweeping")
    /\ UNCHANGED <<tree, read, done, failed, unseen, temps, backups, journal, cleared>>

\* What is old enough to go, by the time the sweep gets to it.
Aged(p) == IF "late" \in Faults THEN {q \in Patches : Over(q)} ELSE stale[p]

\* Leftovers of processes that are gone, but for backups a journal names.
Sweep(p) ==
    /\ pc[p] = "sweeping"
    /\ To(p, "swept")
    /\ \E old \in SUBSET Aged(p) :
          /\ temps' = [q \in Patches |-> IF q \in old THEN {} ELSE temps[q]]
          /\ backups' = [q \in Patches |->
                           IF q \in old \ named[p] THEN {} ELSE backups[q]]
    /\ UNCHANGED <<tree, read, done, failed, unseen, journal, cleared, leftovers>>

\* All of stage(), until it fails or all is written; a crash leaves any part.
Stage(p) ==
    /\ pc[p] = "swept"
    /\ temps' = [temps EXCEPT ![p] = NewTemps(p)]
    /\ backups' = [backups EXCEPT ![p] = Backups(p)]
    /\ To(p, "staged")
    /\ UNCHANGED <<tree, read, done, failed, unseen, journal, cleared, leftovers>>

StageFails(p) ==
    /\ "io" \in Faults
    /\ pc[p] = "swept"
    /\ To(p, "refused")
    /\ UNCHANGED <<tree, read, done, failed, unseen, temps, backups, journal, cleared,
                   leftovers>>

StageDies(p) ==
    /\ "kill" \in Faults
    /\ pc[p] = "swept"
    /\ \E n \in Indices(p) :
          /\ temps' = [temps EXCEPT ![p] = NewTemps(p) \cap 1..n]
          /\ backups' = [backups EXCEPT ![p] = Backups(p) \cap 1..n]
    /\ To(p, "dead")
    /\ UNCHANGED <<tree, read, done, failed, unseen, journal, cleared, leftovers>>

-----------------------------------------------------------------------------
(* Journal::open *)

Discarded(p, set) == [set EXCEPT ![p] = {}]

JournalWrites(p) ==
    /\ pc[p] = "staged"
    /\ journal' = [journal EXCEPT ![p] = "tmp"]
    /\ To(p, "written")
    /\ UNCHANGED <<tree, read, done, failed, unseen, temps, backups, cleared, leftovers>>

\* Slip: the journal keeps the name under which it is not yet whole.
JournalUnplaced(p) ==
    /\ pc[p] = "written"
    /\ To(p, "committing")
    /\ UNCHANGED <<tree, read, done, failed, unseen, temps, backups, journal, cleared,
                   leftovers>>

\* Locked, and then renamed to the name that says it is whole.
JournalPlaced(p) ==
    /\ pc[p] = "written"
    /\ journal' = [journal EXCEPT ![p] = "json"]
    /\ To(p, "committing")
    /\ UNCHANGED <<tree, read, done, failed, unseen, temps, backups, cleared, leftovers>>

JournalFails(p) ==
    /\ "io" \in Faults
    /\ pc[p] \in {"staged", "written"}
    /\ temps' = Discarded(p, temps)
    /\ backups' = Discarded(p, backups)
    /\ To(p, "refused")
    /\ UNCHANGED <<tree, read, done, failed, unseen, journal, cleared, leftovers>>

-----------------------------------------------------------------------------
(* commit and rollback *)

Following(p) == done[p] + 1

CommitOne(p) ==
    /\ pc[p] = "committing"
    /\ done[p] < Len(Files[p])
    /\ tree' = Applied(p, Files[p][Following(p)])
    /\ temps' = [temps EXCEPT ![p] = @ \ {Following(p)}]
    /\ done' = [done EXCEPT ![p] = @ + 1]
    /\ UNCHANGED <<pc, read, failed, unseen, backups, journal, cleared, leftovers>>

\* A failed replace, unlink or rename has not touched its file.
CommitOneFails(p) ==
    /\ "io" \in Faults
    /\ pc[p] = "committing"
    /\ done[p] < Len(Files[p])
    /\ To(p, "undoing")
    /\ UNCHANGED <<tree, read, done, failed, unseen, temps, backups, journal, cleared,
                   leftovers>>

\* The rename is done; commit() hears a failure all the same, and rolls back
\* the files before this one.
CommitOneUnseen(p) ==
    /\ "stat" \in Faults
    /\ pc[p] = "committing"
    /\ done[p] < Len(Files[p])
    /\ Files[p][Following(p)].op # "delete"
    /\ tree' = Applied(p, Files[p][Following(p)])
    /\ unseen' = [unseen EXCEPT ![p] = {Following(p)}]
    /\ To(p, "undoing")
    /\ UNCHANGED <<read, done, failed, temps, backups, journal, cleared, leftovers>>

\* Slip: an unlink is undone from nothing.
UndoOneButDeletes(p) ==
    /\ pc[p] = "undoing"
    /\ done[p] > 0
    /\ tree' = IF Files[p][done[p]].op = "delete"
               THEN tree ELSE Undone(p, Files[p][done[p]])
    /\ backups' = [backups EXCEPT ![p] = @ \ {done[p]}]
    /\ done' = [done EXCEPT ![p] = @ - 1]
    /\ UNCHANGED <<pc, read, failed, unseen, temps, journal, cleared, leftovers>>

UndoOne(p) ==
    /\ pc[p] = "undoing"
    /\ done[p] > 0
    /\ tree' = Undone(p, Files[p][done[p]])
    /\ backups' = [backups EXCEPT ![p] = @ \ {done[p]}]
    /\ done' = [done EXCEPT ![p] = @ - 1]
    /\ UNCHANGED <<pc, read, failed, unseen, temps, journal, cleared, leftovers>>

\* The others are still put back.
UndoOneFails(p) ==
    /\ "undo" \in Faults
    /\ pc[p] = "undoing"
    /\ done[p] > 0
    /\ failed' = [failed EXCEPT ![p] = @ \cup {done[p]}]
    /\ done' = [done EXCEPT ![p] = @ - 1]
    /\ UNCHANGED <<tree, pc, read, unseen, temps, backups, journal, cleared, leftovers>>

\* discard() of what was not committed, and of the file that failed.
Discard(p) ==
    /\ pc[p] = "undoing"
    /\ done[p] = 0
    /\ temps' = Discarded(p, temps)
    /\ backups' = [backups EXCEPT ![p] = @ \cap failed[p]]
    /\ To(p, "discarded")
    /\ UNCHANGED <<tree, read, done, failed, unseen, journal, cleared, leftovers>>

\* Slip: whatever the rollback came to, its journal goes.
DropJournalAlways(p) ==
    /\ \/ pc[p] = "committing" /\ done[p] = Len(Files[p])
       \/ pc[p] = "discarded"
    /\ journal' = [journal EXCEPT ![p] = "none"]
    /\ To(p, IF pc[p] = "committing" THEN "committed" ELSE "undone")
    /\ UNCHANGED <<tree, read, done, failed, unseen, temps, backups, cleared, leftovers>>

\* The journal goes before the backups it names; one of a rollback that
\* failed is kept.
DropJournal(p) ==
    /\ \/ pc[p] = "committing" /\ done[p] = Len(Files[p])
       \/ pc[p] = "discarded"
    /\ journal' = [journal EXCEPT ![p] = IF failed[p] # {} THEN "json" ELSE "none"]
    /\ To(p, IF pc[p] = "committing" THEN "committed" ELSE "undone")
    /\ UNCHANGED <<tree, read, done, failed, unseen, temps, backups, cleared, leftovers>>

\* Drop for Staged: whatever temp is left.
DropStaged(p) ==
    /\ pc[p] \in {"committed", "undone"}
    /\ temps' = Discarded(p, temps)
    /\ backups' = Discarded(p, backups)
    /\ To(p, IF pc[p] = "committed" THEN "ok"
             ELSE IF failed[p] # {} THEN "partial" ELSE "rolledBack")
    /\ UNCHANGED <<tree, read, done, failed, unseen, journal, cleared, leftovers>>

Die(p) ==
    /\ "kill" \in Faults
    /\ pc[p] \notin {"idle", "called"}
    /\ ~Over(p)
    /\ To(p, "dead")
    /\ UNCHANGED <<tree, read, done, failed, unseen, temps, backups, journal, cleared,
                   leftovers>>

-----------------------------------------------------------------------------
\* A person who was told of an interrupted patch looks, and deletes the journal.
Clear(p) ==
    /\ Abandoned(p)
    /\ journal' = [journal EXCEPT ![p] = "none"]
    /\ cleared' = [cleared EXCEPT ![p] = TRUE]
    /\ UNCHANGED <<tree, pc, read, done, failed, unseen, temps, backups, leftovers>>

Step(p) ==
    \/ Read(p) \/ Check(p) \/ Plan(p) \/ ReadJournals(p) \/ Sweep(p)
    \/ Stage(p) \/ StageFails(p) \/ StageDies(p)
    \/ JournalWrites(p) \/ JournalPlaced(p) \/ JournalFails(p)
    \/ CommitOne(p) \/ CommitOneFails(p) \/ CommitOneUnseen(p)
    \/ UndoOne(p) \/ UndoOneFails(p) \/ Discard(p)
    \/ DropJournal(p) \/ DropStaged(p) \/ Die(p)

Next == \E p \in Patches : Step(p) \/ Clear(p)

Spec == Init /\ [][Next]_patching

-----------------------------------------------------------------------------
(* Properties *)

\* The types, and that a patch renames only under a journal in place.
TypeOK ==
    /\ tree \in [Paths -> {"none", "old"} \cup Patches]
    /\ pc \in [Patches -> {"idle", "called", "checked", "planned", "sweeping", "swept",
                          "staged", "written", "committing", "undoing", "discarded",
                          "committed", "undone", "dead"} \cup Answered]
    /\ read \in [Patches -> [Paths -> {"none", "old"} \cup Patches]]
    /\ cleared \in [Patches -> BOOLEAN]
    /\ {stale, named} \subseteq [Patches -> SUBSET Patches]
    /\ journal \in [Patches -> {"none", "tmp", "json"}]
    /\ done \in [Patches -> Nat]
    /\ {failed, unseen, temps, backups} \subseteq [Patches -> SUBSET Nat]
    /\ \A p \in Patches :
          /\ done[p] <= Len(Files[p])
          /\ temps[p] \subseteq NewTemps(p)
          /\ backups[p] \subseteq Backups(p)
          /\ failed[p] \subseteq Indices(p) /\ unseen[p] \subseteq Indices(p)
          /\ pc[p] \in {"committing", "undoing", "discarded"} => journal[p] = "json"

\* Change i of p is in the tree.
Landed(p, i) ==
    LET f == Files[p][i]
    IN  IF f.op \in {"add", "update"} THEN tree[f.path] = p
        ELSE tree[f.path] # read[p][f.path]

\* Some changes of a patch are there and some are not.
Torn(p) ==
    /\ \E i \in Indices(p) : Landed(p, i)
    /\ \E i \in Indices(p) : ~Landed(p, i)

\* A patch that ended part of the way, killed or because its rollback failed,
\* has left a journal nobody holds, so that the next patch is refused and a
\* person told, who alone removes it.  But for a change that was taken for a
\* failure: commit_one asks for the metadata of what it has renamed (1586), and
\* the rollback leaves that file out.
TornIsKnown ==
    \A p \in Patches :
        Torn(p) /\ Over(p) => Abandoned(p) \/ cleared[p] \/ unseen[p] # {}

\* "ok" says that all of the patch is there; a refusal, and "rolled back and the
\* workspace is unchanged", that nothing of it is, with the same exception.
AnswerIsTrue ==
    \A p \in Patches :
        /\ pc[p] = "ok" => \A i \in Indices(p) : Landed(p, i)
        /\ pc[p] = "refused" => \A i \in Indices(p) : ~Landed(p, i)
        /\ pc[p] = "rolledBack" /\ unseen[p] = {} => \A i \in Indices(p) : ~Landed(p, i)

\* Whatever is killed when: of a patch the next one will call interrupted, each
\* original is at its place or in the backup that its journal names.  But for a
\* rollback that failed and was answered -- it keeps the journal, and Drop for
\* Staged removes the backups all the same -- and for a change that was taken for
\* a failure.
OriginalsKept ==
    \A p \in Patches : Abandoned(p) /\ pc[p] # "partial" =>
        \A i \in Backups(p) \ unseen[p] :
            LET x == Files[p][i].path
            IN  i \in backups[p] \/ tree[x] = read[p][x]

\* A patch replaces only what its caller had read: "If the file has been written
\* since, the patch is refused and nothing happens" (27-28).
NothingOverwritten ==
    [][\A p \in Patches : \A x \in Touched(p) :
          tree'[x] = p /\ tree[x] # p => tree[x] = read[p][x]]_patching
=============================================================================
