------------------------- MODULE PatchCommitProofs -------------------------
(***************************************************************************)
(* Theorems about PatchCommit: for any number of patches of any number of  *)
(* files, none of which two changes share, and any faults, what PatchCommit *)
(* says of a patch that ended part of the way, of its answer, and of the   *)
(* originals.                                                              *)
(***************************************************************************)
EXTENDS PatchCommit, TLAPS

Contents == {"none", "old"} \cup Patches

\* The names change i of p is about.
Names(p, i) ==
    {Files[p][i].path} \cup (IF Files[p][i].op = "move" THEN {Files[p][i].to} ELSE {})

\* Each change is of files of its own, and suits what is there at first: what
\* plan() refuses otherwise, for patches that do not meet.
Apart ==
    \A p \in Patches : \A i \in Indices(p) :
        LET f == Files[p][i]
        IN  /\ AtFirst[f.path] = IF f.op = "add" THEN "none" ELSE "old"
            /\ f.op = "move" => f.path # f.to /\ AtFirst[f.to] = "none"
            /\ \A q \in Patches : \A j \in Indices(q) :
                  <<p, i>> # <<q, j>> => Names(p, i) \cap Names(q, j) = {}

\* What the tree holds of a change that is not there, and of one that is.
Before(p, i) == \A x \in Names(p, i) : tree[x] = AtFirst[x]
After(p, i) ==
    LET f == Files[p][i]
    IN  /\ tree[f.path] = IF f.op \in {"add", "update"} THEN p ELSE "none"
        /\ f.op = "move" => tree[f.to] = "old"

Early == {"idle", "called", "checked", "planned", "sweeping", "swept", "staged", "written",
          "refused"}
RollingBack == {"undoing", "discarded", "undone", "partial", "rolledBack"}

\* What is in the tree of a patch, by how far it got.
Progress(p) ==
    /\ pc[p] \in Early => done[p] = 0 /\ \A i \in Indices(p) : Before(p, i)
    /\ pc[p] \in Early \cup {"committing", "committed", "ok"} =>
          failed[p] = {} /\ unseen[p] = {}
    /\ pc[p] = "committing" =>
          \A i \in Indices(p) : IF i <= done[p] THEN After(p, i) ELSE Before(p, i)
    /\ pc[p] \in {"committed", "ok"} => \A i \in Indices(p) : After(p, i)
    /\ pc[p] \in RollingBack =>
          \A i \in Indices(p) :
              /\ i \in failed[p] \cup unseen[p] => i > done[p]
              /\ i > done[p] /\ i \notin failed[p] \cup unseen[p] => Before(p, i)
              /\ i <= done[p] => After(p, i)
    /\ pc[p] \in RollingBack \ {"undoing"} => done[p] = 0

\* Which journals are left, and that one is wherever something is half done.
Journalled(p) ==
    /\ pc[p] \in Early \ {"written"} => journal[p] # "json"
    /\ pc[p] = "written" => journal[p] = "tmp"
    /\ pc[p] \in {"committed", "ok", "rolledBack"} => journal[p] = "none"
    /\ pc[p] = "rolledBack" => failed[p] = {}
    /\ pc[p] \in {"undone", "partial"} =>
          IF failed[p] = {} THEN journal[p] = "none" ELSE journal[p] = "json" \/ cleared[p]
    /\ pc[p] = "dead" /\ journal[p] # "json" =>
          \/ cleared[p]
          \/ \A i \in Indices(p) : i \in unseen[p] \/ Before(p, i)
          \/ \A i \in Indices(p) : After(p, i)

\* A sweep reads every journal there is, and is done before what was staged
\* after that has aged.
Timely == Faults \cap {"unread", "late"} = {}

\* Where an original is.
BackedUp(p, i) == i \in backups[p] \/ Before(p, i)
Backed(p) ==
    /\ pc[p] \in {"staged", "written", "committing"} => backups[p] = Backups(p)
    /\ pc[p] = "undoing" =>
          \A i \in Backups(p) : i <= done[p] \/ i \in failed[p] => i \in backups[p]
    /\ pc[p] \in {"discarded", "undone"} => Backups(p) \cap failed[p] \subseteq backups[p]
    /\ pc[p] = "dead" /\ journal[p] = "json" /\ Timely =>
          \A i \in Backups(p) \ unseen[p] : BackedUp(p, i)

\* A patch works from the reading its caller made, which nobody else changes.
ReadsItsOwn ==
    \A p \in Patches : \A i \in Indices(p) : \A x \in Names(p, i) : read[p][x] = AtFirst[x]

Kept(p) == Progress(p) /\ Journalled(p) /\ Backed(p)

\* What a sweep is about to remove is of patches that are over, and it knows the
\* journals they left.
Informed(p) ==
    pc[p] = "sweeping" =>
        \A q \in stale[p] :
            /\ Over(q)
            /\ journal[q] = "json" => q \in named[p] \/ "unread" \in Faults
SweepsInformed == \A p \in Patches : Informed(p)

PatchInv ==
    /\ ReadsItsOwn
    /\ \A p \in Patches : Kept(p)

-----------------------------------------------------------------------------
(* Types *)

\* An element of a sequence.
LEMMA Element ==
    ASSUME NEW S, NEW s \in Seq(S), NEW i \in 1..Len(s) PROVE s[i] \in S
OBVIOUS

\* What a patch's changes are made of.
LEMMA Changes ==
    ASSUME NEW p \in Patches
    PROVE  /\ Len(Files[p]) \in Nat /\ Indices(p) \subseteq Nat
           /\ \A i \in Indices(p) : /\ Files[p][i].op \in Ops
                                    /\ Files[p][i].path \in Paths
                                    /\ Files[p][i].to \in Paths
           /\ NewTemps(p) \subseteq Indices(p) /\ Backups(p) \subseteq Indices(p)
<1>1. Files[p] \in Seq([op : Ops, path : Paths, to : Paths])
  BY FilesAssumption
<1>2. Len(Files[p]) \in Nat /\ Indices(p) \subseteq Nat
  BY <1>1 DEF Indices
<1>3. \A i \in Indices(p) : Files[p][i] \in [op : Ops, path : Paths, to : Paths]
  BY <1>1, Element DEF Indices
<1>4. NewTemps(p) \subseteq Indices(p) /\ Backups(p) \subseteq Indices(p)
  BY DEF NewTemps, Backups, Staged
<1>. QED
  BY <1>2, <1>3, <1>4

\* Every variable keeps its type, and a patch renames only under a journal.
THEOREM PatchTyping == Spec => []TypeOK
<1> USE DEF TypeOK, Answered, leftovers
<1>1. Init => TypeOK
  BY AtFirstAssumption, Changes DEF Init
<1>2. TypeOK /\ [Next]_patching => TypeOK'
  <2> SUFFICES ASSUME TypeOK, [Next]_patching PROVE TypeOK'
    OBVIOUS
  <2> USE DEF To, Discarded
  <2>1. ASSUME NEW p \in Patches, Read(p) PROVE TypeOK'
    BY <2>1 DEF Read
  <2>2. ASSUME NEW p \in Patches, Check(p) PROVE TypeOK'
    BY <2>2 DEF Check, Unfinished, Over
  <2>3. ASSUME NEW p \in Patches, Plan(p) PROVE TypeOK'
    BY <2>3 DEF Plan
  <2>4. ASSUME NEW p \in Patches, Sweep(p) PROVE TypeOK'
    BY <2>4 DEF Sweep
  <2>4a. ASSUME NEW p \in Patches, ReadJournals(p) PROVE TypeOK'
    BY <2>4a DEF ReadJournals
  <2>5. ASSUME NEW p \in Patches, Stage(p) PROVE TypeOK'
    BY <2>5, Changes DEF Stage
  <2>6. ASSUME NEW p \in Patches, StageFails(p) PROVE TypeOK'
    BY <2>6 DEF StageFails
  <2>7. ASSUME NEW p \in Patches, StageDies(p) PROVE TypeOK'
    BY <2>7, Changes DEF StageDies
  <2>8. ASSUME NEW p \in Patches, JournalWrites(p) PROVE TypeOK'
    BY <2>8 DEF JournalWrites
  <2>9. ASSUME NEW p \in Patches, JournalPlaced(p) PROVE TypeOK'
    BY <2>9 DEF JournalPlaced
  <2>10. ASSUME NEW p \in Patches, JournalFails(p) PROVE TypeOK'
    BY <2>10 DEF JournalFails
  <2>11. ASSUME NEW p \in Patches, CommitOne(p) PROVE TypeOK'
    <3>1. Following(p) \in Indices(p)
      BY <2>11, Changes DEF CommitOne, Following, Indices
    <3>2. Applied(p, Files[p][Following(p)]) \in [Paths -> {"none", "old"} \cup Patches]
      BY <3>1, Changes DEF Applied, Ops
    <3>. QED
      BY <2>11, <3>1, <3>2, Changes DEF CommitOne, Following
  <2>12. ASSUME NEW p \in Patches, CommitOneFails(p) PROVE TypeOK'
    BY <2>12 DEF CommitOneFails
  <2>13. ASSUME NEW p \in Patches, CommitOneUnseen(p) PROVE TypeOK'
    <3>1. Following(p) \in Indices(p)
      BY <2>13, Changes DEF CommitOneUnseen, Following, Indices
    <3>2. Applied(p, Files[p][Following(p)]) \in [Paths -> {"none", "old"} \cup Patches]
      BY <3>1, Changes DEF Applied, Ops
    <3>. QED
      BY <2>13, <3>1, <3>2, Changes DEF CommitOneUnseen
  <2>14. ASSUME NEW p \in Patches, UndoOne(p) PROVE TypeOK'
    <3>1. done[p] \in Indices(p)
      BY <2>14, Changes DEF UndoOne, Indices
    <3> DEFINE f == Files[p][done[p]]
    <3>2. f.op \in Ops /\ f.path \in Paths /\ f.to \in Paths
      BY <3>1, Changes
    <3>3. tree[f.to] \in Contents /\ read[p][f.path] \in Contents
      BY <3>2 DEF Contents
    <3>4. Undone(p, f) \in [Paths -> {"none", "old"} \cup Patches]
      <4> HIDE DEF f
      <4>. QED
        BY <3>2, <3>3 DEF Undone, Ops, Contents
    <3>5. /\ done' \in [Patches -> Nat] /\ backups' \in [Patches -> SUBSET Nat]
          /\ \A q \in Patches : done'[q] <= done[q] /\ backups'[q] \subseteq backups[q]
      BY <2>14, <3>1, Changes DEF UndoOne, Indices
    <3>. QED
      BY <2>14, <3>4, <3>5, Changes DEF UndoOne
  <2>15. ASSUME NEW p \in Patches, UndoOneFails(p) PROVE TypeOK'
    <3>1. done[p] \in Indices(p)
      BY <2>15, Changes DEF UndoOneFails, Indices
    <3>. QED
      BY <2>15, <3>1, Changes DEF UndoOneFails
  <2>16. ASSUME NEW p \in Patches, Discard(p) PROVE TypeOK'
    BY <2>16 DEF Discard
  <2>17. ASSUME NEW p \in Patches, DropJournal(p) PROVE TypeOK'
    BY <2>17 DEF DropJournal
  <2>18. ASSUME NEW p \in Patches, DropStaged(p) PROVE TypeOK'
    BY <2>18 DEF DropStaged
  <2>19. ASSUME NEW p \in Patches, Die(p) PROVE TypeOK'
    BY <2>19 DEF Die
  <2>20. ASSUME NEW p \in Patches, Clear(p) PROVE TypeOK'
    BY <2>20 DEF Clear, Abandoned, Over
  <2>21. CASE UNCHANGED patching
    BY <2>21 DEF patching
  <2>. QED
    BY <2>1, <2>2, <2>3, <2>4, <2>4a, <2>5, <2>6, <2>7, <2>8, <2>9, <2>10, <2>11, <2>12,
       <2>13, <2>14, <2>15, <2>16, <2>17, <2>18, <2>19, <2>20, <2>21 DEF Next, Step
<1>. QED
  BY <1>1, <1>2, PTL DEF Spec
-----------------------------------------------------------------------------
(* The invariant *)

\* Where a patch is, where it does not change the tree, or changes it for
\* another of its changes.
LEMMA SameTree ==
    ASSUME tree' = tree
    PROVE  \A p \in Patches : \A i \in Indices(p) :
              /\ Before(p, i)' = Before(p, i) /\ After(p, i)' = After(p, i)
BY DEF Before, After

LEMMA Elsewhere ==
    ASSUME Apart, NEW p \in Patches, NEW i \in Indices(p),
           \A x \in Paths \ Names(p, i) : tree'[x] = tree[x]
    PROVE  \A q \in Patches : \A j \in Indices(q) : <<q, j>> # <<p, i>> =>
              /\ Before(q, j)' = Before(q, j) /\ After(q, j)' = After(q, j)
<1> SUFFICES ASSUME NEW q \in Patches, NEW j \in Indices(q), <<q, j>> # <<p, i>>
             PROVE  /\ Before(q, j)' = Before(q, j) /\ After(q, j)' = After(q, j)
  OBVIOUS
<1>1. Names(q, j) \cap Names(p, i) = {}
  BY DEF Apart
<1>2. Names(q, j) \subseteq Paths
  BY Changes DEF Names
<1>3. \A x \in Names(q, j) : tree'[x] = tree[x]
  BY <1>1, <1>2
<1>4. Before(q, j)' = Before(q, j)
  BY <1>3 DEF Before
<1>5. After(q, j)' = After(q, j)
  BY <1>3 DEF After, Names
<1>. QED
  BY <1>4, <1>5

\* A change that is not there has not landed, and one that is has.
LEMMA LandedMeansAfter ==
    ASSUME TypeOK, Apart, ReadsItsOwn, NEW p \in Patches, NEW i \in Indices(p)
    PROVE  /\ Before(p, i) => ~Landed(p, i)
           /\ After(p, i) => Landed(p, i)
<1> DEFINE f == Files[p][i]
<1>1. f.op \in Ops /\ f.path \in Paths /\ f.path \in Names(p, i)
  BY Changes DEF Names
<1>2. AtFirst[f.path] = IF f.op = "add" THEN "none" ELSE "old"
  BY DEF Apart
<1>3. read[p][f.path] = AtFirst[f.path]
  BY <1>1 DEF ReadsItsOwn
<1>4. p # "none" /\ p # "old"
  BY PatchesAssumption
<1>5. ASSUME Before(p, i) PROVE ~Landed(p, i)
  <2>1. tree[f.path] = AtFirst[f.path]
    BY <1>1, <1>5 DEF Before
  <2>. QED
    BY <1>2, <1>3, <1>4, <2>1 DEF Landed
<1>6. ASSUME After(p, i) PROVE Landed(p, i)
  BY <1>1, <1>2, <1>3, <1>4, <1>6 DEF After, Landed, Ops
<1>. QED
  BY <1>5, <1>6

\* What commit_one makes of a change, and what rollback makes of it.
LEMMA Commits ==
    ASSUME TypeOK, Apart, NEW p \in Patches, NEW i \in Indices(p), Before(p, i),
           tree' = Applied(p, Files[p][i])
    PROVE  After(p, i)' /\ \A x \in Paths \ Names(p, i) : tree'[x] = tree[x]
<1> DEFINE f == Files[p][i]
<1>1. f.op \in Ops /\ f.path \in Paths /\ f.to \in Paths
  BY Changes
<1>2. /\ AtFirst[f.path] = IF f.op = "add" THEN "none" ELSE "old"
      /\ f.op = "move" => f.path # f.to
  BY DEF Apart
<1>3. tree[f.path] = AtFirst[f.path]
  BY DEF Before, Names
<1>4. CASE f.op \in {"add", "update"}
  BY <1>1, <1>4 DEF Applied, After, Names, TypeOK
<1>5. CASE f.op = "delete"
  BY <1>1, <1>5 DEF Applied, After, Names, TypeOK
<1>6. CASE f.op = "move"
  BY <1>1, <1>2, <1>3, <1>6 DEF Applied, After, Names, TypeOK
<1>. QED
  BY <1>1, <1>4, <1>5, <1>6 DEF Ops

LEMMA Undoes ==
    ASSUME TypeOK, Apart, ReadsItsOwn, NEW p \in Patches, NEW i \in Indices(p),
           After(p, i), tree' = Undone(p, Files[p][i])
    PROVE  Before(p, i)' /\ \A x \in Paths \ Names(p, i) : tree'[x] = tree[x]
<1> DEFINE f == Files[p][i]
<1>1. f.op \in Ops /\ f.path \in Paths /\ f.to \in Paths
  BY Changes
<1>2. /\ AtFirst[f.path] = IF f.op = "add" THEN "none" ELSE "old"
      /\ f.op = "move" => f.path # f.to /\ AtFirst[f.to] = "none"
  BY DEF Apart
<1>3. read[p][f.path] = AtFirst[f.path]
  BY DEF ReadsItsOwn, Names
<1>4. CASE f.op = "add"
  BY <1>1, <1>2, <1>4 DEF Undone, Before, Names, TypeOK
<1>5. CASE f.op \in {"update", "delete"}
  BY <1>1, <1>3, <1>5 DEF Undone, Before, Names, TypeOK
<1>6. CASE f.op = "move"
  <2>1. tree[f.to] = "old"
    BY <1>6 DEF After
  <2>2. Names(p, i) = {f.path, f.to}
    BY <1>6 DEF Names
  <2>3. tree' = [tree EXCEPT ![f.path] = "old", ![f.to] = "none"]
    BY <1>6, <2>1 DEF Undone
  <2>4. tree'[f.path] = "old" /\ tree'[f.to] = "none"
    BY <1>1, <1>2, <1>6, <2>3 DEF TypeOK
  <2>5. Before(p, i)'
    BY <1>2, <1>6, <2>2, <2>4 DEF Before
  <2>. QED
    BY <2>2, <2>3, <2>5 DEF TypeOK
<1>. QED
  BY <1>1, <1>4, <1>5, <1>6 DEF Ops

\* A patch whose own files and steps are left alone: at most its unfinished
\* journal, or leftovers that no journal names, are removed when it is over.
LEMMA Bystander ==
    ASSUME NEW q \in Patches, Kept(q),
           pc'[q] = pc[q], done'[q] = done[q], failed'[q] = failed[q],
           unseen'[q] = unseen[q], cleared'[q] = cleared[q],
           \A i \in Indices(q) : /\ Before(q, i)' = Before(q, i)
                                 /\ After(q, i)' = After(q, i),
           \/ journal'[q] = journal[q]
           \/ Over(q) /\ journal[q] = "tmp" /\ journal'[q] = "none",
           \/ backups'[q] = backups[q]
           \/ Over(q) /\ (journal[q] # "json" \/ ~Timely)
    PROVE  Kept(q)'
<1> USE DEF Kept
<1>1. Progress(q)'
  BY DEF Progress
<1>2. Journalled(q)'
  BY DEF Journalled, Over, Answered
<1>3. Backed(q)'
  <2>1. Backups(q) \subseteq Indices(q)
    BY Changes
  <2>2. CASE backups'[q] = backups[q]
    BY <2>1, <2>2 DEF Backed, BackedUp
  <2>3. CASE Over(q) /\ (journal[q] # "json" \/ ~Timely)
    BY <2>3 DEF Backed, Over, Answered
  <2>. QED
    BY <2>2, <2>3
<1>. QED
  BY <1>1, <1>2, <1>3
-----------------------------------------------------------------------------
\* Every step keeps the invariant: the patches that do not move, by Bystander,
\* and the one that does.
LEMMA Preserved ==
    ASSUME TypeOK, TypeOK', Apart, PatchInv, SweepsInformed, [Next]_patching
    PROVE  PatchInv'
<1> DEFINE Others(p) == \A q \in Patches : q # p => Kept(q)'
<1>a. \A q \in Patches : Kept(q)
  BY DEF PatchInv
<1>b. ReadsItsOwn
  BY DEF PatchInv
<1> USE DEF To
<1>1. ASSUME NEW p \in Patches, Read(p) PROVE PatchInv'
  <2>1. Others(p)
    BY <1>1, <1>a, SameTree, Bystander DEF Read, TypeOK
  <2>2. Kept(p)'
    BY <1>1, <1>a, SameTree DEF Read, TypeOK, Kept, Progress, Journalled, Backed,
       BackedUp, Early, RollingBack
  <2>3. \A i \in Indices(p) : Before(p, i)
    BY <1>1, <1>a DEF Read, Kept, Progress, Early
  <2>4. ReadsItsOwn'
    BY <1>1, <1>b, <2>3 DEF Read, TypeOK, ReadsItsOwn, Before
  <2>. QED
    BY <2>1, <2>2, <2>4 DEF PatchInv
<1>2. ASSUME NEW p \in Patches, Check(p) PROVE PatchInv'
  <2>1. Others(p)
    BY ZenonT(60), <1>2, <1>a, SameTree, Bystander DEF Check, TypeOK, Unfinished
  <2>2. Kept(p)'
    BY <1>2, <1>a, SameTree DEF Check, TypeOK, Unfinished, Refuses, Over, Answered, Kept, Progress, Journalled, Backed,
       BackedUp, Early, RollingBack
  <2>3. ReadsItsOwn'
    BY <1>2, <1>b DEF Check, ReadsItsOwn
  <2>. QED
    BY <2>1, <2>2, <2>3 DEF PatchInv
<1>3. ASSUME NEW p \in Patches, Plan(p) PROVE PatchInv'
  <2>1. Others(p)
    BY <1>3, <1>a, SameTree, Bystander DEF Plan, TypeOK
  <2>2. Kept(p)'
    BY <1>3, <1>a, SameTree DEF Plan, TypeOK, Kept, Progress, Journalled, Backed,
       BackedUp, Early, RollingBack
  <2>3. ReadsItsOwn'
    BY <1>3, <1>b DEF Plan, ReadsItsOwn
  <2>. QED
    BY <2>1, <2>2, <2>3 DEF PatchInv
<1>4a. ASSUME NEW p \in Patches, ReadJournals(p) PROVE PatchInv'
  <2>1. Others(p)
    BY <1>4a, <1>a, SameTree, Bystander DEF ReadJournals, TypeOK
  <2>2. Kept(p)'
    BY <1>4a, <1>a, SameTree DEF ReadJournals, TypeOK, Kept, Progress, Journalled, Backed,
       BackedUp, Early, RollingBack
  <2>3. ReadsItsOwn'
    BY <1>4a, <1>b DEF ReadJournals, ReadsItsOwn
  <2>. QED
    BY <2>1, <2>2, <2>3 DEF PatchInv
<1>4. ASSUME NEW p \in Patches, Sweep(p) PROVE PatchInv'
  <2>0. \A q \in Patches :
          \/ backups'[q] = backups[q]
          \/ Over(q) /\ (journal[q] # "json" \/ ~Timely)
    <3>1. pc[p] = "sweeping"
      BY <1>4 DEF Sweep
    <3>2. PICK old \in SUBSET Aged(p) :
             backups' = [q \in Patches |-> IF q \in old \ named[p] THEN {} ELSE backups[q]]
      BY <1>4 DEF Sweep
    <3>3. \A q \in Aged(p) :
             /\ Over(q)
             /\ journal[q] = "json" /\ Timely => q \in named[p]
      BY <3>1 DEF Aged, SweepsInformed, Informed, Timely
    <3>. QED
      BY <3>2, <3>3
  <2>1. Others(p)
    BY <1>4, <1>a, <2>0, SameTree, Bystander DEF Sweep, TypeOK
  <2>2. Kept(p)'
    BY <1>4, <1>a, SameTree DEF Sweep, TypeOK, Kept, Progress, Journalled, Backed,
       BackedUp, Early, RollingBack
  <2>3. ReadsItsOwn'
    BY <1>4, <1>b DEF Sweep, ReadsItsOwn
  <2>. QED
    BY <2>1, <2>2, <2>3 DEF PatchInv
<1>5. ASSUME NEW p \in Patches, Stage(p) PROVE PatchInv'
  <2>1. Others(p)
    BY <1>5, <1>a, SameTree, Bystander DEF Stage, TypeOK
  <2>2. Kept(p)'
    BY <1>5, <1>a, SameTree DEF Stage, TypeOK, Kept, Progress, Journalled, Backed,
       BackedUp, Early, RollingBack
  <2>3. ReadsItsOwn'
    BY <1>5, <1>b DEF Stage, ReadsItsOwn
  <2>. QED
    BY <2>1, <2>2, <2>3 DEF PatchInv
<1>6. ASSUME NEW p \in Patches, StageFails(p) PROVE PatchInv'
  <2>1. Others(p)
    BY <1>6, <1>a, SameTree, Bystander DEF StageFails, TypeOK
  <2>2. Kept(p)'
    BY <1>6, <1>a, SameTree DEF StageFails, TypeOK, Kept, Progress, Journalled, Backed,
       BackedUp, Early, RollingBack
  <2>3. ReadsItsOwn'
    BY <1>6, <1>b DEF StageFails, ReadsItsOwn
  <2>. QED
    BY <2>1, <2>2, <2>3 DEF PatchInv
<1>7. ASSUME NEW p \in Patches, StageDies(p) PROVE PatchInv'
  <2>1. Others(p)
    BY <1>7, <1>a, SameTree, Bystander DEF StageDies, TypeOK
  <2>2. Kept(p)'
    BY <1>7, <1>a, SameTree DEF StageDies, TypeOK, Kept, Progress, Journalled, Backed,
       BackedUp, Early, RollingBack
  <2>3. ReadsItsOwn'
    BY <1>7, <1>b DEF StageDies, ReadsItsOwn
  <2>. QED
    BY <2>1, <2>2, <2>3 DEF PatchInv
<1>8. ASSUME NEW p \in Patches, JournalWrites(p) PROVE PatchInv'
  <2>1. Others(p)
    BY <1>8, <1>a, SameTree, Bystander DEF JournalWrites, TypeOK
  <2>2. Kept(p)'
    BY <1>8, <1>a, SameTree DEF JournalWrites, TypeOK, Kept, Progress, Journalled, Backed,
       BackedUp, Early, RollingBack
  <2>3. ReadsItsOwn'
    BY <1>8, <1>b DEF JournalWrites, ReadsItsOwn
  <2>. QED
    BY <2>1, <2>2, <2>3 DEF PatchInv
<1>9. ASSUME NEW p \in Patches, JournalPlaced(p) PROVE PatchInv'
  <2>1. Others(p)
    BY <1>9, <1>a, SameTree, Bystander DEF JournalPlaced, TypeOK
  <2>2. Progress(p)'
    BY <1>9, <1>a, SameTree, Changes DEF JournalPlaced, TypeOK, Kept, Progress, Indices, Early,
       RollingBack
  <2>3. Journalled(p)'
    BY <1>9, <1>a, SameTree DEF JournalPlaced, TypeOK, Kept, Progress, Journalled, Early, RollingBack
  <2>4. Backed(p)'
    BY <1>9, <1>a, SameTree, Changes DEF JournalPlaced, TypeOK, Kept, Progress, Journalled, Backed,
       BackedUp, Early, RollingBack
  <2>5. ReadsItsOwn'
    BY <1>9, <1>b DEF JournalPlaced, ReadsItsOwn
  <2>. QED
    BY <2>1, <2>2, <2>3, <2>4, <2>5 DEF PatchInv, Kept
<1>10. ASSUME NEW p \in Patches, JournalFails(p) PROVE PatchInv'
  <2>1. Others(p)
    BY <1>10, <1>a, SameTree, Bystander DEF JournalFails, Discarded, TypeOK
  <2>2. Kept(p)'
    BY <1>10, <1>a, SameTree DEF JournalFails, Discarded, TypeOK, Kept, Progress, Journalled, Backed,
       BackedUp, Early, RollingBack
  <2>3. ReadsItsOwn'
    BY <1>10, <1>b DEF JournalFails, ReadsItsOwn
  <2>. QED
    BY <2>1, <2>2, <2>3 DEF PatchInv
<1>11. ASSUME NEW p \in Patches, CommitOne(p) PROVE PatchInv'
  <2>1. PICK i \in Indices(p) :
           /\ i = Following(p) /\ i = done[p] + 1 /\ pc[p] = "committing"
           /\ tree' = Applied(p, Files[p][i])
    BY <1>11, Changes DEF CommitOne, Following, TypeOK, Indices
  <2>2. \A j \in Indices(p) : IF j <= done[p] THEN After(p, j) ELSE Before(p, j)
    BY <1>a, <2>1 DEF Kept, Progress
  <2>3. Before(p, i)
    BY <2>1, <2>2, Changes DEF TypeOK
  <2>4. After(p, i)' /\ \A x \in Paths \ Names(p, i) : tree'[x] = tree[x]
    BY <2>1, <2>3, Commits
  <2>5. \A q \in Patches : \A j \in Indices(q) : <<q, j>> # <<p, i>> =>
           /\ Before(q, j)' = Before(q, j) /\ After(q, j)' = After(q, j)
    BY <2>1, <2>4, Elsewhere
  <2>6. Others(p)
    BY <1>11, <1>a, <2>5, Bystander DEF CommitOne, TypeOK
  <2>7. \A j \in Indices(p) : j # i =>
           /\ Before(p, j)' = Before(p, j) /\ After(p, j)' = After(p, j)
    BY <2>5
  <2>8. /\ done'[p] = i /\ pc'[p] = "committing"
        /\ <<failed, unseen, backups, journal>>' = <<failed, unseen, backups, journal>>
    BY <1>11, <2>1 DEF CommitOne, TypeOK
  <2>9. \A j \in Indices(p) : IF j <= i THEN After(p, j)' ELSE Before(p, j)'
    <3> SUFFICES ASSUME NEW j \in Indices(p)
                 PROVE  IF j <= i THEN After(p, j)' ELSE Before(p, j)'
      OBVIOUS
    <3>1. CASE j = i
      BY <2>4, <3>1, Changes
    <3>2. CASE j # i
      <4>1. j <= i <=> j <= done[p]
        BY <2>1, <3>2, Changes DEF TypeOK
      <4>. QED
        BY <2>2, <2>7, <3>2, <4>1
    <3>. QED
      BY <3>1, <3>2
  <2>10. Kept(p)'
    BY <1>a, <2>1, <2>8, <2>9 DEF Kept, Progress, Journalled, Backed, Early, RollingBack
  <2>11. ReadsItsOwn'
    BY <1>11, <1>b DEF CommitOne, ReadsItsOwn
  <2>. QED
    BY <2>6, <2>10, <2>11 DEF PatchInv
<1>12. ASSUME NEW p \in Patches, CommitOneFails(p) PROVE PatchInv'
  <2>1. Others(p)
    BY <1>12, <1>a, SameTree, Bystander DEF CommitOneFails, TypeOK
  <2>2. Progress(p)'
    <3>1. /\ pc[p] = "committing" /\ pc'[p] = "undoing"
          /\ <<done, failed, unseen>>' = <<done, failed, unseen>>
          /\ \A i \in Indices(p) : /\ Before(p, i)' = Before(p, i)
                                    /\ After(p, i)' = After(p, i)
      BY <1>12, SameTree DEF CommitOneFails, TypeOK
    <3>2. /\ failed[p] = {} /\ unseen[p] = {}
          /\ \A i \in Indices(p) : IF i <= done[p] THEN After(p, i) ELSE Before(p, i)
      BY <1>a, <3>1 DEF Kept, Progress
    <3>3. \A i \in Indices(p) : i > done[p] => ~(i <= done[p])
      BY Changes DEF TypeOK
    <3>. QED
      BY <3>1, <3>2, <3>3 DEF Progress, Early, RollingBack
  <2>3. Journalled(p)'
    BY <1>12, <1>a, SameTree DEF CommitOneFails, TypeOK, Kept, Progress, Journalled, Early, RollingBack
  <2>4. Backed(p)'
    BY <1>12, <1>a, SameTree, Changes DEF CommitOneFails, TypeOK, Kept, Progress, Journalled, Backed,
       BackedUp, Early, RollingBack
  <2>5. ReadsItsOwn'
    BY <1>12, <1>b DEF CommitOneFails, ReadsItsOwn
  <2>. QED
    BY <2>1, <2>2, <2>3, <2>4, <2>5 DEF PatchInv, Kept
<1>13. ASSUME NEW p \in Patches, CommitOneUnseen(p) PROVE PatchInv'
  <2>1. PICK i \in Indices(p) :
           /\ i = Following(p) /\ i = done[p] + 1 /\ pc[p] = "committing"
           /\ tree' = Applied(p, Files[p][i])
    BY <1>13, Changes DEF CommitOneUnseen, Following, TypeOK, Indices
  <2>2. \A j \in Indices(p) : IF j <= done[p] THEN After(p, j) ELSE Before(p, j)
    BY <1>a, <2>1 DEF Kept, Progress
  <2>3. Before(p, i)
    BY <2>1, <2>2, Changes DEF TypeOK
  <2>4. After(p, i)' /\ \A x \in Paths \ Names(p, i) : tree'[x] = tree[x]
    BY <2>1, <2>3, Commits
  <2>5. \A q \in Patches : \A j \in Indices(q) : <<q, j>> # <<p, i>> =>
           /\ Before(q, j)' = Before(q, j) /\ After(q, j)' = After(q, j)
    BY <2>1, <2>4, Elsewhere
  <2>6. Others(p)
    BY <1>13, <1>a, <2>5, Bystander DEF CommitOneUnseen, TypeOK
  <2>7. \A j \in Indices(p) : j # i =>
           /\ Before(p, j)' = Before(p, j) /\ After(p, j)' = After(p, j)
    BY <2>5
  <2>8. /\ unseen'[p] = {i} /\ pc'[p] = "undoing" /\ failed[p] = {}
        /\ backups[p] = Backups(p)
        /\ <<done, failed, backups, journal>>' = <<done, failed, backups, journal>>
    BY <1>13, <1>a, <2>1 DEF CommitOneUnseen, TypeOK, Kept, Progress, Backed
  <2>9. \A j \in Indices(p) \ {i} : IF j <= done[p] THEN After(p, j)' ELSE Before(p, j)'
    BY <2>2, <2>7
  <2>10. Kept(p)'
    BY <2>1, <2>8, <2>9, Changes
       DEF TypeOK, Kept, Progress, Journalled, Backed, Early, RollingBack
  <2>11. ReadsItsOwn'
    BY <1>13, <1>b DEF CommitOneUnseen, ReadsItsOwn
  <2>. QED
    BY <2>6, <2>10, <2>11 DEF PatchInv
<1>14. ASSUME NEW p \in Patches, UndoOne(p) PROVE PatchInv'
  <2>1. PICK i \in Indices(p) :
           i = done[p] /\ pc[p] = "undoing" /\ tree' = Undone(p, Files[p][i])
    BY <1>14, Changes DEF UndoOne, TypeOK, Indices
  <2>2. \A j \in Indices(p) :
           /\ j \in failed[p] \cup unseen[p] => j > i
           /\ j > i /\ j \notin failed[p] \cup unseen[p] => Before(p, j)
           /\ j <= i => After(p, j)
    BY <1>a, <2>1 DEF Kept, Progress, RollingBack
  <2>3. \A j \in Backups(p) : j <= i \/ j \in failed[p] => j \in backups[p]
    BY <1>a, <2>1 DEF Kept, Backed
  <2>4. After(p, i)
    BY <2>1, <2>2, Changes
  <2>5. Before(p, i)' /\ \A x \in Paths \ Names(p, i) : tree'[x] = tree[x]
    BY <1>b, <2>1, <2>4, Undoes
  <2>6. \A q \in Patches : \A j \in Indices(q) : <<q, j>> # <<p, i>> =>
           /\ Before(q, j)' = Before(q, j) /\ After(q, j)' = After(q, j)
    BY <2>1, <2>5, Elsewhere
  <2>7. Others(p)
    BY <1>14, <1>a, <2>6, Bystander DEF UndoOne, TypeOK
  <2>8. /\ done'[p] = i - 1 /\ pc'[p] = "undoing" /\ backups'[p] = backups[p] \ {i}
        /\ <<failed, unseen, journal>>' = <<failed, unseen, journal>>
    BY <1>14, <2>1 DEF UndoOne, TypeOK
  <2>9. \A j \in Indices(p) :
           /\ j \in failed[p] \cup unseen[p] => j > i - 1
           /\ j > i - 1 /\ j \notin failed[p] \cup unseen[p] => Before(p, j)'
           /\ j <= i - 1 => After(p, j)'
    BY <2>1, <2>2, <2>5, <2>6, Changes
  <2>10. \A j \in Backups(p) : j <= i - 1 \/ j \in failed[p] => j \in backups[p] \ {i}
    BY <2>1, <2>2, <2>3, Changes
  <2>11. Kept(p)'
    BY <2>8, <2>9, <2>10 DEF Kept, Progress, Journalled, Backed, Early, RollingBack
  <2>12. ReadsItsOwn'
    BY <1>14, <1>b DEF UndoOne, ReadsItsOwn
  <2>. QED
    BY <2>7, <2>11, <2>12 DEF PatchInv
<1>15. ASSUME NEW p \in Patches, UndoOneFails(p) PROVE PatchInv'
  <2>1. Others(p)
    BY <1>15, <1>a, SameTree, Bystander DEF UndoOneFails, TypeOK
  <2>2. Progress(p)'
    BY <1>15, <1>a, SameTree, Changes DEF UndoOneFails, TypeOK, Kept, Progress, Indices, Early,
       RollingBack
  <2>3. Journalled(p)'
    BY <1>15, <1>a, SameTree DEF UndoOneFails, TypeOK, Kept, Progress, Journalled, Early, RollingBack
  <2>4. Backed(p)'
    BY <1>15, <1>a, SameTree, Changes DEF UndoOneFails, TypeOK, Kept, Progress, Journalled, Backed,
       BackedUp, Early, RollingBack
  <2>5. ReadsItsOwn'
    BY <1>15, <1>b DEF UndoOneFails, ReadsItsOwn
  <2>. QED
    BY <2>1, <2>2, <2>3, <2>4, <2>5 DEF PatchInv, Kept
<1>16. ASSUME NEW p \in Patches, Discard(p) PROVE PatchInv'
  <2>1. Others(p)
    BY <1>16, <1>a, SameTree, Bystander DEF Discard, Discarded, TypeOK
  <2>2. Kept(p)'
    BY <1>16, <1>a, SameTree DEF Discard, Discarded, TypeOK, Kept, Progress, Journalled, Backed,
       BackedUp, Early, RollingBack
  <2>3. ReadsItsOwn'
    BY <1>16, <1>b DEF Discard, ReadsItsOwn
  <2>. QED
    BY <2>1, <2>2, <2>3 DEF PatchInv
<1>17. ASSUME NEW p \in Patches, DropJournal(p) PROVE PatchInv'
  <2>1. Others(p)
    BY <1>17, <1>a, SameTree, Bystander DEF DropJournal, TypeOK
  <2>2. Progress(p)'
    <3>1. /\ <<done, failed, unseen>>' = <<done, failed, unseen>>
          /\ \A i \in Indices(p) : /\ Before(p, i)' = Before(p, i)
                                    /\ After(p, i)' = After(p, i)
      BY <1>17, SameTree DEF DropJournal
    <3>2. CASE pc[p] = "committing"
      <4>1. done[p] = Len(Files[p]) /\ pc'[p] = "committed"
        BY <1>17, <3>2 DEF DropJournal, TypeOK
      <4>2. \A i \in Indices(p) : i <= done[p]
        BY <4>1, Changes DEF Indices
      <4>. QED
        BY <1>a, <3>1, <3>2, <4>1, <4>2 DEF Kept, Progress, Early, RollingBack
    <3>3. CASE pc[p] = "discarded"
      <4>1. pc'[p] = "undone"
        BY <1>17, <3>3 DEF DropJournal, TypeOK
      <4>. QED
        BY <1>a, <3>1, <3>3, <4>1 DEF Kept, Progress, Early, RollingBack
    <3>. QED
      BY <1>17, <3>2, <3>3 DEF DropJournal
  <2>3. Journalled(p)'
    BY <1>17, <1>a, SameTree DEF DropJournal, TypeOK, Kept, Progress, Journalled, Early, RollingBack
  <2>4. Backed(p)'
    BY <1>17, <1>a, SameTree, Changes DEF DropJournal, TypeOK, Kept, Progress, Journalled, Backed,
       BackedUp, Early, RollingBack
  <2>5. ReadsItsOwn'
    BY <1>17, <1>b DEF DropJournal, ReadsItsOwn
  <2>. QED
    BY <2>1, <2>2, <2>3, <2>4, <2>5 DEF PatchInv, Kept
<1>18. ASSUME NEW p \in Patches, DropStaged(p) PROVE PatchInv'
  <2>1. Others(p)
    BY <1>18, <1>a, SameTree, Bystander DEF DropStaged, Discarded, TypeOK
  <2>2. Kept(p)'
    BY <1>18, <1>a, SameTree DEF DropStaged, Discarded, TypeOK, Kept, Progress, Journalled, Backed,
       BackedUp, Early, RollingBack
  <2>3. ReadsItsOwn'
    BY <1>18, <1>b DEF DropStaged, ReadsItsOwn
  <2>. QED
    BY <2>1, <2>2, <2>3 DEF PatchInv
<1>19. ASSUME NEW p \in Patches, Die(p) PROVE PatchInv'
  <2>1. Others(p)
    BY <1>19, <1>a, SameTree, Bystander DEF Die, TypeOK
  <2>2. Progress(p)'
    BY <1>19, <1>a, SameTree DEF Die, TypeOK, Over, Answered, Kept, Progress, Early, RollingBack
  <2>3. pc[p] \in (Early \ {"refused"}) \cup {"committing", "committed"}
                     \cup {"undoing", "discarded", "undone"}
    BY <1>19 DEF Die, TypeOK, Over, Answered, Early
  <2>4. /\ \A i \in Indices(p) : Before(p, i)' = Before(p, i) /\ After(p, i)' = After(p, i)
        /\ pc'[p] = "dead" /\ Backups(p) \subseteq Indices(p)
        /\ <<unseen, backups, journal, cleared>>' = <<unseen, backups, journal, cleared>>
    BY <1>19, SameTree, Changes DEF Die, TypeOK
  <2>5. Journalled(p)' /\ Backed(p)'
    <3>1. CASE pc[p] \in Early \ {"refused"}
      <4>1. journal[p] # "json" /\ \A i \in Indices(p) : Before(p, i)
        BY <1>a, <3>1 DEF Kept, Progress, Journalled, Early
      <4>. QED
        BY <2>4, <4>1 DEF Journalled, Backed, Early
    <3>2. CASE pc[p] = "committing"
      <4>1. journal[p] = "json" /\ backups[p] = Backups(p)
        BY <1>a, <3>2 DEF TypeOK, Kept, Backed
      <4>. QED
        BY <2>4, <4>1 DEF Journalled, Backed, BackedUp, Early
    <3>3. CASE pc[p] = "committed"
      <4>1. journal[p] = "none" /\ \A i \in Indices(p) : After(p, i)
        BY <1>a, <3>3 DEF Kept, Progress, Journalled
      <4>. QED
        BY <2>4, <4>1 DEF Journalled, Backed, Early
    <3>4. CASE pc[p] \in {"undoing", "discarded", "undone"}
      <4>1. \A i \in Indices(p) \ unseen[p] :
               i \in failed[p] \/ i <= done[p] \/ Before(p, i)
        BY <1>a, <3>4, Changes DEF Kept, Progress, RollingBack, TypeOK
      <4>2. \/ journal[p] = "json" \/ cleared[p]
            \/ failed[p] = {} /\ done[p] = 0
        BY <1>a, <3>4 DEF TypeOK, Kept, Progress, Journalled, RollingBack
      <4>3. \A i \in Backups(p) : i <= done[p] \/ i \in failed[p] => i \in backups[p]
        BY <1>a, <3>4, Changes DEF Kept, Progress, Backed, RollingBack, Indices
      <4>4. done[p] = 0 => \A i \in Indices(p) : ~(i <= done[p])
        BY DEF Indices
      <4>5. Journalled(p)'
        BY <2>4, <4>1, <4>2, <4>4 DEF Journalled, Early
      <4>6. Backed(p)'
        BY <2>4, <4>1, <4>3 DEF Backed, BackedUp
      <4>. QED
        BY <4>5, <4>6
    <3>. QED
      BY <2>3, <3>1, <3>2, <3>3, <3>4
  <2>6. ReadsItsOwn'
    BY <1>19, <1>b DEF Die, ReadsItsOwn
  <2>. QED
    BY <2>1, <2>2, <2>5, <2>6 DEF PatchInv, Kept
<1>20. ASSUME NEW p \in Patches, Clear(p) PROVE PatchInv'
  <2>1. Others(p)
    BY <1>20, <1>a, SameTree, Bystander DEF Clear, TypeOK
  <2>2. Kept(p)'
    BY <1>20, <1>a, SameTree DEF Clear, TypeOK, Abandoned, Over, Answered, Kept, Progress, Journalled, Backed,
       BackedUp, Early, RollingBack
  <2>3. ReadsItsOwn'
    BY <1>20, <1>b DEF Clear, ReadsItsOwn
  <2>. QED
    BY <2>1, <2>2, <2>3 DEF PatchInv
<1>21. CASE UNCHANGED patching
  <2>1. \A q \in Patches : Kept(q)'
    BY <1>21, <1>a, SameTree, Bystander DEF patching
  <2>2. ReadsItsOwn'
    BY <1>21, <1>b DEF patching, ReadsItsOwn
  <2>. QED
    BY <2>1, <2>2 DEF PatchInv
<1>. QED
  BY <1>1, <1>2, <1>3, <1>4, <1>4a, <1>5, <1>6, <1>7, <1>8, <1>9, <1>10, <1>11, <1>12, <1>13, <1>14, <1>15, <1>16, <1>17, <1>18, <1>19, <1>20, <1>21 DEF Next, Step
-----------------------------------------------------------------------------
(* What follows *)

\* Whatever a sweep is going to remove, it knows the journals that name it.
LEMMA SweepsKnow == Spec => []SweepsInformed
<1>1. Init => SweepsInformed
  BY DEF Init, SweepsInformed, Informed
<1>2. TypeOK /\ SweepsInformed /\ [Next]_patching => SweepsInformed'
  <2> SUFFICES ASSUME TypeOK, SweepsInformed, [Next]_patching PROVE SweepsInformed'
    OBVIOUS
  <2>1. ASSUME NEW q \in Patches, Over(q)
        PROVE  pc'[q] = pc[q] /\ (journal'[q] = "json" => journal[q] = "json")
    <3> USE <2>1 DEF Over, Answered, TypeOK, To
    <3>1. ASSUME NEW r \in Patches, Read(r) \/ Check(r) \/ Plan(r) \/ ReadJournals(r)
                                    \/ Sweep(r)
          PROVE  pc'[q] = pc[q] /\ (journal'[q] = "json" => journal[q] = "json")
      BY <3>1 DEF Read, Check, Plan, ReadJournals, Sweep
    <3>2. ASSUME NEW r \in Patches, \/ Stage(r) \/ StageFails(r) \/ StageDies(r)
                                    \/ JournalWrites(r) \/ JournalPlaced(r)
                                    \/ JournalFails(r)
          PROVE  pc'[q] = pc[q] /\ (journal'[q] = "json" => journal[q] = "json")
      BY <3>2 DEF Stage, StageFails, StageDies, JournalWrites, JournalPlaced, JournalFails
    <3>3. ASSUME NEW r \in Patches, \/ CommitOne(r) \/ CommitOneFails(r)
                                    \/ CommitOneUnseen(r) \/ UndoOne(r)
                                    \/ UndoOneFails(r) \/ Discard(r)
          PROVE  pc'[q] = pc[q] /\ (journal'[q] = "json" => journal[q] = "json")
      BY <3>3 DEF CommitOne, CommitOneFails, CommitOneUnseen, UndoOne, UndoOneFails,
         Discard
    <3>4. ASSUME NEW r \in Patches, DropJournal(r) \/ DropStaged(r) \/ Die(r) \/ Clear(r)
          PROVE  pc'[q] = pc[q] /\ (journal'[q] = "json" => journal[q] = "json")
      BY <3>4 DEF DropJournal, DropStaged, Die, Clear
    <3>. QED
      BY <3>1, <3>2, <3>3, <3>4 DEF Next, Step, patching
  <2>2. ASSUME NEW p \in Patches, pc'[p] = "sweeping"
        PROVE  \/ /\ pc[p] = "sweeping"
                  /\ stale'[p] = stale[p] /\ named'[p] = named[p]
               \/ ReadJournals(p)
    <3> USE <2>2 DEF TypeOK, To, leftovers
    <3>1. ASSUME NEW r \in Patches, \/ Read(r) \/ Check(r) \/ Plan(r) \/ Sweep(r)
                                    \/ Stage(r) \/ StageFails(r) \/ StageDies(r)
                                    \/ JournalWrites(r) \/ JournalPlaced(r)
                                    \/ JournalFails(r)
          PROVE  pc[p] = "sweeping" /\ stale'[p] = stale[p] /\ named'[p] = named[p]
      BY <3>1 DEF Read, Check, Plan, Sweep, Stage, StageFails, StageDies, JournalWrites,
         JournalPlaced, JournalFails
    <3>2. ASSUME NEW r \in Patches, \/ CommitOne(r) \/ CommitOneFails(r)
                                    \/ CommitOneUnseen(r) \/ UndoOne(r)
                                    \/ UndoOneFails(r) \/ Discard(r)
                                    \/ DropJournal(r) \/ DropStaged(r) \/ Die(r) \/ Clear(r)
          PROVE  pc[p] = "sweeping" /\ stale'[p] = stale[p] /\ named'[p] = named[p]
      BY <3>2 DEF CommitOne, CommitOneFails, CommitOneUnseen, UndoOne, UndoOneFails,
         Discard, DropJournal, DropStaged, Die, Clear
    <3>3. ASSUME NEW r \in Patches, ReadJournals(r), r # p
          PROVE  pc[p] = "sweeping" /\ stale'[p] = stale[p] /\ named'[p] = named[p]
      BY <3>3 DEF ReadJournals
    <3>. QED
      BY <3>1, <3>2, <3>3 DEF Next, Step, patching
  <2>3. ASSUME NEW p \in Patches, pc'[p] = "sweeping" PROVE Informed(p)'
    <3>1. CASE ReadJournals(p)
      <4>1. \A q \in stale'[p] : q \in Patches /\ Over(q)
        BY <3>1 DEF ReadJournals, TypeOK
      <4>2. \A q \in Patches :
              journal[q] = "json" => q \in named'[p] \/ "unread" \in Faults
        BY <3>1 DEF ReadJournals, TypeOK, Spoken
      <4>. QED
        BY <2>1, <4>1, <4>2 DEF Informed, Over
    <3>2. CASE /\ pc[p] = "sweeping"
               /\ stale'[p] = stale[p] /\ named'[p] = named[p]
      <4>1. \A q \in stale[p] : q \in Patches
        BY DEF TypeOK
      <4>. QED
        BY <2>1, <3>2, <4>1 DEF SweepsInformed, Informed, Over
    <3>. QED
      BY <2>2, <2>3, <3>1, <3>2
  <2>. QED
    BY <2>3 DEF SweepsInformed, Informed
<1>. QED
  BY PatchTyping, <1>1, <1>2, PTL DEF Spec

\* In every reachable state of patches whose files are their own, what is in
\* the tree, the journal and the backups of a patch is told by how far it got.
THEOREM PatchesKept == ASSUME Apart PROVE Spec => []PatchInv
<1>1. Init => PatchInv
  <2> SUFFICES ASSUME Init PROVE PatchInv
    OBVIOUS
  <2>1. ReadsItsOwn /\ \A p \in Patches : \A i \in Indices(p) : Before(p, i)
    BY DEF Init, ReadsItsOwn, Before
  <2>2. \A p \in Patches : Kept(p)
    BY <2>1 DEF Init, Kept, Progress, Journalled, Backed, Early, RollingBack
  <2>. QED
    BY <2>1, <2>2 DEF PatchInv
<1>2. TypeOK /\ TypeOK' /\ PatchInv /\ SweepsInformed /\ [Next]_patching => PatchInv'
  BY Preserved
<1>. QED
  BY PatchTyping, SweepsKnow, <1>1, <1>2, PTL DEF Spec

\* What was left half done is known: the next patch is refused over it.
THEOREM TornAreKnown == ASSUME Apart PROVE Spec => []TornIsKnown
<1>1. TypeOK /\ PatchInv => TornIsKnown
  <2> SUFFICES ASSUME TypeOK, PatchInv, NEW p \in Patches, Torn(p), Over(p),
                      ~cleared[p], unseen[p] = {}
               PROVE  Abandoned(p)
    BY DEF TornIsKnown
  <2>1. Kept(p) /\ ReadsItsOwn
    BY DEF PatchInv
  <2>2. /\ ~ \A i \in Indices(p) : Before(p, i)
        /\ ~ \A i \in Indices(p) : After(p, i)
    BY <2>1, LandedMeansAfter DEF Torn
  <2>3. pc[p] = "dead" => journal[p] = "json"
    BY <2>1, <2>2 DEF Kept, Journalled
  <2>4. pc[p] \in {"rolledBack", "partial"} => journal[p] = "json"
    <3>1. pc[p] \in {"rolledBack", "partial"} => failed[p] # {}
      BY <2>1, <2>2, Changes DEF Kept, Progress, RollingBack, Indices
    <3>. QED
      BY <2>1, <3>1 DEF Kept, Journalled
  <2>5. pc[p] \notin {"refused", "ok"}
    BY <2>1, <2>2 DEF Kept, Progress, Early
  <2>. QED
    BY <2>3, <2>4, <2>5 DEF Abandoned, Over, Answered
<1>. QED
  BY PatchTyping, PatchesKept, <1>1, PTL

\* What a patch answers is so.
THEOREM AnswersAreTrue == ASSUME Apart PROVE Spec => []AnswerIsTrue
<1>1. TypeOK /\ PatchInv => AnswerIsTrue
  <2> SUFFICES ASSUME TypeOK, PatchInv, NEW p \in Patches, NEW i \in Indices(p)
               PROVE  /\ pc[p] = "ok" => Landed(p, i)
                      /\ pc[p] = "refused" => ~Landed(p, i)
                      /\ pc[p] = "rolledBack" /\ unseen[p] = {} => ~Landed(p, i)
    BY DEF AnswerIsTrue
  <2>1. Kept(p) /\ ReadsItsOwn
    BY DEF PatchInv
  <2>2. /\ pc[p] = "ok" => After(p, i)
        /\ pc[p] = "refused" => Before(p, i)
    BY <2>1 DEF Kept, Progress, Early
  <2>3. pc[p] = "rolledBack" /\ unseen[p] = {} => Before(p, i)
    BY <2>1, Changes DEF Kept, Progress, Journalled, RollingBack, Indices
  <2>. QED
    BY <2>1, <2>2, <2>3, LandedMeansAfter
<1>. QED
  BY PatchTyping, PatchesKept, <1>1, PTL

\* No original of an interrupted patch is lost, as long as a sweep can read the
\* journals and does not stand still for an hour between them and the files.
THEOREM OriginalsAreKept == ASSUME Apart, Timely PROVE Spec => []OriginalsKept
<1>1. TypeOK /\ PatchInv => OriginalsKept
  <2> SUFFICES ASSUME TypeOK, PatchInv, NEW p \in Patches, Abandoned(p),
                      pc[p] # "partial", NEW i \in Backups(p) \ unseen[p]
               PROVE  \/ i \in backups[p]
                      \/ tree[Files[p][i].path] = read[p][Files[p][i].path]
    BY DEF OriginalsKept
  <2>1. Kept(p) /\ ReadsItsOwn
    BY DEF PatchInv
  <2>2. i \in Indices(p)
    BY Changes
  <2>3. pc[p] \in {"dead", "undone"} /\ journal[p] = "json"
    BY <2>1 DEF Abandoned, Over, Answered, Kept, Journalled, Early
  <2>4. BackedUp(p, i)
    BY <2>1, <2>2, <2>3, Changes DEF Kept, Backed, BackedUp, Progress, RollingBack, Indices
  <2>. QED
    BY <2>1, <2>2, <2>4 DEF BackedUp, Before, ReadsItsOwn, Names
<1>. QED
  BY PatchTyping, PatchesKept, <1>1, PTL
=============================================================================
