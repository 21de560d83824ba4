----------------------------- MODULE WriteGuard -----------------------------
(***************************************************************************)
(* The write guard of one working tree (mcp/write_guard.rs): a lock file   *)
(* whose flock says who is alive, and whose one-line marker says whether   *)
(* the last owner let go of the tree on purpose.  The servers that acquire *)
(* and drop it, the observations that look at it, the child processes that *)
(* share its descriptor between fork and exec, crashes at every step, I/O  *)
(* errors, and the person who deletes a marker left behind.                *)
(*                                                                         *)
(* A lock file is an inode: a server keeps the one it opened even when the *)
(* name is deleted under it and created again.                             *)
(***************************************************************************)
EXTENDS Naturals

CONSTANTS
    Servers,        \* mcp-serve processes that write; each runs once
    Observations,   \* calls of observe(); each runs once
    Files,          \* inodes
    BusyRetries,    \* BUSY_RETRIES
    PromptReaders,  \* an observation is over before a writer looks again
    Nobody, NoFile

ASSUME BusyRetriesAssumption == BusyRetries \in Nat
ASSUME NobodyAssumption == Nobody \notin Servers
ASSUME NoFileAssumption == NoFile \notin Files

VARIABLES
    path,       \* the inode the lock file's name leads to, or NoFile
    marker,     \* the text in each inode
    holder,     \* whose open file has each inode's exclusive flock
    readers,    \* the observations with each inode's shared flock
    pc,         \* where each server is
    fd,         \* the inode each server has open
    looked,     \* the busy looks of each server
    met,        \* history: the servers whose looks met an exclusive lock
    leaving,    \* how each server lets go: WriteGuard.abandoned, or an error
    forking,    \* servers with a child between fork and exec
    working,    \* servers whose commands still run
    step, seen, answer  \* where each observation is, its inode, what it said

files == <<path, marker, holder>>
server == <<pc, fd, looked, met, leaving>>
observation == <<readers, step, seen, answer>>
vars == <<files, server, forking, working, observation>>

-----------------------------------------------------------------------------
(* The marker's text. *)

Blank == [form |-> "blank", owner |-> Nobody]
Released == [form |-> "released", owner |-> Nobody]
\* Half written: none of the other forms.
Torn == [form |-> "torn", owner |-> Nobody]
HeldBy(s) == [form |-> "held", owner |-> s]
\* "held ..." with the "abandoned ..." line under it.
KeptBy(s) == [form |-> "kept", owner |-> s]

Markers ==
    {Blank, Released, Torn} \cup [form : {"held", "kept"}, owner : Servers]

\* What acquire() writes over; everything else it refuses.
Takeable == {Blank, Released}

Opened == {"try", "asleep", "read", "write", "sync"}
Locked == {"read", "write", "sync", "serving", "mark", "trim", "unlock"}
\* The ends of a server: busy, refused and failed never had authority.
Gone == {"busy", "refused", "failed", "left", "crashed"}

Alive(s) == pc[s] \notin Gone \cup {"new"}

\* An inode with no name and no open file is free to be used again.
InUse ==
    {path} \cup {fd[s] : s \in Servers} \cup {seen[o] : o \in Observations}
           \cup {f \in Files : holder[f] # Nobody}

\* Closing drops the flock unless a child between fork and exec shares it.
Closed(s) == [f \in Files |-> IF holder[f] = s /\ s \notin forking
                              THEN Nobody ELSE holder[f]]
\* unlock() drops it whoever shares the open file.
Unlocked(s) == [f \in Files |-> IF holder[f] = s THEN Nobody ELSE holder[f]]

-----------------------------------------------------------------------------
(* WriteGuard::acquire *)

Open(s) ==
    /\ pc[s] = "new"
    /\ \/ /\ path # NoFile
          /\ fd' = [fd EXCEPT ![s] = path]
          /\ UNCHANGED <<path, marker>>
       \/ /\ path = NoFile
          /\ \E f \in Files \ InUse :
                /\ path' = f
                /\ marker' = [marker EXCEPT ![f] = Blank]
                /\ fd' = [fd EXCEPT ![s] = f]
    /\ pc' = [pc EXCEPT ![s] = "try"]
    /\ UNCHANGED <<holder, looked, met, leaving, forking, working, observation>>

Free(f) == holder[f] = Nobody /\ readers[f] = {}

TryLock(s) ==
    /\ pc[s] = "try"
    /\ Free(fd[s])
    /\ holder' = [holder EXCEPT ![fd[s]] = s]
    /\ pc' = [pc EXCEPT ![s] = "read"]
    /\ UNCHANGED <<path, marker, fd, looked, met, leaving, forking, working,
                   observation>>

Meet(s) == IF holder[fd[s]] # Nobody THEN met \cup {s} ELSE met

\* Slip: one look too many, `<=` for `<`.
LookBusyOnceMore(s) ==
    /\ pc[s] = "try" /\ ~Free(fd[s])
    /\ looked[s] <= BusyRetries
    /\ looked' = [looked EXCEPT ![s] = @ + 1]
    /\ met' = Meet(s)
    /\ pc' = [pc EXCEPT ![s] = "asleep"]
    /\ UNCHANGED <<files, fd, leaving, forking, working, observation>>

LookBusy(s) ==
    /\ pc[s] = "try"
    /\ ~Free(fd[s])
    /\ looked[s] < BusyRetries
    /\ looked' = [looked EXCEPT ![s] = @ + 1]
    /\ met' = Meet(s)
    /\ pc' = [pc EXCEPT ![s] = "asleep"]
    /\ UNCHANGED <<files, fd, leaving, forking, working, observation>>

\* BUSY_BACKOFF, 20 ms, is "far longer than any read of a one-line file".
Wake(s) ==
    /\ pc[s] = "asleep"
    /\ PromptReaders => readers[fd[s]] = {}
    /\ pc' = [pc EXCEPT ![s] = "try"]
    /\ UNCHANGED <<files, fd, looked, met, leaving, forking, working,
                   observation>>

\* Slip: the first busy look is believed, as before P60.
RefuseBusyAtOnce(s) ==
    /\ pc[s] = "try" /\ ~Free(fd[s])
    /\ met' = Meet(s)
    /\ pc' = [pc EXCEPT ![s] = "busy"]
    /\ fd' = [fd EXCEPT ![s] = NoFile]
    /\ UNCHANGED <<files, looked, leaving, forking, working, observation>>

RefuseBusy(s) ==
    /\ pc[s] = "try"
    /\ ~Free(fd[s])
    /\ looked[s] = BusyRetries
    /\ met' = Meet(s)
    /\ pc' = [pc EXCEPT ![s] = "busy"]
    /\ fd' = [fd EXCEPT ![s] = NoFile]
    /\ UNCHANGED <<files, looked, leaving, forking, working, observation>>

\* Any `?` of acquire, and the refusals before the file is opened (a name or
\* a root that will not do): what is open is closed as it stands.
AcquireFails(s) ==
    /\ pc[s] \in {"new", "try", "read", "sync"}
    /\ pc' = [pc EXCEPT ![s] = "failed"]
    /\ fd' = [fd EXCEPT ![s] = NoFile]
    /\ holder' = Closed(s)
    /\ UNCHANGED <<path, marker, looked, met, leaving, forking, working,
                   observation>>

\* write_all stopped part of the way.
WriteFails(s) ==
    /\ pc[s] = "write"
    /\ \E m \in {marker[fd[s]], Torn, HeldBy(s)} :
          marker' = [marker EXCEPT ![fd[s]] = m]
    /\ pc' = [pc EXCEPT ![s] = "failed"]
    /\ fd' = [fd EXCEPT ![s] = NoFile]
    /\ holder' = Closed(s)
    /\ UNCHANGED <<path, looked, met, leaving, forking, working, observation>>

\* Slip: a free lock is taken for a free tree.
ReadByLockAlone(s) ==
    /\ pc[s] = "read"
    /\ pc' = [pc EXCEPT ![s] = "write"]
    /\ UNCHANGED <<files, fd, looked, met, leaving, forking, working,
                   observation>>

ReadTakeable(s) ==
    /\ pc[s] = "read"
    /\ marker[fd[s]] \in Takeable
    /\ pc' = [pc EXCEPT ![s] = "write"]
    /\ UNCHANGED <<files, fd, looked, met, leaving, forking, working,
                   observation>>

\* left_held, or an incomplete marker: unlocked, and refused.
RefuseMarker(s) ==
    /\ pc[s] = "read"
    /\ marker[fd[s]] \notin Takeable
    /\ pc' = [pc EXCEPT ![s] = "refused"]
    /\ fd' = [fd EXCEPT ![s] = NoFile]
    /\ holder' = Unlocked(s)
    /\ UNCHANGED <<path, marker, looked, met, leaving, forking, working,
                   observation>>

\* The held line is longer than the text it covers, so set_len adds nothing.
WriteHeld(s) ==
    /\ pc[s] = "write"
    /\ marker' = [marker EXCEPT ![fd[s]] = HeldBy(s)]
    /\ pc' = [pc EXCEPT ![s] = "sync"]
    /\ UNCHANGED <<path, holder, fd, looked, met, leaving, forking, working,
                   observation>>

\* set_len and sync_data succeed: acquire returns the guard.
Grant(s) ==
    /\ pc[s] = "sync"
    /\ pc' = [pc EXCEPT ![s] = "serving"]
    /\ UNCHANGED <<files, fd, looked, met, leaving, forking, working,
                   observation>>

-----------------------------------------------------------------------------
(* The server with the guard, until it drops it.  ExecSession is the detail *)
(* of how it ends its commands.                                            *)

Fork(s) ==
    /\ pc[s] = "serving"
    /\ forking' = forking \cup {s}
    /\ working' = working \cup {s}
    /\ UNCHANGED <<files, server, observation>>

\* The child execs: its copy of the lock file's descriptor is closed.
ChildExecs(s) ==
    /\ s \in forking
    /\ forking' = forking \ {s}
    /\ holder' = IF fd[s] = NoFile THEN Unlocked(s) ELSE holder
    /\ UNCHANGED <<path, marker, server, working, observation>>

CommandsEnd(s) ==
    /\ s \in working
    /\ s \notin forking
    /\ working' = working \ {s}
    /\ UNCHANGED <<files, server, forking, observation>>

\* left_behind: whatever still runs is named, and abandon() keeps the guard.
EndServing(s) ==
    /\ pc[s] = "serving"
    /\ \E how \in {"clean", "kept"} :
          /\ s \in working => how = "kept"
          /\ leaving' = [leaving EXCEPT ![s] = how]
    /\ pc' = [pc EXCEPT ![s] = "mark"]
    /\ UNCHANGED <<files, fd, looked, met, forking, working, observation>>

(* Drop for WriteGuard *)

MarkKept(s) ==
    /\ pc[s] = "mark"
    /\ leaving[s] = "kept"
    /\ marker' = [marker EXCEPT ![fd[s]] = KeptBy(s)]
    /\ pc' = [pc EXCEPT ![s] = "unlock"]
    /\ UNCHANGED <<path, holder, fd, looked, met, leaving, forking, working,
                   observation>>

\* "released\n" over the longer held line, whose tail set_len has yet to cut.
MarkReleased(s) ==
    /\ pc[s] = "mark"
    /\ leaving[s] = "clean"
    /\ marker' = [marker EXCEPT ![fd[s]] = Torn]
    /\ pc' = [pc EXCEPT ![s] = "trim"]
    /\ UNCHANGED <<path, holder, fd, looked, met, leaving, forking, working,
                   observation>>

\* Slip: no set_len, so the tail of the held line stays.
TrimForgotten(s) ==
    /\ pc[s] = "trim"
    /\ pc' = [pc EXCEPT ![s] = "unlock"]
    /\ UNCHANGED <<files, fd, looked, met, leaving, forking, working,
                   observation>>

TrimReleased(s) ==
    /\ pc[s] = "trim"
    /\ marker' = [marker EXCEPT ![fd[s]] = Released]
    /\ pc' = [pc EXCEPT ![s] = "unlock"]
    /\ UNCHANGED <<path, holder, fd, looked, met, leaving, forking, working,
                   observation>>

\* What an error part of the way through marking can leave in the file.
HalfMarked(s) ==
    CASE pc[s] = "trim" -> {Torn, Released}
      [] leaving[s] = "kept" -> {marker[fd[s]], KeptBy(s)}
      [] OTHER -> {marker[fd[s]], Torn}

\* The error is only logged; the unlock happens all the same.
MarkFails(s) ==
    /\ pc[s] \in {"mark", "trim"}
    /\ \E m \in HalfMarked(s) : marker' = [marker EXCEPT ![fd[s]] = m]
    /\ leaving' = [leaving EXCEPT ![s] = "unmarked"]
    /\ pc' = [pc EXCEPT ![s] = "unlock"]
    /\ UNCHANGED <<path, holder, fd, looked, met, forking, working, observation>>

\* Slip: the lock is left to the close of the descriptor, as before P34.
UnlockByClosing(s) ==
    /\ pc[s] = "unlock"
    /\ holder' = Closed(s)
    /\ fd' = [fd EXCEPT ![s] = NoFile]
    /\ pc' = [pc EXCEPT ![s] = "left"]
    /\ UNCHANGED <<path, marker, looked, met, leaving, forking, working,
                   observation>>

Unlock(s) ==
    /\ pc[s] = "unlock"
    /\ holder' = Unlocked(s)
    /\ fd' = [fd EXCEPT ![s] = NoFile]
    /\ pc' = [pc EXCEPT ![s] = "left"]
    /\ UNCHANGED <<path, marker, looked, met, leaving, forking, working,
                   observation>>

\* SIGKILL, or the process aborts: no Drop runs.
Crash(s) ==
    /\ Alive(s)
    /\ pc' = [pc EXCEPT ![s] = "crashed"]
    /\ fd' = [fd EXCEPT ![s] = NoFile]
    /\ holder' = Closed(s)
    /\ UNCHANGED <<path, marker, looked, met, leaving, forking, working,
                   observation>>

-----------------------------------------------------------------------------
(* left_held's procedure, and docs/operations.md: prove that the server and *)
(* everything it started are gone, then delete the one marker.             *)

\* Slip: the marker is deleted because the lock is free.
RecoverUnproved ==
    /\ path # NoFile
    /\ holder[path] = Nobody
    /\ path' = NoFile
    /\ UNCHANGED <<marker, holder, server, forking, working, observation>>

Recover ==
    /\ path # NoFile
    /\ marker[path] \notin Takeable
    /\ \A s \in Servers :
          marker[path].owner \in {s, Nobody} =>
              /\ s \notin working
              /\ pc[s] \notin Locked \/ fd[s] # path
    /\ path' = NoFile
    /\ UNCHANGED <<marker, holder, server, forking, working, observation>>

-----------------------------------------------------------------------------
(* observe *)

Say(o, what) ==
    /\ answer' = [answer EXCEPT ![o] = what]

ObserveNothing(o) ==
    /\ step[o] = "new"
    /\ path = NoFile
    /\ step' = [step EXCEPT ![o] = "done"]
    /\ Say(o, "free")
    /\ UNCHANGED <<files, server, forking, working, readers, seen>>

ObserveOpen(o) ==
    /\ step[o] = "new"
    /\ path # NoFile
    /\ seen' = [seen EXCEPT ![o] = path]
    /\ step' = [step EXCEPT ![o] = "ask"]
    /\ UNCHANGED <<files, server, forking, working, readers, answer>>

\* try_lock_shared: granted, or somebody has the file exclusively.
ObserveLock(o) ==
    /\ step[o] = "ask"
    /\ \/ /\ holder[seen[o]] = Nobody
          /\ readers' = [readers EXCEPT ![seen[o]] = @ \cup {o}]
          /\ step' = [step EXCEPT ![o] = "read"]
       \/ /\ holder[seen[o]] # Nobody
          /\ step' = [step EXCEPT ![o] = "live"]
          /\ UNCHANGED readers
    /\ UNCHANGED <<files, server, forking, working, seen, answer>>

\* Slip: any marker under a free lock but an abandoned one is a free tree.
MeaningByLock(m) == IF m.form = "kept" THEN "abandoned" ELSE "free"

Meaning(m) ==
    CASE m \in Takeable -> "free"
      [] m.form = "kept" -> "abandoned"
      [] OTHER -> "unknown"

ObserveRead(o) ==
    /\ step[o] = "read"
    /\ Say(o, Meaning(marker[seen[o]]))
    /\ step' = [step EXCEPT ![o] = "unlock"]
    /\ UNCHANGED <<files, server, forking, working, readers, seen>>

ObserveUnlock(o) ==
    /\ step[o] = "unlock"
    /\ readers' = [readers EXCEPT ![seen[o]] = @ \ {o}]
    /\ seen' = [seen EXCEPT ![o] = NoFile]
    /\ step' = [step EXCEPT ![o] = "done"]
    /\ UNCHANGED <<files, server, forking, working, answer>>

\* The marker is read, without the lock, only to name the holder.
ObserveLive(o) ==
    /\ step[o] = "live"
    /\ Say(o, "held")
    /\ seen' = [seen EXCEPT ![o] = NoFile]
    /\ step' = [step EXCEPT ![o] = "done"]
    /\ UNCHANGED <<files, server, forking, working, readers>>

\* The file cannot be opened, the lock cannot be asked, the text not read.
ObserveFails(o) ==
    /\ step[o] \in {"new", "ask", "read"}
    /\ Say(o, "unknown")
    /\ IF step[o] = "read"
       THEN step' = [step EXCEPT ![o] = "unlock"] /\ UNCHANGED seen
       ELSE /\ step' = [step EXCEPT ![o] = "done"]
            /\ seen' = [seen EXCEPT ![o] = NoFile]
    /\ UNCHANGED <<files, server, forking, working, readers>>

-----------------------------------------------------------------------------
Init ==
    /\ path = NoFile
    /\ marker = [f \in Files |-> Blank]
    /\ holder = [f \in Files |-> Nobody]
    /\ readers = [f \in Files |-> {}]
    /\ pc = [s \in Servers |-> "new"]
    /\ fd = [s \in Servers |-> NoFile]
    /\ looked = [s \in Servers |-> 0]
    /\ met = {}
    /\ leaving = [s \in Servers |-> "clean"]
    /\ forking = {}
    /\ working = {}
    /\ step = [o \in Observations |-> "new"]
    /\ seen = [o \in Observations |-> NoFile]
    /\ answer = [o \in Observations |-> "none"]

Acquire(s) ==
    \/ Open(s) \/ TryLock(s) \/ LookBusy(s) \/ Wake(s) \/ RefuseBusy(s)
    \/ AcquireFails(s) \/ WriteFails(s) \/ ReadTakeable(s) \/ RefuseMarker(s)
    \/ WriteHeld(s) \/ Grant(s)

Hold(s) == Fork(s) \/ ChildExecs(s) \/ CommandsEnd(s) \/ EndServing(s)

Drop(s) ==
    \/ MarkKept(s) \/ MarkReleased(s) \/ TrimReleased(s) \/ MarkFails(s)
    \/ Unlock(s)

Observe(o) ==
    \/ ObserveNothing(o) \/ ObserveOpen(o) \/ ObserveLock(o) \/ ObserveRead(o)
    \/ ObserveUnlock(o) \/ ObserveLive(o) \/ ObserveFails(o)

Next ==
    \/ \E s \in Servers : Acquire(s) \/ Hold(s) \/ Drop(s) \/ Crash(s)
    \/ \E o \in Observations : Observe(o)
    \/ Recover

Spec == Init /\ [][Next]_vars

-----------------------------------------------------------------------------
(* Properties *)

\* Every variable keeps its type.
TypeOK ==
    /\ path \in Files \cup {NoFile}
    /\ marker \in [Files -> Markers]
    /\ holder \in [Files -> Servers \cup {Nobody}]
    /\ readers \in [Files -> SUBSET Observations]
    /\ pc \in [Servers -> {"new"} \cup Opened \cup Locked \cup Gone]
    /\ fd \in [Servers -> Files \cup {NoFile}]
    /\ looked \in [Servers -> 0..BusyRetries]
    /\ met \in SUBSET Servers
    /\ leaving \in [Servers -> {"clean", "kept", "unmarked"}]
    /\ forking \in SUBSET Servers
    /\ working \in SUBSET Servers
    /\ step \in [Observations ->
                    {"new", "ask", "read", "live", "unlock", "done"}]
    /\ seen \in [Observations -> Files \cup {NoFile}]
    /\ answer \in [Observations ->
                    {"none", "free", "held", "abandoned", "unknown"}]

\* No unknown old writer beside a new one: while a server has authority no
\* other has it, and nothing another server started still runs -- across
\* crashes, half-written markers, deleted markers and reopened inodes.
OneWriter ==
    \A s \in Servers : pc[s] = "serving" =>
        \A t \in Servers \ {s} : pc[t] # "serving" /\ t \notin working

\* A server that ended through Drop, or was refused for what the marker said,
\* holds no lock, whatever children still share its descriptor (P34).
ExplicitUnlock ==
    \A s \in Servers : pc[s] \in {"left", "refused"} =>
        \A f \in Files : holder[f] # s

\* A tree nobody holds is refused to the next writer only for cause: its
\* marker's owner crashed, met an I/O error, or kept it on purpose.
StrandedForCause ==
    path # NoFile /\ holder[path] = Nobody /\ marker[path] \notin Takeable =>
        \E s \in Servers :
            /\ marker[path].owner \in {s, Nobody}
            /\ \/ pc[s] \in {"crashed", "failed"}
               \/ leaving[s] \in {"kept", "unmarked"}

\* When an observation says "free", no server has authority and nothing that
\* any server started still runs.
FreeIsTrueWhenSaid ==
    [][\A o \in Observations :
          answer'[o] = "free" /\ answer[o] # "free" =>
              working = {} /\ \A s \in Servers : pc[s] # "serving"]_vars

\* A diagnostic never makes a writer be refused as busy (P60): one of the
\* looks met somebody's exclusive lock.  For at most BUSY_RETRIES observations,
\* each over before the writer looks again.
BusyMeansOwned == \A s \in Servers : pc[s] = "busy" => s \in met

\* The guard keeps the promise of SingleWriter.
Writer ==
    IF \E s \in Servers : pc[s] = "serving"
    THEN CHOOSE s \in Servers : pc[s] = "serving"
    ELSE Nobody

Promise == INSTANCE SingleWriter WITH writer <- Writer

KeepsPromise == Promise!Spec

-----------------------------------------------------------------------------
(* What every step preserves, and OneWriter follows from. *)

\* The servers between reading a marker they may take and letting go of it.
Writing == {"write", "sync", "serving", "mark", "trim"}

\* A server has a file open exactly while it runs past Open.
OpenFiles ==
    \A s \in Servers :
        (fd[s] # NoFile) <=> (pc[s] \in Opened \cup Locked)

\* Past TryLock a server has the lock of the file it opened.
Locks == \A s \in Servers : pc[s] \in Locked => holder[fd[s]] = s

\* Anyone else with a lock died with a child that shares it.
Holders ==
    \A f \in Files, s \in Servers : holder[f] = s =>
        (pc[s] \in Locked /\ fd[s] = f) \/ pc[s] \in {"crashed", "failed"}

\* An open file whose name is gone has a marker that is refused.
Stale ==
    \A s \in Servers : fd[s] # NoFile /\ fd[s] # path =>
        marker[fd[s]] \notin Takeable

\* Whoever writes a marker writes the one the name leads to.
Named == \A s \in Servers : pc[s] \in Writing => fd[s] = path

\* What the marker says in each phase of the server that writes it.
Marks ==
    \A s \in Servers :
        /\ pc[s] = "write" => marker[fd[s]] \in Takeable
        /\ pc[s] \in {"sync", "serving", "mark"} => marker[fd[s]] = HeldBy(s)
        /\ pc[s] = "trim" => marker[fd[s]] = Torn
        /\ pc[s] = "mark" /\ leaving[s] # "kept" => s \notin working

\* Whatever still runs is named by the marker under the file's name.
Leftovers ==
    \A s \in working :
        path # NoFile /\ marker[path] \in {HeldBy(s), KeptBy(s)}

\* Only a server that had authority started anything.
Began ==
    \A s \in working : pc[s] \notin {"new", "busy", "refused", "failed"} \cup Opened

GuardInv ==
    /\ OpenFiles /\ Locks /\ Holders
    /\ Stale /\ Named /\ Marks
    /\ Leftovers /\ Began

\* What an observation relies on: the shared lock it took keeps every writer
\* out, and an inode it has open under no name is marked.
ObserveInv ==
    /\ \A o \in Observations : step[o] \in {"read", "unlock"} =>
            seen[o] # NoFile /\ o \in readers[seen[o]]
    /\ \A o \in Observations :
            seen[o] # NoFile <=> step[o] \in {"ask", "read", "live", "unlock"}
    /\ \A f \in Files : readers[f] # {} => holder[f] = Nobody
    /\ \A f \in Files : \A o \in readers[f] :
            seen[o] = f /\ step[o] \in {"read", "unlock"}
    /\ \A o \in Observations : seen[o] # NoFile /\ seen[o] # path =>
            marker[seen[o]] \notin Takeable

\* Where each marker that is refused came from.
Failed(s) == pc[s] \in {"crashed", "failed"} \/ leaving[s] = "unmarked"

Causes ==
    /\ \A s \in Servers : pc[s] \in {"new", "serving"} \cup Opened =>
            leaving[s] = "clean"
    /\ \A f \in Files :
        /\ \A s \in Servers : marker[f] = HeldBy(s) =>
                \/ pc[s] \in {"sync", "serving", "mark"} /\ fd[s] = f
                \/ Failed(s)
        /\ \A s \in Servers : marker[f] = KeptBy(s) =>
                leaving[s] = "kept" \/ Failed(s)
        /\ marker[f] = Torn =>
                \E s \in Servers : (pc[s] = "trim" /\ fd[s] = f) \/ Failed(s)
=============================================================================
