----------------------------- MODULE Retention -----------------------------
(***************************************************************************)
(* What commands wrote (mcp/retention.rs, mcp/output.rs): the runs kept in *)
(* the output directory of one session, by one server or by two (a managed *)
(* session's reconnect starts a second), while another session's server    *)
(* sweeps what nobody serves, and a client pages through one run.          *)
(*                                                                         *)
(* A run is in progress while its `running` file is there and locked.  The *)
(* order of the runs is that of the last change of their directories.      *)
(* Removing a directory is one step.  Fewer than RunsLimit commands run at *)
(* once.  What may go wrong:                                               *)
(*   "kill"   a server is killed                                           *)
(*   "fork"   a child has a copy of a lock until it execs                  *)
(*   "spawn"  a command cannot be started                                  *)
(***************************************************************************)
EXTENDS OutputPage, SequencesExt

CONSTANTS
    Runs,
    Servers,
    RunsLimit,      \* Limits::runs
    BytesLimit,     \* Limits::session_bytes
    PageLimits,     \* the limits a client asks pages of
    Settings        \* sets of [streams, by, faults, external, sweeps, reads]:
                    \* what each run writes, its server, what goes wrong,
                    \* whether the session is an external client's, whether
                    \* it is swept, and which run is read

ASSUME LimitsAssumption ==
    /\ RunsLimit \in Nat \ {0}
    /\ BytesLimit \in Nat
    /\ PageLimits \subseteq Nat \ {0}

ASSUME RunsAssumption == IsFiniteSet(Runs)

ASSUME SettingsAssumption ==
    \A s \in Settings :
        /\ s.streams \in [Runs -> Seq(Bytes)]
        /\ DOMAIN s.by \subseteq Runs /\ s.by \in [DOMAIN s.by -> Servers]
        /\ s.external \in BOOLEAN /\ s.sweeps \in BOOLEAN

VARIABLES
    setting,
    serving,    \* the servers that serve the session
    pc,         \* pc[r]: where the thread of run r is
    written,    \* written[r]: how much of its stream is on disk
    disk,       \* the runs in the directory, the longest unchanged first
    marks,      \* the runs whose `running` file is there
    copies,     \* the runs of whose lock a child has a copy
    plan,       \* plan[r]: the eviction that r's thread is in
    crowded,    \* history: runs that made their plan while another ran
    old,        \* nothing in the directory changed for Limits::expiry
    sweep,      \* where the sweep is
    reader      \* the client that pages through setting.reads

directory == <<disk, marks>>
others == <<setting, serving, copies, sweep>>
retained == <<setting, serving, pc, written, disk, marks, copies, plan,
              crowded, old, sweep, reader>>

NoPlan == [todo |-> <<>>, keep |-> 0, count |-> 0, bytes |-> 0]

Init ==
    /\ setting \in Settings
    /\ serving = {}
    /\ pc = [r \in Runs |-> "idle"]
    /\ written = [r \in Runs |-> 0]
    /\ disk = <<>>
    /\ marks = {}
    /\ copies = {}
    /\ plan = [r \in Runs |-> NoPlan]
    /\ crowded = {}
    /\ old = FALSE
    /\ sweep = "idle"
    /\ reader = [pc |-> "asks", from |-> 0, limit |-> 0, running |-> TRUE,
                 total |-> 0, page |-> Page(<<>>, 0, 0, 1, TRUE)]

Stream(r) == setting.streams[r]
By(r) == setting.by[r]
RunsBy(s) == {r \in DOMAIN setting.by : By(r) = s}
Faulty(f) == f \in setting.faults

Kept == ToSet(disk)
Holding(r) == pc[r] \in {"running", "ended", "fitting"}
Active(r) == pc[r] = "making" \/ Holding(r)

-----------------------------------------------------------------------------
\* Slip: a lock that is held is a run in progress, whatever became of its file.
InProgressByLock(r) == r \in Kept /\ (Holding(r) \/ r \in copies)

\* probe(): the `running` file is there and a shared lock on it is refused.
InProgress(r) == r \in Kept /\ r \in marks /\ (Holding(r) \/ r \in copies)

\* How many bytes the runs of a set have on disk: a byte is a run and a place.
SumOf(set) == Cardinality(UNION {{r} \X (1 .. written[r]) : r \in set})

\* The members of a sequence that are in a set, in the same order.
Picked(seq, set) ==
    LET at == {i \in DOMAIN seq : seq[i] \in set}
        rank(i) == Cardinality({j \in at : j <= i})
    IN  [k \in 1 .. Cardinality(at) |-> seq[CHOOSE i \in at : rank(i) = k]]

\* Slip: what is in progress is not counted, and is removed all the same.
ListingOfAll(current, keep) ==
    [todo |-> Picked(disk, Kept \ current),
     keep |-> keep,
     count |-> Cardinality(Kept),
     bytes |-> SumOf({r \in Kept : r \in current \/ ~InProgress(r)})]

\* evict(): looked at once.  What is in progress is neither removed nor
\* counted, but for `current`, which is counted.
Listing(current, keep) ==
    LET done == {r \in Kept : r \notin current /\ ~InProgress(r)}
    IN  [todo |-> Picked(disk, done),
         keep |-> keep,
         count |-> Cardinality(Kept),
         bytes |-> SumOf(done \cup current)]

Over(p) == p.count > p.keep \/ p.bytes > BytesLimit
Done(p) == p.todo = <<>> \/ ~Over(p)

Without(gone) == Picked(disk, Kept \ gone)
Touched(r) == Append(Without({r}), r)

\* The oldest goes, or has gone already.
Evict(r) ==
    /\ pc[r] \in {"making", "fitting"}
    /\ ~Done(plan[r])
    /\ LET q == Head(plan[r].todo)
       IN  /\ disk' = Without({q})
           /\ marks' = marks \ {q}
           /\ plan' = [plan EXCEPT ![r].todo = Tail(@), ![r].count = @ - 1,
                                   ![r].bytes = @ - written[q]]
    /\ old' = FALSE
    /\ UNCHANGED <<others, pc, written, crowded, reader>>

-----------------------------------------------------------------------------
(* One run: Output::begin, the command, Output::finish, Drop for Run *)

Begin(r) ==
    /\ pc[r] = "idle"
    /\ r \in DOMAIN setting.by
    /\ By(r) \in serving
    /\ Cardinality({q \in Runs : Active(q)}) < RunsLimit
    /\ plan' = [plan EXCEPT ![r] = Listing({}, RunsLimit - 1)]
    /\ pc' = [pc EXCEPT ![r] = "making"]
    /\ UNCHANGED <<others, directory, written, crowded, old, reader>>

\* Renamed to its name with its marker locked.
Place(r) ==
    /\ pc[r] = "making"
    /\ Done(plan[r])
    /\ disk' = Append(disk, r)
    /\ marks' = marks \cup {r}
    /\ pc' = [pc EXCEPT ![r] = "running"]
    /\ plan' = [plan EXCEPT ![r] = NoPlan]
    /\ old' = FALSE
    /\ UNCHANGED <<others, written, crowded, reader>>

Write(r) ==
    /\ pc[r] = "running"
    /\ written[r] < Len(Stream(r))
    /\ written' = [written EXCEPT ![r] = @ + 1]
    /\ UNCHANGED <<others, directory, pc, plan, crowded, old, reader>>

\* Waited for, and a background command's final status written.
End(r) ==
    /\ pc[r] = "running"
    /\ pc' = [pc EXCEPT ![r] = "ended"]
    /\ disk' = Touched(r)
    /\ old' = FALSE
    /\ UNCHANGED <<others, written, marks, plan, crowded, reader>>

\* Slip: the marker goes before room is made.
FinishUnmarked(r) ==
    /\ pc[r] = "ended"
    /\ plan' = [plan EXCEPT ![r] = Listing({r}, RunsLimit)]
    /\ marks' = marks \ {r}
    /\ pc' = [pc EXCEPT ![r] = "fitting"]
    /\ UNCHANGED <<others, disk, written, crowded, old, reader>>

Finish(r) ==
    /\ pc[r] = "ended"
    /\ plan' = [plan EXCEPT ![r] = Listing({r}, RunsLimit)]
    /\ crowded' = IF \E q \in Runs \ {r} : InProgress(q)
                  THEN crowded \cup {r} ELSE crowded
    /\ pc' = [pc EXCEPT ![r] = "fitting"]
    /\ UNCHANGED <<others, directory, written, old, reader>>

\* The marker, and then the lock.
LetGo(r) ==
    /\ pc[r] = "fitting"
    /\ Done(plan[r])
    /\ disk' = IF r \in Kept THEN Touched(r) ELSE disk
    /\ marks' = marks \ {r}
    /\ pc' = [pc EXCEPT ![r] = "over"]
    /\ plan' = [plan EXCEPT ![r] = NoPlan]
    /\ old' = FALSE
    /\ UNCHANGED <<others, written, crowded, reader>>

\* The run is dropped, and nothing is made to fit.
SpawnFails(r) ==
    /\ Faulty("spawn")
    /\ pc[r] = "running"
    /\ written[r] = 0
    /\ disk' = Touched(r)
    /\ marks' = marks \ {r}
    /\ pc' = [pc EXCEPT ![r] = "unstarted"]
    /\ old' = FALSE
    /\ UNCHANGED <<others, written, plan, crowded, reader>>

\* A thread of the server forks while locks are open: the child, one at a time,
\* has copies of them until it execs.
Fork(s) ==
    /\ Faulty("fork")
    /\ copies = {}
    /\ copies' = {r \in RunsBy(s) : Holding(r)}
    /\ copies' # {}
    /\ UNCHANGED <<setting, serving, sweep, directory, pc, written, plan,
                   crowded, old, reader>>

Exec ==
    /\ copies # {}
    /\ copies' = {}
    /\ UNCHANGED <<setting, serving, sweep, directory, pc, written, plan,
                   crowded, old, reader>>

-----------------------------------------------------------------------------
(* Servers, and the sweep that another session's server runs as it starts *)

\* Not between the sweep's question and its removal: see the README.  An
\* external client never comes back to a session.
Serve(s) ==
    /\ s \notin serving
    /\ RunsBy(s) # {}
    /\ setting.external => \A r \in Runs : pc[r] = "idle"
    /\ sweep \in {"idle", "over"}
    /\ serving' = serving \cup {s}
    /\ UNCHANGED <<setting, directory, pc, written, copies, plan, crowded, old,
                   sweep, reader>>

\* run() ends when its commands have; an external client's server takes what
\* it started with it (discard_started).
Leave(s) ==
    /\ s \in serving
    /\ \A r \in RunsBy(s) : ~Active(r)
    /\ serving' = serving \ {s}
    /\ LET gone == IF setting.external
                   THEN {r \in RunsBy(s) : ~InProgress(r)} ELSE {}
       IN  /\ disk' = Without(gone)
           /\ marks' = marks \ gone
    /\ UNCHANGED <<setting, pc, written, copies, plan, crowded, old, sweep,
                   reader>>

Kill(s) ==
    /\ Faulty("kill")
    /\ s \in serving
    /\ serving' = serving \ {s}
    /\ pc' = [r \in Runs |->
                IF r \in RunsBy(s) /\ Active(r) THEN "dead" ELSE pc[r]]
    /\ plan' = [r \in Runs |-> IF r \in RunsBy(s) THEN NoPlan ELSE plan[r]]
    /\ UNCHANGED <<setting, directory, written, copies, crowded, old, sweep,
                   reader>>

Expire ==
    /\ setting.sweeps
    /\ ~old
    /\ disk # <<>>
    /\ old' = TRUE
    /\ UNCHANGED <<others, directory, pc, written, plan, crowded, reader>>

SweepGoes(to) ==
    /\ sweep' = to
    /\ UNCHANGED <<setting, serving, copies, pc, written, plan, crowded, old,
                   reader>>

\* try_scan_servers: whom ps shows.
SweepAsks ==
    /\ sweep = "idle"
    /\ SweepGoes(IF serving = {} THEN "asked" ELSE "over")
    /\ UNCHANGED directory

SweepLooks ==
    /\ sweep = "asked"
    /\ SweepGoes(IF old /\ ~\E r \in Kept : InProgress(r)
                 THEN "clearing" ELSE "over")
    /\ UNCHANGED directory

SweepRemoves ==
    /\ sweep = "clearing"
    /\ disk' = <<>>
    /\ marks' = {}
    /\ SweepGoes("over")

-----------------------------------------------------------------------------
(* read_output of a background command *)

Read == setting.reads
OnDisk == SubSeq(Stream(Read), 1, written[Read])

\* The client goes on where the last page said, or anywhere else.
Ask ==
    /\ Read \in Runs
    /\ reader.pc = "asks"
    /\ Read \in Kept
    /\ \E n \in PageLimits, at \in 0 .. written[Read] :
          reader' = [reader EXCEPT !.pc = "looks", !.limit = n, !.from = at]
    /\ UNCHANGED <<others, directory, pc, written, plan, crowded, old>>

\* Its status says that it has not ended, and its lock that it is in progress.
Running == pc[Read] \in {"running", "dead"} /\ InProgress(Read)

Look ==
    /\ reader.pc = "looks"
    /\ reader' = [reader EXCEPT !.pc = "stats", !.running = Running]
    /\ UNCHANGED <<others, directory, pc, written, plan, crowded, old>>

Stat ==
    /\ reader.pc = "stats"
    /\ reader' = [reader EXCEPT !.pc = "reads", !.total = written[Read]]
    /\ UNCHANGED <<others, directory, pc, written, plan, crowded, old>>

\* Slip: what counts is whether it runs after the bytes were counted.
RunningNow == Running

RunningThen == reader.running

TakePage ==
    /\ reader.pc = "reads"
    /\ Read \in Kept
    /\ reader' = [reader EXCEPT !.pc = "has", !.running = RunningThen,
                    !.page = Page(OnDisk, reader.total, reader.from,
                                  reader.limit, RunningThen)]
    /\ UNCHANGED <<others, directory, pc, written, plan, crowded, old>>

\* The next call; after a page, or because the run is no longer kept.
AskAgain ==
    /\ \/ reader.pc = "has" /\ ~reader.page.eof
       \/ reader.pc \in {"looks", "stats", "reads"} /\ Read \notin Kept
    /\ reader' = [reader EXCEPT !.pc = "asks"]
    /\ UNCHANGED <<others, directory, pc, written, plan, crowded, old>>

-----------------------------------------------------------------------------
RunStep(r) ==
    \/ Begin(r) \/ Evict(r) \/ Place(r) \/ Write(r) \/ End(r) \/ Finish(r)
    \/ LetGo(r) \/ SpawnFails(r)
Sweep == Expire \/ SweepAsks \/ SweepLooks \/ SweepRemoves
Reader == Ask \/ Look \/ Stat \/ TakePage \/ AskAgain

Next ==
    \/ \E r \in Runs : RunStep(r)
    \/ \E s \in Servers : Serve(s) \/ Leave(s) \/ Kill(s) \/ Fork(s)
    \/ Exec
    \/ Sweep
    \/ Reader

Spec == Init /\ [][Next]_retained

-----------------------------------------------------------------------------
(* Properties *)

TypeOK ==
    /\ serving \subseteq Servers
    /\ pc \in [Runs -> {"idle", "making", "running", "ended", "fitting", "over",
                        "unstarted", "dead"}]
    /\ \A r \in Runs : written[r] \in 0 .. Len(Stream(r))
    /\ IsInjective(disk) /\ Kept \subseteq Runs
    /\ marks \subseteq Kept
    /\ copies \subseteq Runs /\ crowded \subseteq Runs
    /\ \A r \in Runs : plan[r].bytes >= 0 /\ plan[r].count >= 0
    /\ old \in BOOLEAN
    /\ sweep \in {"idle", "asked", "clearing", "over"}
    /\ reader.pc \in {"asks", "looks", "stats", "reads", "has"}

\* Nothing removes a run in progress, whoever makes room, in which server, and
\* whatever has been looked at before: what a command writes, and what its call
\* is about to answer with, is there until the run lets go of it.
KeptWhileRunning == \A r \in Runs : Holding(r) => r \in Kept

\* Once nothing runs, what is left fits the limits of the session, whoever
\* crashed, and although a child still has a copy of a lock.  But for runs that
\* never came to finish(), and for the bytes of runs that finished side by side,
\* each of which took the other to be in progress.  Of one run, the two
\* per_stream always fit session_bytes.
FitsWhenQuiet ==
    (\A r \in Runs : ~Active(r) /\ Len(Stream(r)) <= BytesLimit) =>
        LET short == {r \in Runs : pc[r] \in {"unstarted", "dead"}}
        IN  /\ Cardinality(Kept \ short) <= RunsLimit
            /\ SumOf(Kept \ (short \cup crowded)) <= BytesLimit

\* A page starts where it was asked to, or with the character after the one
\* asked into; it ends between characters, or at the end of all that will ever
\* be written, and only then says so; and it never stands still, at least not
\* with a limit that holds any character.
PageIsWhole ==
    reader.pc = "has" =>
        LET page == reader.page
        IN  /\ Seam(Stream(Read), reader.from) => page.start = reader.from
            /\ page.start <= FirstSeam(Stream(Read), reader.from)
            /\ page.eof => pc[Read] # "running" /\ page.end = written[Read]
            /\ ~page.eof /\ page.end > page.start => Seam(Stream(Read), page.end)
            /\ page.small => reader.limit <= MaxContinuation
            /\ page.end > page.start \/ page.eof \/ page.small \/ reader.running
=============================================================================
