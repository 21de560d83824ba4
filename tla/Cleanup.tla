------------------------------ MODULE Cleanup ------------------------------
(***************************************************************************)
(* `ccnm cleanup` and `ccnm rm --purge` of one workspace (cleanup.rs): an  *)
(* Operator asks one Agent what could go, the Agent asks the Runtime, and  *)
(* on apply each removes what is still as it was shown, the Runtime first. *)
(* A session is on the Agent its start chose, and --on may choose any: the *)
(* Operator remembers the last such, the only one a purge asks, where a    *)
(* cleanup asks the workspace's own.                                       *)
(* Meanwhile sessions start and end, and servers run commands, hold the    *)
(* write guard and are killed.  A call that is given up goes on at its far *)
(* end.  The Operator's own results are RpcSession!Clean.                  *)
(*                                                                         *)
(* What may go wrong (Faults):                                             *)
(*   "ssh"   a call fails, whether or not its far side goes on             *)
(*   "ps"    the Runtime cannot list its processes                         *)
(*   "io"    a directory is not removed, or is locked just then            *)
(*   "kill"  a server is killed                                            *)
(*   "late"  a server whose session has ended takes the guard after all    *)
(*   "unnamed"  who looks at a held guard finds its marker not yet written *)
(*   "config"   a purge cannot tell where the workspace is, or the Agent   *)
(*              remembered is no longer in the config                      *)
(***************************************************************************)
EXTENDS Integers, FiniteSets

CONSTANTS
    SessionIds,
    Old,            \* the sessions that ended before, and left output
    Agents,
    Own,            \* the workspace's own Agent, where nothing else is said
    Placements,     \* which Agents the sessions may be started on
    Ops,            \* the cleanups and purges that are made
    Faults,
    Versions        \* how often what a session keeps may change

ASSUME VersionsAssumption == Versions \in Nat

Unresolved == "unresolved"

ASSUME AgentsAssumption ==
    /\ Own \in Agents /\ Unresolved \notin Agents
    /\ Old \subseteq SessionIds
    /\ Placements \subseteq [SessionIds -> Agents]

VARIABLES
    configured,     \* the workspace is in the Operator's config
    last,           \* the Agent the Operator remembers, or else Own
    record,         \* record[s]: of session s, on its Agent
    at,             \* at[s]: the Agent it is started on, or was
    workdir,        \* workdir[a]: Agent a has the workspace's working directory
    output,         \* output[s]: on the Runtime
    server,         \* server[s]: on the Runtime
    guard,          \* the write guard: the session that has it, and whether
                    \* a look at it can tell
    op,             \* op[o]: the Operator's process
    call,           \* call[o]: the Agent's end of its last call
    far,            \* far[o]: the Runtime's end of the Agent's
    missed          \* history: missed[o]: sessions started since o looked

world == <<configured, last, record, at, workdir, output, server, guard>>
cleanup == <<world, op, call, far, missed>>

Nobody == "nobody"

ASSUME NobodyAssumption == Nobody \notin SessionIds

Free == [by |-> Nobody, clear |-> TRUE]

NoItems == [told |-> FALSE, asked |-> FALSE, workdir |-> "none",
            records |-> [s \in {} |-> FALSE],
            outputs |-> [s \in {} |-> [version |-> 0, remove |-> FALSE]]]

Idle == [pc |-> "idle", purge |-> FALSE, agent |-> Own, items |-> NoItems]
NoCall == [pc |-> "none", agent |-> Own, asked |-> NoItems, found |-> [s \in {} |-> "ended"],
           workdir |-> "none", items |-> NoItems, seen |-> Nobody,
           gone |-> {}, todo |-> {}, done |-> {}]
NoFar == [pc |-> "none", seen |-> Nobody, live |-> {},
          listing |-> NoItems.outputs, todo |-> {}, done |-> {}]

Init ==
    /\ configured = TRUE
    /\ record = [s \in SessionIds |-> IF s \in Old THEN "ended" ELSE "none"]
    /\ at \in Placements
    /\ last \in {Own} \cup {at[s] : s \in Old}
    /\ workdir = [a \in Agents |-> \E s \in Old : at[s] = a]
    /\ output = [s \in SessionIds |-> [kept |-> s \in Old, version |-> 0]]
    /\ server = [s \in SessionIds |-> "none"]
    /\ guard = Free
    /\ op = [o \in Ops |-> Idle]
    /\ call = [o \in Ops |-> NoCall]
    /\ far = [o \in Ops |-> NoFar]
    /\ missed = [o \in Ops |-> {}]

-----------------------------------------------------------------------------
(* Sessions and their servers *)

Recorded(s) == record[s] \in {"live", "ended", "lost"}

\* On the workspace's own Agent or another (--on), which is remembered then,
\* unless it only prints or the memory cannot be written.
Start(s) ==
    /\ configured
    /\ record[s] = "none"
    /\ record' = [record EXCEPT ![s] = "live"]
    /\ last' \in {last, at[s]}
    /\ workdir' = [workdir EXCEPT ![at[s]] = TRUE]
    /\ missed' = [o \in Ops |-> missed[o] \cup {s}]
    /\ UNCHANGED <<configured, at, output, server, guard, op, call, far>>

\* The next start without --on goes back to its own, unless a session lives on
\* the Agent remembered, and that can be asked; so does every command when that
\* Agent is no longer in the config.
MakeWay ==
    /\ configured
    /\ last # Own
    /\ \/ {"ssh", "config"} \cap Faults # {}
       \/ \A s \in SessionIds : at[s] = last => record[s] # "live"
    /\ last' = Own
    /\ UNCHANGED <<configured, record, at, workdir, output, server, guard, op, call,
                   far, missed>>

\* It ends, or nobody can tell whether it has; which may be found out later.
SessionEnds(s) ==
    /\ \/ record[s] = "live" /\ record' \in {[record EXCEPT ![s] = "ended"],
                                             [record EXCEPT ![s] = "lost"]}
       \/ record[s] = "lost" /\ record' = [record EXCEPT ![s] = "ended"]
    /\ UNCHANGED <<configured, last, at, workdir, output, server, guard, op, call,
                   far, missed>>

OnRuntime ==
    UNCHANGED <<configured, last, record, at, workdir, op, call, far, missed>>

Serve(s) ==
    /\ record[s] = "live"
    /\ server[s] = "none"
    /\ server' = [server EXCEPT ![s] = "serving"]
    /\ UNCHANGED <<output, guard>>
    /\ OnRuntime

Command(s) ==
    /\ record[s] = "live"
    /\ server[s] = "serving"
    /\ output[s].version < Versions
    /\ server' = [server EXCEPT ![s] = "running"]
    /\ output' = [output EXCEPT ![s] = [kept |-> TRUE, version |-> @.version + 1]]
    /\ UNCHANGED guard
    /\ OnRuntime

CommandEnds(s) ==
    /\ server[s] = "running"
    /\ output[s].version < Versions
    /\ server' = [server EXCEPT ![s] = "serving"]
    /\ output' = [output EXCEPT ![s].version = @ + 1]
    /\ UNCHANGED guard
    /\ OnRuntime

Acquire(s) ==
    /\ server[s] # "none"
    /\ record[s] = "live" \/ "late" \in Faults
    /\ guard = Free
    /\ guard' = [by |-> s, clear |-> TRUE]
    /\ UNCHANGED <<server, output>>
    /\ OnRuntime

\* Its client went away: it lets go of the guard and ends.
Leave(s) ==
    /\ server[s] = "serving"
    /\ server' = [server EXCEPT ![s] = "none"]
    /\ guard' = IF guard.by = s THEN Free ELSE guard
    /\ UNCHANGED output
    /\ OnRuntime

\* What it held is abandoned, and may name nobody readable.
Kill(s) ==
    /\ "kill" \in Faults
    /\ server[s] # "none"
    /\ server' = [server EXCEPT ![s] = "none"]
    /\ \/ guard' = guard
       \/ guard.by = s /\ guard' = [guard EXCEPT !.clear = FALSE]
    /\ UNCHANGED output
    /\ OnRuntime

\* A person recovers an abandoned guard.
Recover ==
    /\ guard.by # Nobody
    /\ server[guard.by] = "none"
    /\ guard' = Free
    /\ UNCHANGED <<server, output>>
    /\ OnRuntime

-----------------------------------------------------------------------------
(* The Agent's and the Runtime's half of a call *)

\* agent_items(): session_state() of each record this Agent has.
Found(a) == [s \in {s \in SessionIds : Recorded(s) /\ at[s] = a} |-> record[s]]

\* Of the working directory, only for a purge.
FoundWorkdir(o) ==
    LET found == Found(op[o].agent)
    IN  CASE ~op[o].purge \/ ~workdir[op[o].agent] -> "none"
          [] \E s \in DOMAIN found : found[s] # "ended" -> "keep"
          [] OTHER -> "remove"

Asks(o, pc, items) ==
    /\ op' = [op EXCEPT ![o].pc = pc]
    /\ call' = [call EXCEPT ![o] = [NoCall EXCEPT
                    !.pc = "found", !.agent = op[o].agent, !.asked = items,
                    !.found = Found(op[o].agent), !.workdir = FoundWorkdir(o)]]
    /\ far' = [far EXCEPT ![o] = [NoFar EXCEPT !.pc = "asked"]]

Applies(o) == call[o].asked # NoItems

AtFar == UNCHANGED <<world, op, call, missed>>

\* What there is to see: of a guard that is held, perhaps no owner yet; of one
\* that was abandoned, perhaps none that can be read.
Sights ==
    IF guard.by # Nobody /\ server[guard.by] # "none"
    THEN {guard.by} \cup (IF "unnamed" \in Faults THEN {Nobody} ELSE {})
    ELSE {IF guard.clear THEN guard.by ELSE "unclear"}

\* write_guard::observe(), before ps is asked.
Observe(o) ==
    /\ far[o].pc = "asked"
    /\ \E seen \in Sights :
          far' = [far EXCEPT ![o].pc = "observed", ![o].seen = seen]
    /\ AtFar

\* If ps cannot say, nothing is known not to be served.
Scan(o) ==
    /\ far[o].pc = "observed"
    /\ \E live \in {{s \in SessionIds : server[s] # "none"}}
                      \cup (IF "ps" \in Faults THEN {SessionIds} ELSE {}) :
          far' = [far EXCEPT ![o].pc = "scanned", ![o].live = live]
    /\ AtFar

\* Slip: a guard that names nobody readable keeps nothing.
GuardedIfNamed(seen, s) == seen = s

Guarded(seen, s) == seen \in {s, "unclear"}

\* runtime_item(): what its plan turns on.
Removable(o, s) ==
    /\ call[o].found[s] = "ended"
    /\ ~Guarded(far[o].seen, s)
    /\ s \notin far[o].live
    /\ server[s] # "running"

List(o) ==
    /\ far[o].pc = "scanned"
    /\ far' = [far EXCEPT
          ![o].listing = [s \in {s \in DOMAIN call[o].found : output[s].kept} |->
                            [version |-> output[s].version,
                             remove |-> Removable(o, s)]],
          ![o].todo = {s \in DOMAIN call[o].asked.outputs :
                         call[o].asked.outputs[s].remove},
          ![o].live = {},
          ![o].pc = "removes"]
    /\ AtFar

StillSo(o, s) ==
    /\ s \in DOMAIN far[o].listing
    /\ far[o].listing[s].remove
    /\ far[o].listing[s].version = call[o].asked.outputs[s].version

\* apply_runtime(), of each item asked for.
RemoveOutput(o) ==
    /\ far[o].pc = "removes"
    /\ \E s \in far[o].todo :
          \/ /\ StillSo(o, s)
             /\ output' = [output EXCEPT ![s].kept = FALSE]
             /\ far' = [far EXCEPT ![o].todo = @ \ {s}, ![o].done = @ \cup {s}]
          \/ /\ ~StillSo(o, s) \/ "io" \in Faults
             /\ far' = [far EXCEPT ![o].todo = @ \ {s}]
             /\ UNCHANGED output
    /\ UNCHANGED <<configured, last, record, at, workdir, server, guard, op, call,
                   missed>>

\* What the Agent makes of its own listing and of what the Runtime said.
Items(o, asked, seen, outputs) ==
    [told |-> TRUE, asked |-> asked, workdir |-> call[o].workdir,
     outputs |-> outputs,
     records |-> [s \in DOMAIN call[o].found |->
                    /\ call[o].found[s] = "ended"
                    /\ asked
                    /\ ~Guarded(seen, s)
                    /\ s \in DOMAIN outputs => outputs[s].remove]]

\* Slip: whatever was found goes.
RecordsFound(o) == DOMAIN call[o].found

RecordsToGo(o) ==
    {s \in DOMAIN call[o].asked.records : call[o].asked.records[s]}

Heard(o, asked, seen, outputs, gone) ==
    /\ call' = [call EXCEPT
          ![o].items = IF Applies(o) THEN NoItems
                       ELSE Items(o, asked, seen, outputs),
          ![o].seen = seen,
          ![o].gone = gone,
          ![o].todo = RecordsToGo(o),
          ![o].pc = "removes"]
    /\ far' = IF asked \/ ~Applies(o) THEN [far EXCEPT ![o] = NoFar] ELSE far
    /\ UNCHANGED <<world, op, missed>>

Hears(o) ==
    /\ call[o].pc = "found"
    /\ far[o].pc = "removes"
    /\ far[o].todo = {}
    /\ Heard(o, TRUE, far[o].seen, far[o].listing, far[o].done)

\* The Runtime's half may go on, or it never was reached.  (Of a preview, what
\* goes on changes nothing.)
AgentGivesUp(o) ==
    /\ "ssh" \in Faults
    /\ call[o].pc = "found"
    /\ Heard(o, FALSE, Nobody, NoItems.outputs, {})

\* Slip: only what the Runtime says it kept is pending.
PendingIfTold(o, s) == call[o].gone # {} /\ s \notin call[o].gone

\* The Runtime's half of a session was to go and has not.
Pending(o, s) ==
    /\ s \in DOMAIN call[o].asked.outputs
    /\ s \notin call[o].gone

RecordStillSo(o, s) ==
    /\ s \in DOMAIN call[o].found
    /\ call[o].found[s] = "ended"
    /\ ~Guarded(call[o].seen, s)

\* apply_agent(), of each record asked for.
RemoveRecord(o) ==
    /\ call[o].pc = "removes"
    /\ \E s \in call[o].todo :
          \/ /\ ~Pending(o, s)
             /\ RecordStillSo(o, s)
             /\ Recorded(s)
             /\ record' = [record EXCEPT ![s] = "gone"]
             /\ call' = [call EXCEPT ![o].todo = @ \ {s}, ![o].done = @ \cup {s}]
          \/ /\ \/ Pending(o, s) \/ ~RecordStillSo(o, s) \/ ~Recorded(s)
                \/ "io" \in Faults
             /\ call' = [call EXCEPT ![o].todo = @ \ {s}]
             /\ UNCHANGED record
    /\ UNCHANGED <<configured, last, at, workdir, output, server, guard, op, far,
                   missed>>

\* It comes after the records.
RemoveWorkdir(o) ==
    /\ call[o].pc = "removes"
    /\ call[o].todo = {}
    /\ call[o].asked.workdir = "remove"
    /\ call[o].workdir = "remove"
    /\ workdir' = [workdir EXCEPT ![call[o].agent] = FALSE]
    /\ call' = [call EXCEPT ![o].workdir = "gone"]
    /\ UNCHANGED <<configured, last, record, at, output, server, guard, op, far,
                   missed>>

-----------------------------------------------------------------------------
(* The Operator *)

Answered(o) ==
    /\ call[o].pc = "removes"
    /\ call[o].todo = {}
    /\ Applies(o) /\ call[o].asked.workdir = "remove" =>
          call[o].workdir # "remove" \/ "io" \in Faults

AtOperator == UNCHANGED <<world, call, far, missed>>
CallOver(o) ==
    /\ call' = [call EXCEPT ![o] = NoCall]
    /\ far' = [far EXCEPT ![o] = NoFar]
    /\ UNCHANGED <<world, missed>>

\* Again and again.  The far ends of its last may go on until then.
\* A purge that cannot tell whom to ask asks nobody, and forgets.
Preview(o) ==
    /\ configured
    /\ op[o].pc = "idle"
    /\ \E purge \in BOOLEAN, agent \in Agents \cup {Unresolved} :
          /\ \/ agent = IF purge THEN last ELSE Own
             \/ agent = Unresolved /\ purge /\ "config" \in Faults
          /\ op' = [op EXCEPT ![o].purge = purge, ![o].agent = agent,
                   ![o].pc = IF agent = Unresolved THEN "forgets" ELSE "begins"]
    /\ CallOver(o)

\* collect(): for the preview, and again as it is applied.
Collect(o) ==
    /\ op[o].pc \in {"begins", "previewed"}
    /\ Asks(o, IF op[o].pc = "begins" THEN "asks" ELSE "asksAgain", NoItems)
    /\ missed' = [missed EXCEPT ![o] = {}]
    /\ UNCHANGED world

\* A preview that is no longer so is not applied.
Collected(o, items) ==
    op' = [op EXCEPT ![o] =
              IF op[o].pc = "asksAgain" /\ items # op[o].items THEN Idle
              ELSE [@ EXCEPT !.items = items,
                             !.pc = IF op[o].pc = "asks" /\ ~op[o].purge
                                    THEN "previewed" ELSE "applies"]]

Told(o) ==
    /\ op[o].pc \in {"asks", "asksAgain"}
    /\ \/ Answered(o) /\ Collected(o, call[o].items)
       \/ "ssh" \in Faults /\ Collected(o, NoItems)
    /\ CallOver(o)

ToRemove(items) ==
    \/ \E s \in DOMAIN items.records : items.records[s]
    \/ \E s \in DOMAIN items.outputs : items.outputs[s].remove
    \/ items.workdir = "remove"

\* carry_out(): one call for all that is not the Operator's own.
CarryOut(o) ==
    /\ op[o].pc = "applies"
    /\ IF ToRemove(op[o].items)
       THEN Asks(o, "waits", op[o].items) /\ UNCHANGED <<world, missed>>
       ELSE /\ op' = [op EXCEPT ![o].pc = "done"]
            /\ AtOperator

\* Slip: what was planned to stay does not count.
NothingLeftToDo(o) ==
    LET items == op[o].items
    IN  /\ items.told /\ items.asked
        /\ \A s \in DOMAIN items.records : items.records[s] => s \in call[o].done
        /\ \A s \in DOMAIN items.outputs :
              items.outputs[s].remove => s \in call[o].gone

NothingLeft(o) ==
    LET items == op[o].items
    IN  /\ items.told /\ items.asked
        /\ DOMAIN items.records \subseteq call[o].done
        /\ DOMAIN items.outputs \subseteq call[o].gone
        /\ items.workdir = "none" \/ call[o].workdir = "gone"

Concludes(o, complete) ==
    op' = [op EXCEPT ![o] =
              IF op[o].purge /\ complete
              THEN [@ EXCEPT !.items = NoItems, !.pc = "forgets"] ELSE Idle]

Conclude(o) ==
    \/ op[o].pc = "waits" /\ Answered(o) /\ Concludes(o, NothingLeft(o)) /\ CallOver(o)
    \/ op[o].pc = "waits" /\ "ssh" \in Faults /\ Concludes(o, FALSE) /\ AtOperator
    \/ op[o].pc = "done" /\ Concludes(o, NothingLeft(o)) /\ AtOperator

\* remove_workspace() drops it from the config, and what it remembers.
Forget(o) ==
    /\ op[o].pc = "forgets"
    /\ op' = [op EXCEPT ![o].pc = "over"]
    /\ configured' = FALSE
    /\ last' = Own
    /\ UNCHANGED <<record, at, workdir, output, server, guard, call, far, missed>>

-----------------------------------------------------------------------------
SessionStep(s) ==
    \/ Start(s) \/ SessionEnds(s) \/ Serve(s) \/ Command(s) \/ CommandEnds(s)
    \/ Acquire(s) \/ Leave(s) \/ Kill(s)
FarStep(o) ==
    \/ Observe(o) \/ Scan(o) \/ List(o) \/ RemoveOutput(o)
    \/ Hears(o) \/ AgentGivesUp(o) \/ RemoveRecord(o) \/ RemoveWorkdir(o)
OperatorStep(o) ==
    \/ Preview(o) \/ Collect(o) \/ Told(o) \/ CarryOut(o) \/ Conclude(o)
    \/ Forget(o)

Next ==
    \/ \E s \in SessionIds : SessionStep(s)
    \/ MakeWay \/ Recover
    \/ \E o \in Ops : FarStep(o) \/ OperatorStep(o)

Spec == Init /\ [][Next]_cleanup

-----------------------------------------------------------------------------
(* Properties *)

TypeOK ==
    /\ configured \in BOOLEAN /\ last \in Agents
    /\ at \in [SessionIds -> Agents] /\ workdir \in [Agents -> BOOLEAN]
    /\ record \in [SessionIds -> {"none", "live", "ended", "lost", "gone"}]
    /\ output \in [SessionIds -> [kept : BOOLEAN, version : 0 .. Versions]]
    /\ server \in [SessionIds -> {"none", "serving", "running"}]
    /\ guard \in [by : SessionIds \cup {Nobody}, clear : BOOLEAN]
    /\ \A o \in Ops :
          /\ op[o].pc \in {"idle", "begins", "asks", "previewed", "asksAgain",
                           "applies", "waits", "done", "forgets", "over"}
          /\ op[o].agent \in Agents \cup {Unresolved}
          /\ call[o].pc \in {"none", "found", "removes"}
          /\ far[o].pc \in {"none", "asked", "observed", "scanned", "removes"}
          /\ call[o].done \subseteq DOMAIN call[o].asked.records
          /\ far[o].done \subseteq DOMAIN call[o].asked.outputs
          /\ missed[o] \subseteq SessionIds

\* What the Runtime keeps of a session can be found by a later cleanup: the
\* record on its Agent, the only thing that says whose session it was, goes
\* after it, whatever part of whose call failed or went on.
FindableOutput == \A s \in SessionIds : output[s].kept => Recorded(s)

\* Nothing goes of the session that has the write guard, or abandoned it, be it
\* readable or not, for recovery starts from there; nor what a server that is
\* there keeps, or a command that runs writes to, although its session has
\* ended, or ended after somebody looked.
NothingNeededGoes ==
    [][\A s \in SessionIds :
          /\ guard.by = s /\ guard'.by = s =>
                /\ output[s].kept => output'[s].kept
                /\ Recorded(s) => Recorded(s)'
          /\ server[s] # "none" /\ output[s].kept => output'[s].kept
          /\ server'[s] = "running" => output'[s].kept]_cleanup

\* A workspace is forgotten by a purge, and of the Agent it asked nothing is
\* left then that nobody could find any more, but of sessions that started
\* while it was on its way.  What other Agents have is left, and everything is
\* when it could not tell whom to ask.
ForgottenLeavesNothing ==
    ~configured =>
        \E o \in Ops :
            /\ op[o].purge /\ op[o].pc = "over"
            /\ \A s \in SessionIds \ missed[o] :
                  at[s] = op[o].agent => ~Recorded(s) /\ ~output[s].kept
=============================================================================
