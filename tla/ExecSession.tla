---------------------------- MODULE ExecSession ----------------------------
(***************************************************************************)
(* The commands of one mcp-serve and how it ends: exec_command_in and      *)
(* background (mcp/exec.rs), Stop, Jobs and stop_command (mcp/jobs.rs),    *)
(* Stopper and Started::wait (process.rs), Sweeper (mcp/orphans.rs) and    *)
(* the end of run (mcp/server.rs), which decides whether the write guard   *)
(* is handed on.                                                           *)
(*                                                                         *)
(* A command is a process group: its leader, a member that stayed in the   *)
(* group, and a stray that left it with setsid; the last two may hold the  *)
(* command's output pipes or have let go of them.                          *)
(***************************************************************************)
EXTENDS Naturals, FiniteSets

CONSTANTS
    Commands,           \* exec_command calls
    Background,         \* the ones with run_in_background
    MaxBackground,      \* MAX_BACKGROUND
    Settings            \* the machines and clients that a server may meet:
                        \*   calls          the commands that are called
                        \*   adopts         adopt() made it a subreaper (Linux)
                        \*   killerMayFail  `kill` may fail to spawn, every time
                        \*   noThread       where a thread may fail to spawn
                        \*   asked          the stops besides the session's
                        \*   offspring      what a leader may fork: a kind of
                        \*                  process, and whether it holds the
                        \*                  command's pipes

StopReasons == {"cancel", "stop_command", "session"}
\* Who runs Stopper::stop: one for each reason, attach's late thread, the
\* single attempt of background; and the watchdog, which only kills.
Stoppers == StopReasons \cup {"late", "abort", "watchdog"}

ASSUME BackgroundAssumption == Background \subseteq Commands
ASSUME MaxBackgroundAssumption == MaxBackground \in Nat
ASSUME SettingsAssumption ==
    Settings \subseteq
        [calls : SUBSET Commands, adopts : BOOLEAN, killerMayFail : BOOLEAN,
         noThread : SUBSET {"pump", "attach", "wait", "stop_all"},
         asked : SUBSET {"cancel", "stop_command", "watchdog"},
         offspring : SUBSET ({"member", "stray"} \X {"holding", "quiet"})]

VARIABLES
    setting,    \* the one of Settings this server is in, for good
    srv,        \* where run() is
    guard,      \* the write guard, as Drop leaves it
    closed,     \* Registry.closed
    registry,   \* Registry.running
    toStop,     \* the stops stop_all has yet to start a thread for
    left,       \* what left_behind names
    task,       \* where each command's call, then its waiter, is
    status,     \* the status file beside each command's output
    handed,     \* background commands whose output_ref the client has
    reason,     \* StopState.reason
    phase,      \* where each stop of each command is
    call,       \* the stop_command call for each command
    leader, member, stray   \* the processes of each command

server == <<setting, srv, guard, closed, toStop, left>>
work == <<task, status, handed>>
stops == <<reason, phase, call>>
processes == <<leader, member, stray>>
vars == <<server, registry, work, stops, processes>>

-----------------------------------------------------------------------------
Adopts == setting.adopts
KillerMayFail == setting.killerMayFail
NoThread == setting.noThread
Asked == setting.asked
Offspring == setting.offspring

\* Every thread of the server is gone once it has exited.
Up == srv \notin {"gone", "crashed"}

Live(c) ==
    \/ leader[c] = "alive"
    \/ member[c] \in {"holding", "quiet"}
    \/ stray[c] \in {"holding", "quiet"}

PipesHeld(c) ==
    leader[c] = "alive" \/ member[c] = "holding" \/ stray[c] = "holding"

\* attach has put the Stopper in the Stop.
Attached(c) ==
    task[c] \notin {"new", "admitted", "cleared", "spawned", "unpumped", "refused"}

\* Stopper.finished: set by whoever waits, and never without a waiter.
Finished(c) == task[c] \in {"captured", "recorded", "unheld", "over"}

\* The call has not been answered.  A background command is waited for after
\* that, on a thread of its own.
InCall(c) ==
    \/ phase[c]["abort"] # "off"
    \/ task[c] \in {"new", "admitted", "cleared", "spawned", "stopping_here",
                    "attached", "started", "unstarted"}
    \/ c \notin Background /\ task[c] \in {"waiting", "reaped", "captured",
                                         "recorded"}

Leave(c) == registry' = registry \ {c}

At(c, here, there) ==
    /\ Up
    /\ task[c] = here
    /\ task' = [task EXCEPT ![c] = there]

Called(c) == c \in setting.calls

-----------------------------------------------------------------------------
(* exec_command_in, then background or the foreground wait *)

\* Jobs::admit
Admit(c) ==
    /\ Called(c)
    /\ At(c, "new", "admitted")
    /\ ~closed
    /\ c \in Background => Cardinality(registry \cap Background) < MaxBackground
    /\ registry' = registry \cup {c}
    /\ UNCHANGED <<server, status, handed, stops, processes>>

\* Refused by admit, or before it for the call's arguments.
Refuse(c) ==
    /\ Called(c)
    /\ At(c, "new", "refused")
    /\ UNCHANGED <<server, registry, status, handed, stops, processes>>

CheckStop(c) ==
    /\ reason[c] = "none"
    /\ At(c, "admitted", "cleared")
    /\ UNCHANGED <<server, registry, status, handed, stops, processes>>

\* "the call was cancelled before the command started, so it was not run"
NotRun(c) ==
    /\ reason[c] # "none"
    /\ At(c, "admitted", "refused")
    /\ Leave(c)
    /\ UNCHANGED <<server, status, handed, stops, processes>>

\* output.begin and spawn_captured
Spawn(c) ==
    /\ At(c, "cleared", "spawned")
    /\ leader' = [leader EXCEPT ![c] = "alive"]
    /\ UNCHANGED <<server, registry, status, handed, stops, member, stray>>

SpawnFails(c) ==
    /\ At(c, "cleared", "refused")
    /\ Leave(c)
    /\ UNCHANGED <<server, status, handed, stops, processes>>

\* The child runs and there is no thread to read its pipes or to watch its
\* deadline: thread::spawn panics, and the call is unwound, ticket and all.
SpawnPanics(c) ==
    /\ "pump" \in NoThread
    /\ At(c, "cleared", "unpumped")
    /\ leader' = [leader EXCEPT ![c] = "alive"]
    /\ Leave(c)
    /\ UNCHANGED <<server, status, handed, stops, member, stray>>

\* Slip: the reason is not looked at again once there is a child.
AttachUnasked(c) ==
    /\ At(c, "spawned", "attached")
    /\ UNCHANGED <<server, registry, status, handed, stops, processes>>

\* Stop::attach: a stop asked for already runs on a thread of its own, or
\* here when there is no thread to be had.
Attach(c) ==
    /\ phase' = [phase EXCEPT ![c]["late"] =
                    IF reason[c] = "none" THEN "off" ELSE "asked"]
    /\ \/ At(c, "spawned", "attached")
       \/ /\ "attach" \in NoThread /\ reason[c] # "none"
          /\ At(c, "spawned", "stopping_here")
    /\ UNCHANGED <<server, registry, status, handed, reason, call,
                   processes>>

StoppedHere(c) ==
    /\ phase[c]["late"] = "off"
    /\ At(c, "stopping_here", "attached")
    /\ UNCHANGED <<server, registry, status, handed, stops, processes>>

WaitForeground(c) ==
    /\ c \notin Background
    /\ At(c, "attached", "waiting")
    /\ UNCHANGED <<server, registry, status, handed, stops, processes>>

\* Slip: a call that waits for its command goes on to hand out a reference.
WriteStatusOfAny(c) ==
    /\ At(c, "attached", "started")
    /\ status' = [status EXCEPT ![c] = "running"]
    /\ UNCHANGED <<server, registry, handed, stops, processes>>

\* The first status is on disk before there is a thread to wait.
WriteStatus(c) ==
    /\ c \in Background
    /\ At(c, "attached", "started")
    /\ status' = [status EXCEPT ![c] = "running"]
    /\ UNCHANGED <<server, registry, handed, stops, processes>>

StatusFails(c) ==
    /\ c \in Background
    /\ At(c, "attached", "unstarted")
    /\ UNCHANGED <<server, registry, status, handed, stops, processes>>

HandOver(c) ==
    /\ At(c, "started", "waiting")
    /\ handed' = handed \cup {c}
    /\ UNCHANGED <<server, registry, status, stops, processes>>

\* Nobody will report on it: one attempt to stop it while the thread waits.
AbortUnrecorded(c) ==
    /\ At(c, "unstarted", "waiting")
    /\ phase' = [phase EXCEPT ![c]["abort"] = "asked"]
    /\ UNCHANGED <<server, registry, status, handed, reason, call,
                   processes>>

\* Slip: the error is returned and the command left to itself.
AbortUnwaitedQuietly(c) ==
    /\ "wait" \in NoThread
    /\ Up
    /\ task[c] \in {"started", "unstarted"}
    /\ task' = [task EXCEPT ![c] = "lost"]
    /\ Leave(c)
    /\ UNCHANGED <<server, status, handed, stops, processes>>

\* The closure that never ran is dropped, ticket and all, before the attempt.
AbortUnwaited(c) ==
    /\ "wait" \in NoThread
    /\ Up
    /\ task[c] \in {"started", "unstarted"}
    /\ task' = [task EXCEPT ![c] = "lost"]
    /\ Leave(c)
    /\ phase' = [phase EXCEPT ![c]["abort"] = "asked"]
    /\ UNCHANGED <<server, status, handed, reason, call, processes>>

\* Started::wait: the pipes are at EOF, then the leader is collected.
Reap(c) ==
    /\ ~PipesHeld(c)
    /\ leader[c] = "dead"
    /\ At(c, "waiting", "reaped")
    /\ leader' = [leader EXCEPT ![c] = "collected"]
    /\ UNCHANGED <<server, registry, status, handed, stops, member, stray>>

\* Slip: the ticket goes when the child is collected.
CaptureAndLeave(c) ==
    /\ At(c, "reaped", "captured")
    /\ phase' = [phase EXCEPT ![c]["watchdog"] = "off"]
    /\ Leave(c)
    /\ UNCHANGED <<server, status, handed, reason, call, processes>>

\* finished is set, the watchdog is joined and `stopped` is read.
Capture(c) ==
    /\ At(c, "reaped", "captured")
    /\ phase' = [phase EXCEPT ![c]["watchdog"] = "off"]
    /\ UNCHANGED <<server, registry, status, handed, reason, call,
                   processes>>

\* The result, or the final status.  Failing to write that is only logged.
Record(c) ==
    /\ At(c, "captured", "recorded")
    /\ \/ status' = [status EXCEPT ![c] =
                        IF c \in Background THEN "ended" ELSE @]
       \/ /\ c \in Background
          /\ status' = [status EXCEPT ![c] =
                           IF @ = "running" THEN "unrecorded" ELSE @]
    /\ UNCHANGED <<server, registry, handed, stops, processes>>

\* drop(run) before drop(ticket) in the background waiter.
DropRun(c) ==
    /\ c \in Background
    /\ At(c, "recorded", "unheld")
    /\ UNCHANGED <<server, registry, status, handed, stops, processes>>

DropTicket(c) ==
    /\ At(c, IF c \in Background THEN "unheld" ELSE "recorded", "over")
    /\ Leave(c)
    /\ UNCHANGED <<server, status, handed, stops, processes>>

Task(c) ==
    \/ Admit(c) \/ Refuse(c) \/ CheckStop(c) \/ NotRun(c) \/ Spawn(c)
    \/ SpawnFails(c) \/ SpawnPanics(c) \/ Attach(c) \/ StoppedHere(c)
    \/ WaitForeground(c)
    \/ WriteStatus(c) \/ StatusFails(c) \/ HandOver(c) \/ AbortUnrecorded(c)
    \/ AbortUnwaited(c) \/ Reap(c) \/ Capture(c) \/ Record(c) \/ DropRun(c)
    \/ DropTicket(c)

-----------------------------------------------------------------------------
(* Stop::stop and Stopper::stop *)

\* The first reason is the one kept; with no stopper yet that is all.
AskStop(c, who) ==
    /\ reason' = [reason EXCEPT ![c] = IF @ = "none" THEN who ELSE @]
    /\ phase' = [phase EXCEPT ![c][who] = IF Attached(c) THEN "asked" ELSE "off"]

\* The client cancels a call that has not been answered.
Cancel(c) ==
    /\ "cancel" \in Asked
    /\ srv = "serving"
    /\ InCall(c)
    /\ reason[c] = "none"
    /\ AskStop(c, "cancel")
    /\ UNCHANGED <<server, registry, work, call, processes>>

\* stop_command finds the background command's entry by its reference.
CallStop(c) ==
    /\ "stop_command" \in Asked
    /\ srv = "serving"
    /\ call[c] = "none"
    /\ c \in handed \cap registry
    /\ AskStop(c, "stop_command")
    /\ call' = [call EXCEPT ![c] = "stopping"]
    /\ UNCHANGED <<server, registry, work, processes>>

CallStopped(c) ==
    /\ Up
    /\ call[c] = "stopping"
    /\ phase[c]["stop_command"] = "off"
    /\ call' = [call EXCEPT ![c] = "waiting"]
    /\ UNCHANGED <<server, registry, work, reason, phase, processes>>

\* wait_gone, then the status is read: "done" when the entry is gone, and
\* "overdue" when STOP_GIVE_UP passed first.
CallAnswered(c) ==
    /\ Up
    /\ call[c] = "waiting"
    /\ call' = [call EXCEPT ![c] = IF c \in registry THEN "overdue" ELSE "done"]
    /\ UNCHANGED <<server, registry, work, reason, phase, processes>>

Timeout(c) ==
    /\ "watchdog" \in Asked
    /\ Up
    /\ leader[c] # "none" /\ task[c] # "unpumped" /\ ~Finished(c)
    /\ phase[c]["watchdog"] = "off"
    /\ phase' = [phase EXCEPT ![c]["watchdog"] = "asked"]
    /\ UNCHANGED <<server, registry, work, reason, call, processes>>

End(c, group) ==
    /\ leader' = [leader EXCEPT ![c] = IF @ = "alive" THEN "dead" ELSE @]
    /\ member' = [member EXCEPT ![c] =
                     IF group /\ @ # "none" THEN "dead" ELSE @]

\* TERM asks, and a process may end of it as it may at any time.  After the
\* grace kill_group is repeated until the command is finished; a collected
\* leader is not signalled.
Kill(c, who) ==
    /\ Up
    /\ phase[c][who] # "off"
    /\ ~Finished(c)
    /\ \E group \in {TRUE, ~KillerMayFail} :
          IF leader[c] = "collected"
          THEN UNCHANGED processes
          ELSE End(c, group) /\ UNCHANGED stray
    /\ phase' = [phase EXCEPT ![c][who] = "killed"]
    /\ UNCHANGED <<server, registry, work, reason, call>>

\* Slip: nobody gives up.
StopEndsFinished(c, who) ==
    /\ Up
    /\ Finished(c) /\ phase[c][who] # "off"
    /\ phase' = [phase EXCEPT ![c][who] = "off"]
    /\ UNCHANGED <<server, registry, work, reason, call, processes>>

\* Finished, or given up on; the watchdog never gives up.
StopEnds(c, who) ==
    /\ Up
    /\ \/ Finished(c) /\ phase[c][who] # "off"
       \/ who # "watchdog" /\ phase[c][who] = "killed"
    /\ phase' = [phase EXCEPT ![c][who] = "off"]
    /\ UNCHANGED <<server, registry, work, reason, call, processes>>

Stopping(c) ==
    \/ \E who \in Stoppers : Kill(c, who) \/ StopEnds(c, who)
    \/ CallStopped(c) \/ CallAnswered(c)

-----------------------------------------------------------------------------
(* The end of run() *)

\* The client is gone: the stream closed, or a heartbeat could not be written.
ClientGone ==
    /\ srv = "serving"
    /\ srv' = "closing"
    /\ UNCHANGED <<setting, guard, closed, toStop, left, registry, work, stops, processes>>

\* stop_all closes the registry and takes its stops under one lock.
StopAll ==
    /\ srv = "closing"
    /\ closed' = TRUE
    /\ toStop' = registry
    /\ srv' = IF registry = {} THEN "draining" ELSE "stopping"
    /\ UNCHANGED <<setting, guard, left, registry, work, stops, processes>>

StopOne(c) ==
    /\ srv = "stopping"
    /\ c \in toStop
    /\ toStop' = toStop \ {c}
    /\ AskStop(c, "session")
    /\ UNCHANGED <<setting, srv, guard, closed, left, registry, work, call, processes>>

\* thread::spawn panics, and run() unwinds: its runtime is dropped, then the
\* server with its guard.
StopPanics ==
    /\ "stop_all" \in NoThread
    /\ srv = "stopping"
    /\ toStop # {}
    /\ srv' = "unwinding"
    /\ UNCHANGED <<setting, guard, closed, toStop, left, registry, work, stops, processes>>

JoinStops ==
    /\ srv = "stopping"
    /\ toStop = {}
    /\ \A c \in Commands : phase[c]["session"] = "off"
    /\ srv' = "joined"
    /\ UNCHANGED <<setting, guard, closed, toStop, left, registry, work, stops, processes>>

\* Slip: the ones given up on are logged and forgotten, as before P43.
StopAllForgets ==
    /\ srv = "joined"
    /\ srv' = "draining"
    /\ UNCHANGED <<setting, guard, closed, toStop, left, registry, work, stops,
                   processes>>

\* The registry is empty, or STOP_GIVE_UP has passed and the rest is named.
StopAllEnds ==
    /\ srv = "joined"
    /\ left' = registry
    /\ srv' = "draining"
    /\ UNCHANGED <<setting, guard, closed, toStop, registry, work, stops, processes>>

\* Dropping the runtime waits for every spawn_blocking that has begun.
Blocking(c) ==
    \/ InCall(c) /\ task[c] # "new"
    \/ phase[c]["cancel"] # "off"
    \/ call[c] \in {"stopping", "waiting"}

DropRuntime ==
    /\ srv = "draining"
    /\ \A c \in Commands : ~Blocking(c)
    /\ srv' = "sweeping"
    /\ UNCHANGED <<setting, guard, closed, toStop, left, registry, work, stops, processes>>

\* Slip: adopted children are ended only once the runtime is gone.
SweepTooLate(c) ==
    /\ Adopts
    /\ srv = "sweeping"
    /\ leader[c] \in {"dead", "collected"}
    /\ stray[c] \in {"holding", "quiet"}
    /\ stray' = [stray EXCEPT ![c] = "dead"]
    /\ UNCHANGED <<server, registry, work, stops, leader, member>>

\* A stray whose parent has ended is the server's child.  The background
\* sweep ends what it finds of those, from before stop_all until finish.
Sweep(c) ==
    /\ Adopts
    /\ srv \in {"stopping", "joined", "draining", "unwinding"}
    /\ leader[c] \in {"dead", "collected"}
    /\ stray[c] \in {"holding", "quiet"}
    /\ stray' = [stray EXCEPT ![c] = "dead"]
    /\ UNCHANGED <<server, registry, work, stops, leader, member>>

\* A child the server may see: its own, or adopted from an ended parent.
HasChild(c) ==
    \/ leader[c] = "alive"
    \/ leader[c] \in {"dead", "collected"} /\ Live(c)

\* end_all: every child, its group with it.
EndChildren(c) ==
    /\ Adopts
    /\ srv = "sweeping"
    /\ HasChild(c)
    /\ IF leader[c] = "alive"
       THEN End(c, TRUE) /\ UNCHANGED stray
       ELSE /\ End(c, TRUE)
            /\ stray' = [stray EXCEPT ![c] = IF @ = "none" THEN @ ELSE "dead"]
    /\ UNCHANGED <<server, registry, work, stops>>

\* Slip: only what stop_all gave up on is named.
LeftoverOfStopAll(c) == c \in left

Leftover(c) == c \in left \/ (Adopts /\ HasChild(c))

\* No child is left, or the wait for them is over and they are named; the
\* guard is dropped and the process exits.
FinishSweep ==
    /\ srv = "sweeping"
    /\ left' = {c \in Commands : Leftover(c)}
    /\ guard' = IF \E c \in Commands : Leftover(c) THEN "kept" ELSE "released"
    /\ srv' = "gone"
    /\ UNCHANGED <<setting, closed, toStop, registry, work, stops, processes>>

Unwind ==
    /\ srv = "unwinding"
    /\ \A c \in Commands : ~Blocking(c)
    /\ guard' = "released"
    /\ srv' = "gone"
    /\ UNCHANGED <<setting, closed, toStop, left, registry, work, stops, processes>>

\* Killed: no Drop runs and the guard stays held.
Crash ==
    /\ Up
    /\ srv' = "crashed"
    /\ UNCHANGED <<setting, guard, closed, toStop, left, registry, work, stops, processes>>

Ending ==
    \/ StopAll \/ JoinStops \/ StopAllEnds \/ DropRuntime \/ FinishSweep
    \/ Unwind
    \/ \E c \in Commands : StopOne(c) \/ Sweep(c) \/ EndChildren(c)

-----------------------------------------------------------------------------
(* What the command's own processes do *)

Forks(c) ==
    /\ leader[c] = "alive"
    /\ \E how \in {"holding", "quiet"} :
          \/ /\ <<"member", how>> \in Offspring
             /\ member[c] = "none"
             /\ member' = [member EXCEPT ![c] = how]
             /\ UNCHANGED stray
          \/ /\ <<"stray", how>> \in Offspring
             /\ stray[c] = "none"
             /\ stray' = [stray EXCEPT ![c] = how]
             /\ UNCHANGED member
    /\ UNCHANGED <<server, registry, work, stops, leader>>

Exits(c) ==
    /\ \/ /\ leader[c] = "alive"
          /\ leader' = [leader EXCEPT ![c] = "dead"]
          /\ UNCHANGED <<member, stray>>
       \/ /\ member[c] \in {"holding", "quiet"}
          /\ member' = [member EXCEPT ![c] = "dead"]
          /\ UNCHANGED <<leader, stray>>
       \/ /\ stray[c] \in {"holding", "quiet"}
          /\ stray' = [stray EXCEPT ![c] = "dead"]
          /\ UNCHANGED <<leader, member>>
    /\ UNCHANGED <<server, registry, work, stops>>

-----------------------------------------------------------------------------
Init ==
    /\ setting \in Settings
    /\ srv = "serving"
    /\ guard = "held"
    /\ closed = FALSE
    /\ registry = {}
    /\ toStop = {}
    /\ left = {}
    /\ task = [c \in Commands |-> "new"]
    /\ status = [c \in Commands |-> "none"]
    /\ handed = {}
    /\ reason = [c \in Commands |-> "none"]
    /\ phase = [c \in Commands |-> [who \in Stoppers |-> "off"]]
    /\ call = [c \in Commands |-> "none"]
    /\ leader = [c \in Commands |-> "none"]
    /\ member = [c \in Commands |-> "none"]
    /\ stray = [c \in Commands |-> "none"]

Next ==
    \/ \E c \in Commands :
          \/ Task(c) \/ Stopping(c)
          \/ Cancel(c) \/ CallStop(c) \/ Timeout(c)
          \/ Forks(c) \/ Exits(c)
    \/ ClientGone \/ StopPanics \/ Crash
    \/ Ending

Spec == Init /\ [][Next]_vars

\* The server's threads make progress; its commands need never end, and its
\* client need never go.
Progress(c) == Task(c) /\ task[c] # "new"

FairSpec ==
    /\ Spec
    /\ WF_vars(Ending)
    /\ \A c \in Commands :
          /\ WF_vars(Progress(c))
          /\ WF_vars(CallStopped(c)) /\ WF_vars(CallAnswered(c))
          /\ \A who \in Stoppers : WF_vars(Kill(c, who)) /\ WF_vars(StopEnds(c, who))

-----------------------------------------------------------------------------
(* Properties *)

\* Every variable keeps its type.
TypeOK ==
    /\ setting \in Settings
    /\ srv \in {"serving", "closing", "stopping", "joined", "draining",
               "sweeping", "unwinding", "gone", "crashed"}
    /\ guard \in {"held", "released", "kept"}
    /\ closed \in BOOLEAN
    /\ registry \in SUBSET Commands
    /\ toStop \in SUBSET Commands
    /\ left \in SUBSET Commands
    /\ task \in [Commands ->
                   {"new", "refused", "admitted", "cleared", "spawned",
                    "unpumped", "stopping_here", "attached", "started", "unstarted",
                    "waiting", "lost", "reaped", "captured", "recorded",
                    "unheld", "over"}]
    /\ status \in [Commands -> {"none", "running", "ended", "unrecorded"}]
    /\ handed \in SUBSET Background
    /\ reason \in [Commands -> {"none"} \cup StopReasons]
    /\ phase \in [Commands -> [Stoppers -> {"off", "asked", "killed"}]]
    /\ call \in [Commands ->
                   {"none", "stopping", "waiting", "overdue", "done"}]
    /\ leader \in [Commands -> {"none", "alive", "dead", "collected"}]
    /\ member \in [Commands -> {"none", "holding", "quiet", "dead"}]
    /\ stray \in [Commands -> {"none", "holding", "quiet", "dead"}]

\* The guard is handed on only when nothing this server started is still
\* there: orphans.rs, "What survives keeps the guard".
ReleasedMeansGone == guard = "released" => \A c \in Commands : ~Live(c)

\* Even without adoption (macOS), no command is handed on beside that was not
\* waited for.  What may survive let go of the pipes first: the gap P43
\* recorded.  (Of a stop_all that gets its threads.)
ReleasedMeansWaited ==
    guard = "released" /\ "stop_all" \notin NoThread =>
        \A c \in Commands : leader[c] # "alive" /\ ~PipesHeld(c)

\* stop_command's answer comes after the final status, unless waiting for the
\* entry to go took too long.
StopAnswerIsFinal ==
    \A c \in Commands : call[c] = "done" => status[c] \in {"ended", "unrecorded"}

\* A call that was answered without an output_ref has no leader running:
\* "Nobody will report on it, so it must not run."  (Of a command whose pipes
\* have readers; with no thread for one, pump panics over a running child.)
UnreportedIsEnded ==
    \A c \in Commands :
        ~InCall(c) /\ c \notin handed /\ task[c] # "unpumped" /\ leader[c] = "alive"
            => ~Up

\* A stop that was asked for is never lost, wherever between admit and the
\* final wait it met the command.
StopIsCarriedOut ==
    \A c \in Commands :
        reason[c] # "none" ~> leader[c] # "alive" \/ ~Up

\* A server whose client is gone ends, whatever its commands do: "the server
\* ends anyway".
ServerEnds == srv = "closing" ~> ~Up

\* What WriteGuard assumes of the server that holds it, of a server that is a
\* subreaper and gets the threads of stop_all.
Session == INSTANCE GuardedWork WITH
    live <- Adopts /\ "stop_all" \notin NoThread /\ \E c \in Commands : Live(c)
EndsQuietOrKept == Session!Spec
=============================================================================
