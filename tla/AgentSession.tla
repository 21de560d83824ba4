---------------------------- MODULE AgentSession ----------------------------
(***************************************************************************)
(* One print session on the Agent, under an id the Runtime assigned        *)
(* (session.rs, the print half of work.rs, controller.rs, and the Agent's  *)
(* half of cleanup.rs): the `ccnm internal agent-run` that creates and     *)
(* waits for it, the controller that starts its supervisor, the            *)
(* supervisor, the Agent CLI and the children in its process group, the    *)
(* `agent-stop` of the Runtime, a person's `ccnm stop --session`, and a    *)
(* cleanup.  They share nothing but the session's directory and ps.        *)
(*                                                                         *)
(* A ps or a signal is one step, and so is what a process reads or writes  *)
(* of the directory between two of them under the control lock.  Pids are  *)
(* not reused.  A process that left the Agent's group is outside: no ps of *)
(* this code sees it.  What may go wrong:                                  *)
(*   "late"  the controller is slower than the caller's deadline           *)
(*   "ctl"   the controller is killed                                      *)
(*   "die"   agent-run or a stop is killed, or its connection with it      *)
(*   "slay"  the supervisor is killed by something other than a stop       *)
(*   "disk"  a write fails                                                 *)
(*   "ps"    ps cannot be run, or its answer not be read                   *)
(*   "clean" `ccnm cleanup` removes the record of an ended session         *)
(***************************************************************************)
EXTENDS FiniteSets

CONSTANTS
    Stops,      \* stops of this session
    Assigned,   \* those of the Runtime, that take the control lock
    Run, Free,  \* the lock's holder: agent-run, or nobody
    Faults      \* what may go wrong

ASSUME StopsAssumption == Assigned \subseteq Stops /\ {Run, Free} \cap Stops = {}
ASSUME RunAssumption == Run # Free
ASSUME FaultsAssumption ==
    Faults \subseteq {"late", "ctl", "die", "slay", "disk", "ps", "clean"}

VARIABLES
    disk,       \* the session's directory, and the files in it that decide
    lock,       \* who holds control.lock
    run,        \* the next step of agent-run, or how it ended
    request,    \* its Start request to the controller
    sup,        \* the supervisor
    doomed,     \* it was sent SIGTERM
    agent,      \* the Agent CLI
    kids,       \* some child of it lives in its process group
    stop,       \* stop[s]: the next step of s, or what it answered
    cleanup,    \* what cleanup listed of this session, or where it is
    claim,      \* who made the directory first
    astray      \* a start or a record was lost track of

session == <<disk, lock, run, request, sup, doomed, agent, kids, stop, cleanup,
             claim, astray>>

Nothing == [dir |-> "none", marker |-> FALSE, supPid |-> FALSE,
            agentPid |-> FALSE, exit |-> "none"]

Init ==
    /\ disk = Nothing
    /\ lock = Free
    /\ run = "sent"
    /\ request = "none"
    /\ sup = "none"
    /\ doomed = FALSE
    /\ agent = "none"
    /\ kids = FALSE
    /\ stop = [s \in Stops |-> "sent"]
    /\ cleanup = [state |-> "idle", saw |-> Nothing]
    /\ claim = "nobody"
    /\ astray = FALSE

-----------------------------------------------------------------------------
(* What ps sees *)

SupRuns == sup \notin {"none", "gone", "exited"}
GroupAlive == agent = "up" \/ kids

\* Nothing of the session works, or will: a supervisor that has written how it
\* ended has nothing left to do, though ps still shows it.
Quiet == sup \in {"none", "leaving", "exited", "gone"} /\ ~GroupAlive

\* A controller that still has, or had, the run's request.
Requested == request \in {"queued", "started"}

-----------------------------------------------------------------------------
(* agent-run *)

processes == <<request, sup, doomed, agent, kids>>
others == <<stop, cleanup>>

RunTo(p) == run' = p

\* Slip: the drop closes the file, and something forked still shares it.
ReleasedByClosing(who) == lock

Released(who) == IF lock = who THEN Free ELSE lock

\* The id is looked up before any preflight, and by create_dir after them.
RunChecks ==
    /\ run = "sent"
    /\ RunTo(IF disk.dir = "none" THEN "checked" ELSE "refused")
    /\ UNCHANGED <<disk, lock, claim, astray, processes, others>>

RunPreflightFails ==
    /\ run = "checked"
    /\ RunTo("refused")
    /\ UNCHANGED <<disk, lock, claim, astray, processes, others>>

\* Slip: create_dir_all, which takes a directory that is there for its own.
RunCreatesAnyway ==
    /\ run = "checked"
    /\ disk' = [disk EXCEPT !.dir = "bare"]
    /\ claim' = IF claim = "nobody" THEN "run" ELSE claim
    /\ RunTo("creating")
    /\ UNCHANGED <<lock, astray, processes, others>>

RunCreates ==
    /\ run = "checked"
    /\ IF disk.dir = "none"
       THEN /\ disk' = [disk EXCEPT !.dir = "bare"]
            /\ claim' = "run"
            /\ RunTo("creating")
       ELSE /\ RunTo("refused")
            /\ UNCHANGED <<disk, claim>>
    /\ UNCHANGED <<lock, astray, processes, others>>

RunWritesFiles ==
    /\ run = "creating"
    /\ disk' = [disk EXCEPT !.dir = "full"]
    /\ RunTo("created")
    /\ UNCHANGED <<lock, claim, astray, processes, others>>

\* session.json was not written, or one of the files after it was not.
RunCannotWriteFiles ==
    /\ "disk" \in Faults
    /\ run = "creating"
    /\ \E d \in {"bare", "full"} : disk' = [disk EXCEPT !.dir = d]
    /\ RunTo("refused")
    /\ UNCHANGED <<lock, claim, astray, processes, others>>

RunLocks ==
    /\ run = "created"
    /\ lock = Free
    /\ lock' = Run
    /\ RunTo("locked")
    /\ UNCHANGED <<disk, claim, astray, processes, others>>

RunFindsMarker ==
    /\ run = "locked"
    /\ disk.marker
    /\ disk' = [disk EXCEPT !.exit = "failed"]
    /\ lock' = Free
    /\ RunTo("refused")
    /\ UNCHANGED <<claim, astray, processes, others>>

RunAsks ==
    /\ run = "locked"
    /\ ~disk.marker
    /\ request' = "queued"
    /\ RunTo("asking")
    /\ UNCHANGED <<disk, lock, claim, astray, sup, doomed, agent, kids, others>>

RunHears ==
    /\ run = "asking"
    /\ request = "started"
    /\ RunTo("recording")
    /\ UNCHANGED <<disk, lock, claim, astray, processes, others>>

\* An error of the controller, or of the connection to it.
RunHearsError ==
    /\ run = "asking"
    /\ request = "refused" \/ request = "lost"
    /\ disk' = [disk EXCEPT !.exit = "failed"]
    /\ lock' = Free
    /\ RunTo("failed")
    /\ UNCHANGED <<claim, astray, processes, others>>

\* The deadline of start_for_identity.  What was asked stays with the
\* controller, which answers its requests in turn.
RunTimesOut ==
    /\ "late" \in Faults
    /\ run = "asking"
    /\ Requested
    /\ disk' = [disk EXCEPT !.exit = "failed"]
    /\ lock' = Free
    /\ astray' = TRUE
    /\ RunTo("failed")
    /\ UNCHANGED <<claim, processes, others>>

\* Slip: the lock is kept until agent-run returns.
RunRecordsAndKeeps ==
    /\ run = "recording"
    /\ disk' = [disk EXCEPT !.supPid = TRUE]
    /\ RunTo("waiting")
    /\ UNCHANGED <<lock, claim, astray, processes, others>>

RunRecords ==
    /\ run = "recording"
    /\ disk' = [disk EXCEPT !.supPid = TRUE]
    /\ lock' = Free
    /\ RunTo("waiting")
    /\ UNCHANGED <<claim, astray, processes, others>>

RunCannotRecord ==
    /\ "disk" \in Faults
    /\ run = "recording"
    /\ lock' = Free
    /\ astray' = TRUE
    /\ RunTo("failed")
    /\ UNCHANGED <<disk, claim, processes, others>>

\* wait_for_outcome
RunReads ==
    /\ run = "waiting" \/ run = "rereading"
    /\ disk.exit # "none"
    /\ RunTo("reported")
    /\ UNCHANGED <<disk, lock, claim, astray, processes, others>>

\* Slip: no second look once the supervisor is gone.
RunFindsSupGoneAtOnce ==
    /\ run = "waiting"
    /\ ~SupRuns
    /\ RunTo("lost")
    /\ UNCHANGED <<disk, lock, claim, astray, processes, others>>

RunFindsSupGone ==
    /\ run = "waiting"
    /\ ~SupRuns
    /\ RunTo("rereading")
    /\ UNCHANGED <<disk, lock, claim, astray, processes, others>>

RunLosesSup ==
    /\ run = "rereading"
    /\ disk.exit = "none"
    /\ RunTo("lost")
    /\ UNCHANGED <<disk, lock, claim, astray, processes, others>>

RunGivesUp ==
    /\ run = "waiting"
    /\ SupRuns
    /\ RunTo("gaveUp")
    /\ UNCHANGED <<disk, lock, claim, astray, processes, others>>

RunEnded == {"refused", "failed", "reported", "lost", "gaveUp", "dead"}

RunDies ==
    /\ "die" \in Faults
    /\ run \notin RunEnded
    /\ RunTo("dead")
    /\ lock' = Released(Run)
    /\ astray' = (astray \/ (run \in {"asking", "recording"} /\ Requested))
    /\ UNCHANGED <<disk, claim, processes, others>>

-----------------------------------------------------------------------------
(* The controller answers one request after the other *)

ours == <<disk, lock, run, claim, stop, cleanup>>

CtlSpawns ==
    /\ request = "queued"
    /\ disk.dir = "full"
    /\ request' = "started"
    /\ sup' = "loading"
    /\ UNCHANGED <<doomed, agent, kids, astray, ours>>

\* Anything start_session checks: the record, the identity, the login, spawn.
CtlRefuses ==
    /\ request = "queued"
    /\ request' = "refused"
    /\ UNCHANGED <<sup, doomed, agent, kids, astray, ours>>

CtlDies ==
    /\ "ctl" \in Faults
    /\ run = "asking"
    /\ Requested
    /\ request' = "lost"
    /\ astray' = (astray \/ request = "started")
    /\ UNCHANGED <<sup, doomed, agent, kids, ours>>

-----------------------------------------------------------------------------
(* The supervisor, the Agent and its children *)

theirs == <<lock, run, request, stop, cleanup, claim, astray>>

SupSpawnsAgent ==
    /\ sup = "loading"
    /\ disk.dir = "full"
    /\ sup' = "spawned"
    /\ agent' = "up"
    /\ UNCHANGED <<disk, doomed, kids, theirs>>

\* launch_cmd or the spawn failed.
SupCannotLaunch ==
    /\ sup = "loading"
    /\ disk.dir = "full"
    /\ sup' = "failing"
    /\ UNCHANGED <<disk, doomed, agent, kids, theirs>>

\* session.json is not to be read: the one end that writes no exit file.
SupCannotLoad ==
    /\ sup = "loading"
    /\ disk.dir # "full"
    /\ sup' = "gone"
    /\ UNCHANGED <<disk, doomed, agent, kids, theirs>>

SupRecordsAgent ==
    /\ sup = "spawned"
    /\ disk.dir = "full"
    /\ disk' = [disk EXCEPT !.agentPid = TRUE]
    /\ sup' = "watching"
    /\ UNCHANGED <<doomed, agent, kids, theirs>>

\* The observer of the spawn failed: the group is killed and waited for.
SupCannotRecord ==
    /\ sup = "spawned"
    /\ "disk" \in Faults \/ disk.dir # "full"
    /\ agent' = "down"
    /\ kids' = FALSE
    /\ sup' = "failing"
    /\ UNCHANGED <<disk, doomed, theirs>>

\* The watchdog at the session's timeout.
SupKillsAgent ==
    /\ sup = "watching"
    /\ agent = "up"
    /\ agent' = "down"
    /\ kids' = FALSE
    /\ UNCHANGED <<disk, sup, doomed, theirs>>

SupReaps ==
    /\ sup = "watching"
    /\ agent = "down"
    /\ sup' = "ended"
    /\ UNCHANGED <<disk, doomed, agent, kids, theirs>>

Result == IF sup = "failing" THEN "failed" ELSE "ended"

SupWritesOutcome ==
    /\ sup \in {"ended", "failing"}
    /\ disk.dir = "full"
    /\ disk' = [disk EXCEPT !.exit = Result]
    /\ sup' = "leaving"
    /\ UNCHANGED <<doomed, agent, kids, theirs>>

SupCannotWrite ==
    /\ sup \in {"ended", "failing"}
    /\ "disk" \in Faults \/ disk.dir # "full"
    /\ sup' = "gone"
    /\ UNCHANGED <<disk, doomed, agent, kids, theirs>>

SupExits ==
    /\ sup = "leaving"
    /\ sup' = "exited"
    /\ UNCHANGED <<disk, doomed, agent, kids, theirs>>

SupDies ==
    /\ SupRuns
    /\ doomed \/ "slay" \in Faults
    /\ sup' = IF sup = "leaving" THEN "exited" ELSE "gone"
    /\ UNCHANGED <<disk, doomed, agent, kids, theirs>>

AgentForks ==
    /\ agent = "up"
    /\ ~kids
    /\ kids' = TRUE
    /\ UNCHANGED <<disk, sup, doomed, agent, theirs>>

AgentEnds ==
    /\ agent = "up"
    /\ agent' = "down"
    /\ UNCHANGED <<disk, sup, doomed, kids, theirs>>

KidsEnd ==
    /\ kids
    /\ kids' = FALSE
    /\ UNCHANGED <<disk, sup, doomed, agent, theirs>>

-----------------------------------------------------------------------------
(* stop_assigned and stop_print_session *)

outside == <<run, request, sup, agent, kids, cleanup>>

StopTo(s, p) == stop' = [stop EXCEPT ![s] = p]

\* An answer ends the stop, and drops the lock if it held it.
StopAnswers(s, a) == StopTo(s, a) /\ lock' = Released(s)

\* What a stop answers Ok: killed, or nothing to kill.
Confirmed == {"killed", "notStarted", "over"}
StopEnded == Confirmed \cup {"notReady", "dead"}

\* fence(): one create_dir decides between this stop and the run.
StopFences(s) ==
    /\ s \in Assigned
    /\ stop[s] = "sent"
    /\ IF disk.dir = "none"
       THEN /\ disk' = [disk EXCEPT !.dir = "bare"]
            /\ claim' = IF claim = "nobody" THEN "stop" ELSE claim
            /\ StopTo(s, "fencing")
       ELSE /\ StopTo(s, "locking")
            /\ UNCHANGED <<disk, claim>>
    /\ UNCHANGED <<lock, doomed, astray, outside>>

StopMarks(s) ==
    /\ stop[s] = "fencing"
    /\ disk' = [disk EXCEPT !.marker = TRUE]
    /\ StopAnswers(s, "notStarted")
    /\ UNCHANGED <<doomed, claim, astray, outside>>

StopCannotMark(s) ==
    /\ "disk" \in Faults
    /\ stop[s] = "fencing"
    /\ StopAnswers(s, "notReady")
    /\ UNCHANGED <<disk, doomed, claim, astray, outside>>

\* A lock file of a directory that was removed is not to be opened.
StopLocks(s) ==
    /\ stop[s] = "locking"
    /\ lock = Free
    /\ IF disk.dir = "none"
       THEN StopAnswers(s, "notReady")
       ELSE lock' = s /\ StopTo(s, "deciding")
    /\ UNCHANGED <<disk, doomed, claim, astray, outside>>

\* No supervisor's pid: nothing was started, says stop_assigned, and leaves
\* the marker for a run that still waits for the lock.
StopFindsNoPid(s) ==
    /\ stop[s] = "deciding"
    /\ s \in Assigned
    /\ ~disk.supPid
    /\ disk' = [disk EXCEPT !.marker = TRUE]
    /\ StopAnswers(s, "notStarted")
    /\ UNCHANGED <<doomed, claim, astray, outside>>

\* A person's stop loads the record, takes no lock and leaves no marker.
StopByPerson(s) ==
    /\ s \in Stops \ Assigned
    /\ stop[s] = "sent"
    /\ StopTo(s, IF disk.dir = "full" THEN "deciding" ELSE "notReady")
    /\ UNCHANGED <<disk, lock, doomed, claim, astray, outside>>

StopFindsOutcome(s) ==
    /\ stop[s] = "deciding"
    /\ disk.supPid \/ s \notin Assigned
    /\ disk.exit # "none"
    /\ StopTo(s, "confirming")
    /\ UNCHANGED <<disk, lock, doomed, claim, astray, outside>>

\* Slip: an outcome is taken for the end of the whole group.
RecordedSupEnded == disk.supPid => ~SupRuns

\* confirm_recorded_print_groups_ended: an outcome speaks of the leader only,
\* and pids of the past are never signalled.
RecordedGroupsEnded ==
    /\ disk.supPid => ~SupRuns
    /\ disk.agentPid => ~GroupAlive

StopConfirms(s) ==
    /\ stop[s] = "confirming"
    /\ StopAnswers(s, IF RecordedGroupsEnded THEN "over" ELSE "notReady")
    /\ UNCHANGED <<disk, doomed, claim, astray, outside>>

\* No pid, no such process, or not the supervisor of this session.
StopVerifiesSup(s) ==
    /\ stop[s] = "deciding"
    /\ disk.supPid \/ s \notin Assigned
    /\ disk.exit = "none"
    /\ IF disk.supPid /\ SupRuns
       THEN StopTo(s, "verified") /\ UNCHANGED lock
       ELSE StopAnswers(s, "notReady")
    /\ UNCHANGED <<disk, doomed, claim, astray, outside>>

\* The Agent must be the supervisor's child, and lead its group.
AgentOwned == agent = "up" /\ SupRuns

StopVerifiesAgent(s) ==
    /\ stop[s] = "verified"
    /\ IF ~disk.agentPid \/ (agent = "up" /\ ~AgentOwned) \/ (agent = "down" /\ kids)
       THEN StopAnswers(s, "notReady")
       ELSE /\ StopTo(s, IF agent = "up" THEN "toSignal" ELSE "toEnd")
            /\ UNCHANGED lock
    /\ UNCHANGED <<disk, doomed, claim, astray, outside>>

CannotWriteMarker(s) ==
    /\ stop[s] \in {"toSignal", "toEnd"}
    /\ "disk" \in Faults \/ disk.dir = "none"
    /\ StopAnswers(s, "notReady")
    /\ UNCHANGED <<disk, doomed, claim, astray, outside>>

\* SIGTERM to the Agent's group: it and its children end when they choose.
StopSignalsAgent(s) ==
    /\ stop[s] = "toSignal"
    /\ disk.dir # "none"
    /\ disk' = [disk EXCEPT !.marker = TRUE]
    /\ StopTo(s, "agentGrace")
    /\ UNCHANGED <<lock, doomed, claim, astray, outside>>

StopSeesAgentEnd(s) ==
    /\ stop[s] = "agentGrace"
    /\ ~GroupAlive
    /\ StopTo(s, "toEnd")
    /\ UNCHANGED <<disk, lock, doomed, claim, astray, outside>>

\* STOP_GRACE is over.
StopOutOfGrace(s) ==
    /\ \/ stop[s] = "agentGrace" /\ GroupAlive
       \/ stop[s] = "supGrace" /\ SupRuns
    /\ StopAnswers(s, "notReady")
    /\ UNCHANGED <<disk, doomed, claim, astray, outside>>

StopSignalsSup(s) ==
    /\ stop[s] = "toEnd"
    /\ disk.dir # "none"
    /\ disk' = [disk EXCEPT !.marker = TRUE]
    /\ doomed' = SupRuns
    /\ StopTo(s, "supGrace")
    /\ UNCHANGED <<lock, claim, astray, outside>>

StopSeesSupEnd(s) ==
    /\ stop[s] = "supGrace"
    /\ ~SupRuns
    /\ StopTo(s, "toRecord")
    /\ UNCHANGED <<disk, lock, doomed, claim, astray, outside>>

\* The supervisor may have written how it ended before the signal took it.
StopRecords(s) ==
    /\ stop[s] = "toRecord"
    /\ disk.dir # "none"
    /\ disk' = [disk EXCEPT !.exit = IF @ = "none" THEN "stopped" ELSE @]
    /\ StopAnswers(s, "killed")
    /\ UNCHANGED <<doomed, claim, astray, outside>>

StopCannotRecord(s) ==
    /\ "disk" \in Faults \/ disk.dir = "none"
    /\ stop[s] = "toRecord"
    /\ disk.exit = "none"
    /\ StopAnswers(s, "notReady")
    /\ UNCHANGED <<disk, doomed, claim, astray, outside>>

\* A ps that says nothing confirms nothing, whatever was signalled before.
StopCannotAsk(s) ==
    /\ "ps" \in Faults
    /\ \/ stop[s] \in {"confirming", "verified", "agentGrace", "supGrace"}
       \/ stop[s] = "deciding" /\ disk.supPid /\ disk.exit = "none"
    /\ StopAnswers(s, "notReady")
    /\ UNCHANGED <<disk, doomed, claim, astray, outside>>

StopDies(s) ==
    /\ "die" \in Faults
    /\ stop[s] \notin StopEnded
    /\ StopAnswers(s, "dead")
    /\ UNCHANGED <<disk, doomed, claim, astray, outside>>

-----------------------------------------------------------------------------
(* cleanup.rs, the Agent's half: a listing, and a removal later on *)

inSession == <<run, request, sup, doomed, agent, kids, stop, claim, lock>>

\* session_state: an outcome makes it completed or failed.
CleanupLists ==
    /\ "clean" \in Faults
    /\ cleanup.state = "idle"
    /\ disk.dir = "full"
    /\ disk.exit # "none"
    /\ cleanup' = [state |-> "listed", saw |-> disk]
    /\ UNCHANGED <<disk, astray, inSession>>

\* Not if the files are no longer those listed, or somebody holds the lock.
\* Without its record, nothing tells a session that ran from one that did not.
CleanupRemoves ==
    /\ cleanup.state = "listed"
    /\ cleanup' = [cleanup EXCEPT !.state = "done"]
    /\ IF disk = cleanup.saw /\ lock = Free
       THEN disk' = Nothing /\ astray' = (astray \/ ~Quiet)
       ELSE UNCHANGED <<disk, astray>>
    /\ UNCHANGED inSession

-----------------------------------------------------------------------------
RunStep ==
    \/ RunChecks \/ RunPreflightFails \/ RunCreates
    \/ RunWritesFiles \/ RunCannotWriteFiles \/ RunLocks
    \/ RunFindsMarker \/ RunAsks \/ RunHears \/ RunHearsError \/ RunTimesOut
    \/ RunRecords \/ RunCannotRecord
    \/ RunReads \/ RunFindsSupGone \/ RunLosesSup \/ RunGivesUp

CtlStep == CtlSpawns \/ CtlRefuses \/ CtlDies

SupStep ==
    \/ SupSpawnsAgent \/ SupCannotLaunch \/ SupCannotLoad
    \/ SupRecordsAgent \/ SupCannotRecord \/ SupKillsAgent \/ SupReaps
    \/ SupWritesOutcome \/ SupCannotWrite \/ SupExits

StopStep(s) ==
    \/ StopFences(s) \/ StopMarks(s) \/ StopCannotMark(s)
    \/ StopLocks(s) \/ StopFindsNoPid(s) \/ StopByPerson(s)
    \/ StopFindsOutcome(s) \/ StopConfirms(s)
    \/ StopVerifiesSup(s) \/ StopVerifiesAgent(s) \/ CannotWriteMarker(s)
    \/ StopSignalsAgent(s) \/ StopSeesAgentEnd(s) \/ StopOutOfGrace(s)
    \/ StopSignalsSup(s) \/ StopSeesSupEnd(s)
    \/ StopRecords(s) \/ StopCannotRecord(s) \/ StopCannotAsk(s)

Next ==
    \/ RunStep \/ RunDies
    \/ CtlStep
    \/ SupStep \/ SupDies
    \/ AgentForks \/ AgentEnds \/ KidsEnd
    \/ \E s \in Stops : StopStep(s) \/ StopDies(s)
    \/ CleanupLists \/ CleanupRemoves

Spec == Init /\ [][Next]_session

\* agent-run and the Runtime's stops are processes that run, with a deadline on
\* whatever they wait for but the lock.  Nothing is fair about the controller,
\* the supervisor, the Agent, a death, a person or a cleanup.
FairSpec ==
    /\ Spec
    /\ WF_session(RunStep)
    /\ \A s \in Assigned : WF_session(StopStep(s))

-----------------------------------------------------------------------------
(* Properties *)

Files == [dir : {"none", "bare", "full"}, marker : BOOLEAN, supPid : BOOLEAN,
          agentPid : BOOLEAN, exit : {"none", "failed", "ended", "stopped"}]

Flags == doomed \in BOOLEAN /\ kids \in BOOLEAN /\ astray \in BOOLEAN

\* agent-run has the control lock from the question for a marker until a pid is
\* recorded, and a stop of the Runtime from there until it answers.
Holders ==
    /\ lock \in Stops \cup {Run, Free}
    /\ lock = Run <=> run \in {"locked", "asking", "recording"}
    /\ \A s \in Assigned :
          lock = s <=> stop[s] \notin {"sent", "fencing", "locking"} \cup StopEnded

Steps ==
    /\ run \in {"sent", "checked", "creating", "created", "locked", "asking",
               "recording", "waiting", "rereading"} \cup RunEnded
    /\ request \in {"none", "queued", "started", "refused", "lost"}
    /\ sup \in {"none", "loading", "spawned", "watching", "ended", "failing",
               "leaving", "exited", "gone"}
    /\ agent \in {"none", "up", "down"}
    /\ stop \in [Stops -> {"sent", "fencing", "locking", "deciding", "confirming",
                          "verified", "toSignal", "agentGrace", "toEnd",
                          "supGrace", "toRecord"} \cup StopEnded]
    /\ claim \in {"nobody", "run", "stop"}

\* The types, and the holders of the control lock.
TypeOK ==
    /\ disk \in Files
    /\ cleanup \in [state : {"idle", "listed", "done"}, saw : Files]
    /\ Flags
    /\ Steps
    /\ Holders

\* What there is of the session, and whether a stop answered Ok.
Life == IF sup = "none" THEN "none" ELSE IF Quiet THEN "over" ELSE "going"
Sealed == \E s \in Stops : stop[s] \in Confirmed

\* A stop that answered Ok, in any of its three ways, has nothing running
\* behind it, and nothing starts afterwards -- unless a start or a record was
\* lost track of: agent-run gave up on, or died with, a request the controller
\* had taken, or a cleanup took the record of a session with survivors.
ConfirmedIsQuiet == Sealed => Quiet \/ astray

\* The same without the exception, as stop_assigned's comment has it.
StopLeavesNothing == Sealed => Quiet

\* What exit says is so: "failed" of no Agent that ran, "ended" of one that
\* ended, "stopped" of a session in which nothing runs.  And run, however the
\* write of exit and its ps fall, calls no session lost whose supervisor wrote
\* how it ended, unless a cleanup took that away.
OutcomeIsTrue ==
    /\ \/ disk.exit = "none"
       \/ astray
       \/ disk.exit = "failed" /\ agent # "up"
       \/ disk.exit = "ended" /\ agent = "down"
       \/ disk.exit = "stopped" /\ Quiet
    /\ run = "lost" /\ sup = "exited" => cleanup.state = "done"

\* A stop that waits for the lock gets an answer: nobody keeps the lock.
StopsAnswer == \A s \in Assigned : stop[s] = "locking" ~> stop[s] \in StopEnded

\* What the Runtime may rely on: see AgentPromise.
Promise == INSTANCE AgentPromise WITH
    owner <- claim, life <- Life, outcome <- disk.exit, sealed <- Sealed

KeepsPromise == Promise!Spec
=============================================================================
