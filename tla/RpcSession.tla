----------------------------- MODULE RpcSession -----------------------------
(***************************************************************************)
(* The sessions of `ccnm rpc` (rpc/session.rs and rpc/store.rs): records   *)
(* and start keys on disk, the calls start, status, result and stop, the   *)
(* process that owns a run (`ccnm internal rpc-run`), the Agent as far as  *)
(* the calls see it, and `ccnm cleanup`.                                   *)
(*                                                                         *)
(* A start that creates a session is named like the session it creates:    *)
(* the handle is a fresh uuid.  Each start has a `ccnm rpc` of its own;    *)
(* status, result and stop are asked through others, as a client may run   *)
(* several on one state directory.  Every change of a record or of the     *)
(* start-key index is one read-modify-write under the store's flock and    *)
(* reaches the disk in one rename, so it is one step; readers take no lock *)
(* and read what the disk holds at that moment.                            *)
(*                                                                         *)
(* A setting says which calls are made and what may go wrong:              *)
(*   "disk"    a write of a record or of the index fails, changing nothing *)
(*   "ps"      ps cannot be run                                            *)
(*   "link"    the connection to the Agent is not made, or breaks          *)
(*   "spawn"   the process that is to own a run cannot be started          *)
(*   "kill"    a `ccnm rpc` is killed                                      *)
(*   "slay"    a `ccnm internal rpc-run` is killed                         *)
(*   "rebind"  the workspace is bound to another Agent node by an edit     *)
(***************************************************************************)

CONSTANTS
    Starts,         \* calls of session.start, and the sessions they create
    Asks,           \* clients that call status, result and stop
    Keys, KeyOf,    \* KeyOf[c]: the start_key of the start c
    InputOf,        \* InputOf[c]: workspace, agent, mode and prompt of c
    Nodes, Bound,   \* Agent nodes, and the one the workspace is bound to
    NoSession, NoNode,
    Settings        \* combinations of calls made and faults met

ASSUME StartsAssumption == NoSession \notin Starts /\ Starts \cap Asks = {}
ASSUME KeysAssumption == KeyOf \in [Starts -> Keys]
ASSUME NodesAssumption == Bound \in Nodes /\ NoNode \notin Nodes

Calls == Starts \cup Asks

ASSUME SettingsAssumption ==
    Settings \subseteq
        [calls : SUBSET Calls,
         faults : SUBSET {"disk", "ps", "link", "spawn", "kill", "slay", "rebind"}]

VARIABLES
    setting,    \* the one of Settings that this is, for good
    pc,         \* pc[p]: the next step of the call p
    target,     \* target[p]: the session that the call is about
    wants,      \* wants[p]: "start", "read" (status, result) or "stop"
    seen,       \* seen[p]: what the call read of the record, at its time
    answer,     \* answer[p]: what the client was last told
    up,         \* up[c]: the server of the start c runs
    record,     \* record[s]: sessions/<s>.json
    holder,     \* holder[k]: the session that the start-key index gives k
    owner,      \* owner[s]: the next step of the process that owns the run
    heard,      \* heard[s]: what the owner heard of the run
    agent,      \* agent[s]: the run on the Agent
    ranOn,      \* ranOn[s]: the node the run was sent to
    bound,      \* the node the workspace is bound to now
    told        \* told[s]: the owners of s that some client's call took for
                \* gone, and whose client was told that s is "unknown"

disk == <<record, holder>>
callVars == <<pc, target, wants, seen, answer>>
runVars == <<owner, heard, agent, ranOn>>
world == <<setting, bound>>
vars == <<callVars, up, disk, runVars, world, told>>

Faults == setting.faults

-----------------------------------------------------------------------------
(* Records                                                                 *)

Terminal == {"completed", "failed", "unknown"}
States == {"starting", "running", "stopping"} \cup Terminal

\* `finish` is what Finish keeps of the end: "exit" when the Agent's process
\* reported one, "error" when only a reason is known.  `by` is the process in
\* owner_pid; `stamped` says owner_started holds its start time and not "".
Records ==
    [state : States \cup {"absent"}, stop : BOOLEAN, sent : BOOLEAN,
     finish : {"none", "exit", "error"}, by : {"server", "process"},
     stamped : BOOLEAN, node : Nodes, cleaned : BOOLEAN]

\* What observe() reads of a record and uses after it has asked ps.
Glances ==
    [state : States \cup {"absent"}, by : {"server", "process"}, stamped : BOOLEAN]
Glance(r) == [state |-> r.state, by |-> r.by, stamped |-> r.stamped]

Absent == [state |-> "absent", stop |-> FALSE, sent |-> FALSE, finish |-> "none",
           by |-> "server", stamped |-> FALSE, node |-> Bound, cleaned |-> FALSE]

Exists(s) == record[s].state # "absent"
Over(s) == record[s].state \in Terminal

\* A write that may fail: the record is as `new` says, or as it was.
Written(s, new) ==
    \/ record' = [record EXCEPT ![s] = new]
    \/ "disk" \in Faults /\ UNCHANGED record

\* Slip: a process that was on record once is taken to run.
OwnerNoted(s, r) ==
    /\ r.stamped
    /\ r.by = "server" => up[s]

\* ps says whether a process runs and when it started; nothing proves one
\* that was recorded without its start time.
OwnerAlive(s, r) ==
    /\ r.stamped
    /\ IF r.by = "server" THEN up[s] ELSE owner[s] \notin {"none", "ended"}

\* A server does not look for itself.
AskedItself(s, r) == r.by = "server" /\ up[s]

Stamps == {TRUE} \cup (IF "ps" \in Faults THEN {FALSE} ELSE {})

-----------------------------------------------------------------------------
(* Answers                                                                 *)

\* An error carries `effect`: "none" says that nothing happened.
Answers ==
    [kind : {"none", "error", "started", "reused", "read", "stop"},
     of : Starts \cup {NoSession}, state : States \cup {"absent"},
     effect : {"none", "unknown"}]
NoAnswer == [kind |-> "none", of |-> NoSession, state |-> "absent", effect |-> "none"]

Told(kind, s, st) == [kind |-> kind, of |-> s, state |-> st, effect |-> "none"]
Refused(s, effect) == [kind |-> "error", of |-> s, state |-> "absent", effect |-> effect]

\* The call p returns: a start's server goes on reading its stdin, a client
\* that asks may ask again.
Return(p, a) ==
    /\ pc' = [pc EXCEPT ![p] = IF p \in Starts THEN "done" ELSE "idle"]
    /\ answer' = [answer EXCEPT ![p] = a]
    /\ told' = IF a.state = "unknown"
               THEN [told EXCEPT ![a.of] = @ \cup {seen[p].by}] ELSE told
    /\ seen' = [seen EXCEPT ![p] = Glance(Absent)]

Goto(p, step) == pc' = [pc EXCEPT ![p] = step]

\* Sessions that some client has the handle of.
Handed == {answer[c].of : c \in Starts} \ {NoSession}

-----------------------------------------------------------------------------
(* session.start                                                           *)

Init ==
    /\ setting \in Settings
    /\ pc = [p \in Calls |-> IF p \in setting.calls THEN "idle" ELSE "done"]
    /\ target = [p \in Calls |-> IF p \in Starts THEN p ELSE NoSession]
    /\ wants = [p \in Calls |-> IF p \in Starts THEN "start" ELSE "read"]
    /\ seen = [p \in Calls |-> Glance(Absent)]
    /\ answer = [p \in Calls |-> NoAnswer]
    /\ up = [c \in Starts |-> c \in setting.calls]
    /\ record = [s \in Starts |-> Absent]
    /\ holder = [k \in Keys |-> NoSession]
    /\ owner = [s \in Starts |-> "none"]
    /\ heard = [s \in Starts |-> "none"]
    /\ agent = [s \in Starts |-> "none"]
    /\ ranOn = [s \in Starts |-> NoNode]
    /\ bound = Bound
    /\ told = [s \in Starts |-> {}]

\* find_key: a key that is taken is answered from its record, before the
\* Runtime is asked anything.
FindKey(c) ==
    /\ pc[c] = "idle"
    /\ IF holder[KeyOf[c]] = NoSession
       THEN Goto(c, "create") /\ UNCHANGED target
       ELSE Goto(c, "reuse") /\ target' = [target EXCEPT ![c] = holder[KeyOf[c]]]
    /\ UNCHANGED <<wants, seen, answer, up, disk, runVars, world, told>>

\* Whatever refuses a start that created nothing: the guard that preflight()
\* saw held or abandoned, the configuration, the store.
RefuseStart(c) ==
    /\ pc[c] \in {"idle", "create"}
    /\ Return(c, Refused(NoSession, "none"))
    /\ UNCHANGED <<target, wants, up, disk, runVars, world>>

\* Store::create, bound to the node that the configuration gave.
Create(c) ==
    /\ pc[c] = "create"
    /\ \E stamped \in Stamps :
        record' = [record EXCEPT ![c] =
            [Absent EXCEPT !.state = "starting", !.stamped = stamped, !.node = bound]]
    /\ Goto(c, "claim")
    /\ UNCHANGED <<target, wants, seen, answer, up, holder, runVars, world, told>>

\* Slip: find_key's answer is relied on, and the key is written over.
ClaimKeyUnasked(c) ==
    /\ pc[c] = "claim"
    /\ holder' = [holder EXCEPT ![KeyOf[c]] = c]
    /\ Goto(c, "detach")
    /\ UNCHANGED <<target, wants, seen, answer, up, record, runVars, world, told>>

\* claim_key looks again, under the lock it writes under.
ClaimKey(c) ==
    /\ pc[c] = "claim"
    /\ holder[KeyOf[c]] = NoSession
    /\ holder' = [holder EXCEPT ![KeyOf[c]] = c]
    /\ Goto(c, "detach")
    /\ UNCHANGED <<target, wants, seen, answer, up, record, runVars, world, told>>

ClaimHeld(c) ==
    /\ pc[c] = "claim"
    /\ holder[KeyOf[c]] # NoSession
    /\ Written(c, Absent)
    /\ target' = [target EXCEPT ![c] = holder[KeyOf[c]]]
    /\ Goto(c, "reuse")
    /\ UNCHANGED <<wants, seen, answer, up, holder, runVars, world, told>>

ClaimFails(c) ==
    /\ "disk" \in Faults
    /\ pc[c] = "claim"
    /\ Written(c, Absent)
    /\ Return(c, Refused(NoSession, "none"))
    /\ UNCHANGED <<target, wants, up, holder, runVars, world>>

\* The owner runs from here on; its pid is not on record yet.
Detach(c) ==
    /\ pc[c] = "detach"
    /\ owner' = [owner EXCEPT ![c] = "begun"]
    /\ Goto(c, "stamp")
    /\ UNCHANGED <<target, wants, seen, answer, up, disk, heard, agent, ranOn, world, told>>

DetachFails(c) ==
    /\ "spawn" \in Faults
    /\ pc[c] = "detach"
    /\ IF Over(c) THEN UNCHANGED record
       ELSE Written(c, [record[c] EXCEPT !.state = "failed", !.finish = "error"])
    /\ Return(c, Refused(c, "none"))
    /\ UNCHANGED <<target, wants, up, holder, runVars, world>>

Stamp(c) ==
    /\ pc[c] = "stamp"
    /\ \E stamped \in Stamps :
        record' = [record EXCEPT ![c].by = "process", ![c].stamped = stamped]
    /\ Return(c, Told("started", c, "starting"))
    /\ UNCHANGED <<target, wants, up, holder, runVars, world>>

StampFails(c) ==
    /\ "disk" \in Faults
    /\ pc[c] = "stamp"
    /\ Return(c, Refused(NoSession, "none"))
    /\ UNCHANGED <<target, wants, up, disk, runVars, world>>

\* reuse_or_conflict: a key names its session, whatever became of it, and
\* stands for one launch: the input and the node that it resolves to.
Reuse(c) ==
    LET s == target[c] IN
    /\ pc[c] = "reuse"
    /\ IF ~Exists(s)
       THEN Return(c, Refused(s, "unknown"))
       ELSE IF InputOf[s] # InputOf[c] \/ record[s].node # bound
       THEN Return(c, Refused(s, "none"))
       ELSE /\ seen' = [seen EXCEPT ![c] = Glance(record[s])]
            /\ Goto(c, "check")
            /\ UNCHANGED <<answer, told>>
    /\ UNCHANGED <<target, wants, up, disk, runVars, world>>

\* The client closes stdin: the server ends after the call it has in hand.
ServerEnds(c) ==
    /\ pc[c] \in {"idle", "done"}
    /\ up[c]
    /\ up' = [up EXCEPT ![c] = FALSE]
    /\ Goto(c, "done")
    /\ UNCHANGED <<target, wants, seen, answer, disk, runVars, world, told>>

ServerKilled(c) ==
    /\ "kill" \in Faults
    /\ up[c]
    /\ pc[c] \notin {"idle", "done"}
    /\ up' = [up EXCEPT ![c] = FALSE]
    /\ Goto(c, "done")
    /\ seen' = [seen EXCEPT ![c] = Glance(Absent)]
    /\ UNCHANGED <<target, wants, answer, disk, runVars, world, told>>

-----------------------------------------------------------------------------
(* observe(): the state to report of a record                              *)

\* What follows it: a start reuses, a stop of something over is done.
Observed(p, st) ==
    IF wants[p] = "stop" /\ st \notin Terminal
    THEN /\ Goto(p, "mark")
         /\ seen' = [seen EXCEPT ![p] = Glance(Absent)]
         /\ UNCHANGED <<answer, told>>
    ELSE Return(p, Told(IF wants[p] = "start" THEN "reused" ELSE wants[p], target[p], st))

CheckOwner(p) ==
    LET s == target[p]
        r == seen[p] IN
    /\ pc[p] = "check"
    /\ \/ /\ r.state \in Terminal \/ OwnerAlive(s, r) \/ AskedItself(s, r)
          /\ Observed(p, r.state)
       \/ /\ r.state \notin Terminal
          /\ ~OwnerAlive(s, r) \/ "ps" \in Faults
          /\ Goto(p, "reread")
          /\ UNCHANGED <<seen, answer, told>>
    /\ UNCHANGED <<target, wants, up, disk, runVars, world>>

\* Slip: the record read before ps was asked is all there is.
RereadNothing(p) ==
    /\ pc[p] = "reread"
    /\ Observed(p, "unknown")
    /\ UNCHANGED <<target, wants, up, disk, runVars, world>>

\* Whatever a gone owner was ever going to write is on disk by now.
Reread(p) ==
    /\ pc[p] = "reread"
    /\ Observed(p, IF Over(target[p]) THEN record[target[p]].state ELSE "unknown")
    /\ UNCHANGED <<target, wants, up, disk, runVars, world>>

-----------------------------------------------------------------------------
(* session.status, session.result, session.stop                            *)

Ask(p, s, what) ==
    /\ pc[p] = "idle"
    /\ s \in Handed
    /\ target' = [target EXCEPT ![p] = s]
    /\ wants' = [wants EXCEPT ![p] = what]
    /\ seen' = [seen EXCEPT ![p] = Glance(record[s])]
    /\ answer' = [answer EXCEPT ![p] = NoAnswer]
    /\ Goto(p, "check")
    /\ UNCHANGED <<up, disk, runVars, world, told>>

AskStatus(p, s) == Ask(p, s, "read")
AskStop(p, s) == Ask(p, s, "stop")

\* A result that was cleaned away is an error; any other is a status with
\* the outcome that belongs to the state.
AskResult(p, s) ==
    IF record[s].cleaned
    THEN /\ pc[p] = "idle"
         /\ s \in Handed
         /\ target' = [target EXCEPT ![p] = s]
         /\ wants' = [wants EXCEPT ![p] = "read"]
         /\ Return(p, Refused(s, "none"))
         /\ UNCHANGED <<up, disk, runVars, world>>
    ELSE Ask(p, s, "read")

\* The stop goes on record: a run not sent yet never will be, for a run that
\* was sent the Agent has to be asked.
Mark(p) ==
    LET s == target[p]
        marked == [record[s] EXCEPT !.stop = TRUE] IN
    /\ pc[p] = "mark"
    /\ bound = record[s].node
    /\ IF Over(s)
       THEN UNCHANGED record /\ Return(p, Told("stop", s, record[s].state))
       ELSE IF record[s].sent
       THEN /\ record' = [record EXCEPT ![s] = marked]
            /\ Goto(p, "tell")
            /\ UNCHANGED <<seen, answer, told>>
       ELSE /\ record' = [record EXCEPT ![s] = [marked EXCEPT !.state = "stopping"]]
            /\ Return(p, Told("stop", s, "stopping"))
    /\ UNCHANGED <<target, wants, up, holder, runVars, world>>

\* The workspace was bound to another node meanwhile, or the record cannot
\* be written.
MarkFails(p) ==
    /\ pc[p] = "mark"
    /\ bound # record[target[p]].node \/ "disk" \in Faults
    /\ Return(p, Refused(target[p], "none"))
    /\ UNCHANGED <<target, wants, up, disk, runVars, world>>

\* Slip: a run that has not got there is not fenced off.
StoppedIfThere(s) ==
    IF ranOn[s] = record[s].node /\ agent[s] = "running" THEN {"stopping", "over"}
    ELSE {agent[s]}

\* Slip: the stop only fences off what does not run yet.
StoppedIfNotThere(s) ==
    IF ranOn[s] \in {NoNode, record[s].node} /\ agent[s] \in {"none", "asked"}
    THEN {"fenced"} ELSE {agent[s]}

\* What an exact stop does on the node the session is bound to: a run that
\* has not got there is fenced off, one that runs is signalled.  A run that
\* was sent elsewhere is out of its reach.
Stopped(s) ==
    IF ranOn[s] \notin {NoNode, record[s].node} THEN {agent[s]}
    ELSE CASE agent[s] \in {"none", "asked"} -> {"fenced"}
           [] agent[s] = "running" -> {"stopping", "over"}
           [] OTHER -> {agent[s]}

Tell(p) ==
    LET s == target[p] IN
    /\ pc[p] = "tell"
    /\ bound = record[s].node
    /\ \E now \in Stopped(s) : agent' = [agent EXCEPT ![s] = now]
    /\ Goto(p, "confirm")
    /\ UNCHANGED <<target, wants, seen, answer, up, disk, owner, heard, ranOn, world, told>>

TellRebound(p) ==
    /\ pc[p] = "tell"
    /\ bound # record[target[p]].node
    /\ Return(p, Refused(target[p], "none"))
    /\ UNCHANGED <<target, wants, up, disk, runVars, world>>

\* A connection that was never made brought nothing; one that broke may have
\* brought the stop.
TellFails(p) ==
    LET s == target[p] IN
    /\ "link" \in Faults
    /\ pc[p] = "tell"
    /\ \/ UNCHANGED agent /\ Return(p, Refused(s, "none"))
       \/ /\ \E now \in Stopped(s) \cup {agent[s]} : agent' = [agent EXCEPT ![s] = now]
          /\ Return(p, Refused(s, "unknown"))
    /\ UNCHANGED <<target, wants, up, disk, owner, heard, ranOn, world>>

\* Slip: the state the call knew is written, whatever the record says by now.
ConfirmAnyway(p) ==
    LET s == target[p] IN
    /\ pc[p] = "confirm"
    /\ record' = [record EXCEPT ![s].stop = TRUE, ![s].state = "stopping"]
    /\ Return(p, Told("stop", s, "stopping"))
    /\ UNCHANGED <<target, wants, up, holder, runVars, world>>

Confirm(p) ==
    LET s == target[p]
        st == IF Over(s) THEN record[s].state ELSE "stopping" IN
    /\ pc[p] = "confirm"
    /\ record' = [record EXCEPT ![s].stop = TRUE, ![s].state = st]
    /\ Return(p, Told("stop", s, st))
    /\ UNCHANGED <<target, wants, up, holder, runVars, world>>

ConfirmFails(p) ==
    /\ "disk" \in Faults
    /\ pc[p] = "confirm"
    /\ Return(p, Refused(target[p], "none"))
    /\ UNCHANGED <<target, wants, up, disk, runVars, world>>

\* The server of the one who asks is killed, or its client leaves.
AskEnds(p) ==
    /\ "kill" \in Faults
    /\ pc[p] \notin {"idle", "done"}
    /\ Goto(p, "idle")
    /\ seen' = [seen EXCEPT ![p] = Glance(Absent)]
    /\ UNCHANGED <<target, wants, answer, up, disk, runVars, world, told>>

-----------------------------------------------------------------------------
(* The owner of a run: run_to_end()                                        *)

\* Slip: only an end that is on record keeps the run from being sent.
BeginRegardless(s) ==
    /\ owner[s] = "begun"
    /\ record' = [record EXCEPT ![s] =
           IF Over(s) THEN @ ELSE [@ EXCEPT !.state = "running", !.sent = TRUE]]
    /\ owner' = [owner EXCEPT ![s] = IF Over(s) THEN "ended" ELSE "sending"]
    /\ UNCHANGED <<callVars, up, holder, heard, agent, ranOn, world, told>>

\* Slip: a run that is not sent, for a stop got there, ends with nothing said.
BeginUnexplained(s) ==
    /\ owner[s] = "begun"
    /\ record' = [record EXCEPT ![s] =
           IF Over(s) THEN @
           ELSE IF @.stop THEN [@ EXCEPT !.state = "failed"]
                ELSE [@ EXCEPT !.state = "running", !.sent = TRUE]]
    /\ owner' = [owner EXCEPT ![s] =
           IF Over(s) \/ record[s].stop THEN "ended" ELSE "sending"]
    /\ UNCHANGED <<callVars, up, holder, heard, agent, ranOn, world, told>>

\* Send the run unless a stop got there first, decided in one update.
Begin(s) ==
    LET unsent == [record[s] EXCEPT !.state = "failed", !.finish = "error"]
        sent == [record[s] EXCEPT !.state = "running", !.sent = TRUE] IN
    /\ owner[s] = "begun"
    /\ record' = [record EXCEPT ![s] =
           IF Over(s) THEN @ ELSE IF @.stop THEN unsent ELSE sent]
    /\ owner' = [owner EXCEPT ![s] =
           IF Over(s) \/ record[s].stop THEN "ended" ELSE "sending"]
    /\ UNCHANGED <<callVars, up, holder, heard, agent, ranOn, world, told>>

BeginFails(s) ==
    /\ "disk" \in Faults
    /\ owner[s] = "begun"
    /\ owner' = [owner EXCEPT ![s] = "unsent"]
    /\ UNCHANGED <<callVars, up, disk, heard, agent, ranOn, world, told>>

\* Not recorded as sent, so not sent.
GiveUp(s) ==
    /\ owner[s] = "unsent"
    /\ IF Over(s) THEN UNCHANGED record
       ELSE Written(s, [record[s] EXCEPT !.state = "failed", !.finish = "error"])
    /\ owner' = [owner EXCEPT ![s] = "ended"]
    /\ UNCHANGED <<callVars, up, holder, heard, agent, ranOn, world, told>>

\* run_print() reads the configuration anew: the run goes to the node it
\* names now.  A fence is where the stop left it.
Send(s) ==
    /\ owner[s] = "sending"
    /\ ranOn' = [ranOn EXCEPT ![s] = bound]
    /\ agent' = [agent EXCEPT ![s] =
           IF @ = "fenced" /\ bound = record[s].node THEN @ ELSE "asked"]
    /\ owner' = [owner EXCEPT ![s] = "waiting"]
    /\ UNCHANGED <<callVars, up, disk, heard, world, told>>

\* ssh says that it never got there, or the configuration no longer serves.
NotSent(s) ==
    /\ "link" \in Faults
    /\ owner[s] = "sending"
    /\ heard' = [heard EXCEPT ![s] = "refused"]
    /\ owner' = [owner EXCEPT ![s] = "reporting"]
    /\ UNCHANGED <<callVars, up, disk, agent, ranOn, world, told>>

\* Slip: a run whose stop was taken counts as one that ended.
HearStopped(s) ==
    /\ owner[s] = "waiting"
    /\ \E what \in IF agent[s] \in {"fenced", "refused"} THEN {"refused"}
                   ELSE IF agent[s] = "over" THEN {"completed", "failed"}
                   ELSE IF agent[s] = "stopping" THEN {"failed"} ELSE {} :
           heard' = [heard EXCEPT ![s] = what]
    /\ owner' = [owner EXCEPT ![s] = "reporting"]
    /\ UNCHANGED <<callVars, up, disk, agent, ranOn, world, told>>

\* after_dispatch() and finish_from(): a refusal of the Agent, or the run's
\* own end, which is a failure when it was stopped.
Hear(s) ==
    /\ owner[s] = "waiting"
    /\ \E what \in IF agent[s] \in {"fenced", "refused"} THEN {"refused"}
                   ELSE IF agent[s] = "over" THEN {"completed", "failed"} ELSE {} :
           heard' = [heard EXCEPT ![s] = what]
    /\ owner' = [owner EXCEPT ![s] = "reporting"]
    /\ UNCHANGED <<callVars, up, disk, agent, ranOn, world, told>>

Lose(s) ==
    /\ "link" \in Faults
    /\ owner[s] = "waiting"
    /\ heard' = [heard EXCEPT ![s] = "lost"]
    /\ owner' = [owner EXCEPT ![s] = "reporting"]
    /\ UNCHANGED <<callVars, up, disk, agent, ranOn, world, told>>

\* Slip: a connection that broke counts as a refusal.
VerdictOfRefusal(what) ==
    IF what \in {"completed", "failed"} THEN [state |-> what, finish |-> "exit"]
    ELSE [state |-> "failed", finish |-> "error"]

Verdict(what) ==
    CASE what = "completed" -> [state |-> "completed", finish |-> "exit"]
      [] what = "failed" -> [state |-> "failed", finish |-> "exit"]
      [] what = "refused" -> [state |-> "failed", finish |-> "error"]
      [] OTHER -> [state |-> "unknown", finish |-> "error"]

Report(s) ==
    LET end == Verdict(heard[s]) IN
    /\ owner[s] = "reporting"
    /\ IF Over(s) THEN UNCHANGED record
       ELSE Written(s, [record[s] EXCEPT !.state = end.state, !.finish = end.finish])
    /\ owner' = [owner EXCEPT ![s] = "ended"]
    /\ UNCHANGED <<callVars, up, holder, heard, agent, ranOn, world, told>>

OwnerKilled(s) ==
    /\ "slay" \in Faults
    /\ owner[s] \notin {"none", "ended"}
    /\ owner' = [owner EXCEPT ![s] = "ended"]
    /\ UNCHANGED <<callVars, up, disk, heard, agent, ranOn, world, told>>

-----------------------------------------------------------------------------
(* The Agent, cleanup and the configuration                                *)

AgentMoves(s, from, to) ==
    /\ agent[s] \in from
    /\ agent' = [agent EXCEPT ![s] = to]
    /\ UNCHANGED <<callVars, up, disk, owner, heard, ranOn, world, told>>

\* A request that was delivered is served even when nobody waits any more.
AgentStarts(s) == AgentMoves(s, {"asked"}, "running")
AgentRefuses(s) == AgentMoves(s, {"asked"}, "refused")
AgentEnds(s) == AgentMoves(s, {"running"}, "over")
AgentStops(s) == AgentMoves(s, {"stopping"}, "over")

\* Store::clean() of what was previewed, looked at again under the lock.
Clean(s) ==
    /\ record[s].state \in {"completed", "failed"}
    /\ ~record[s].cleaned
    /\ record' = [record EXCEPT ![s].cleaned = TRUE]
    /\ UNCHANGED <<callVars, up, holder, runVars, world, told>>

Rebind ==
    /\ "rebind" \in Faults
    /\ bound' \in Nodes
    /\ UNCHANGED <<callVars, up, disk, runVars, setting, told>>

-----------------------------------------------------------------------------

StartStep(c) ==
    \/ FindKey(c) \/ RefuseStart(c) \/ Create(c)
    \/ ClaimKey(c) \/ ClaimHeld(c) \/ ClaimFails(c)
    \/ Detach(c) \/ DetachFails(c) \/ Stamp(c) \/ StampFails(c)
    \/ Reuse(c) \/ ServerEnds(c) \/ ServerKilled(c)

AskStep(p) ==
    \/ \E s \in Starts : AskStatus(p, s) \/ AskResult(p, s) \/ AskStop(p, s)
    \/ Mark(p) \/ MarkFails(p) \/ Tell(p) \/ TellRebound(p) \/ TellFails(p)
    \/ Confirm(p) \/ ConfirmFails(p) \/ AskEnds(p)

OwnerStep(s) ==
    \/ Begin(s) \/ BeginFails(s) \/ GiveUp(s) \/ Send(s) \/ NotSent(s)
    \/ Hear(s) \/ Lose(s) \/ Report(s) \/ OwnerKilled(s)

AgentStep(s) == AgentStarts(s) \/ AgentRefuses(s) \/ AgentEnds(s) \/ AgentStops(s)

Next ==
    \/ \E c \in Starts : StartStep(c)
    \/ \E p \in Calls : CheckOwner(p) \/ Reread(p)
    \/ \E p \in Asks : AskStep(p)
    \/ \E s \in Starts : OwnerStep(s) \/ AgentStep(s) \/ Clean(s)
    \/ Rebind

Spec == Init /\ [][Next]_vars

-----------------------------------------------------------------------------
(* Safety                                                                  *)

Steps == {"idle", "create", "claim", "detach", "stamp", "reuse", "done",
          "check", "reread", "mark", "tell", "confirm"}

CallsOK ==
    /\ pc \in [Calls -> Steps]
    /\ target \in [Calls -> Starts \cup {NoSession}]
    /\ wants \in [Calls -> {"start", "read", "stop"}]
    /\ seen \in [Calls -> Glances]
    /\ answer \in [Calls -> Answers]
    /\ told \in [Starts -> SUBSET {"server", "process"}]

DiskOK ==
    /\ record \in [Starts -> Records]
    /\ holder \in [Keys -> Starts \cup {NoSession}]

RunsOK ==
    /\ owner \in [Starts -> {"none", "begun", "unsent", "sending", "waiting",
                             "reporting", "ended"}]
    /\ heard \in [Starts -> {"none", "completed", "failed", "refused", "lost"}]
    /\ agent \in [Starts -> {"none", "asked", "fenced", "refused", "running",
                             "stopping", "over"}]
    /\ ranOn \in [Starts -> Nodes \cup {NoNode}]

WorldOK == setting \in Settings /\ bound \in Nodes /\ up \in [Starts -> BOOLEAN]

Types == CallsOK /\ DiskOK /\ RunsOK /\ WorldOK

\* The parts of a record agree, however many processes write them: an end has
\* its reason or its exit, a run its dispatch, a stop in hand its marker.
Coherent ==
    \A s \in Starts :
        /\ Over(s) <=> record[s].finish # "none"
        /\ record[s].state = "completed" => record[s].finish = "exit"
        /\ record[s].state = "unknown" => record[s].finish = "error"
        /\ record[s].state = "running" \/ record[s].finish = "exit" => record[s].sent
        /\ record[s].state = "stopping" => record[s].stop
        /\ record[s].cleaned => Over(s)

\* Every variable keeps its type, and no record contradicts itself.
TypeOK == Types /\ Coherent

\* The inductive invariant that the next properties rest on, in parts.  A
\* call knows the session it is about:
Aimed ==
    /\ \A p \in Calls :
         pc[p] \in {"reuse", "check", "reread", "mark", "tell", "confirm"} =>
            target[p] \in Starts
    /\ \A c \in Starts : wants[c] = "start"

Holds(s) == holder[KeyOf[s]] = s

Named == \A k \in Keys : holder[k] # NoSession => KeyOf[holder[k]] = k

\* nothing is begun of a session, or said of it, before its key is its own;
Begun ==
    \A c \in Starts :
        /\ pc[c] \in {"idle", "create", "claim"} => ~Holds(c)
        /\ ~Holds(c) => /\ ~record[c].stop /\ ~record[c].sent /\ ~Over(c)
                        /\ owner[c] = "none" /\ agent[c] = "none"
                        /\ pc[c] \notin {"detach", "stamp"}

\* whoever finds a key taken goes on with the session that holds it;
Reusing ==
    \A c \in Starts : pc[c] \in {"reuse", "check", "reread"} =>
        target[c] = holder[KeyOf[c]]

Answered ==
    \A c \in Starts : answer[c].of # NoSession => answer[c].of = holder[KeyOf[c]]

\* clients ask about such sessions alone, and the Agent is told to stop what
\* was sent;
Asking ==
    \A p \in Asks :
        /\ pc[p] \in {"check", "reread", "mark", "tell", "confirm"} => Holds(target[p])
        /\ pc[p] \in {"tell", "confirm"} => record[target[p]].sent

\* what the Agent may have was recorded as sent, by an owner that then keeps
\* the record open until it reports;
Dispatched ==
    \A s \in Starts :
        /\ pc[s] = "detach" => owner[s] = "none"
        /\ owner[s] \in {"none", "begun", "unsent"} => ~record[s].sent
        /\ owner[s] \in {"sending", "waiting", "reporting"} => record[s].sent /\ ~Over(s)
        /\ agent[s] # "none" => record[s].sent
        /\ owner[s] = "sending" => agent[s] \in {"none", "fenced"}

\* and it reports, and the record says, what is so on the Agent for good.
NeverRan == {"none", "fenced", "refused"}

Reported(s) ==
    owner[s] = "reporting" =>
        /\ heard[s] \in {"completed", "failed"} => agent[s] = "over"
        /\ heard[s] = "refused" => agent[s] \in NeverRan

Settled(s) ==
    record[s].state \in {"completed", "failed"} =>
        agent[s] \in IF record[s].finish = "error" THEN NeverRan ELSE NeverRan \cup {"over"}

SessionInv ==
    /\ Aimed /\ Named /\ Begun /\ Reusing /\ Answered /\ Asking /\ Dispatched
    /\ \A s \in Starts : Reported(s) /\ Settled(s)

\* However many starts are made with one key, at once or after a crash, the
\* Agent is asked to run at most one of their sessions.
OneRunPerKey ==
    \A c, d \in Starts :
        c # d /\ KeyOf[c] = KeyOf[d] => agent[c] = "none" \/ agent[d] = "none"

\* Every answer to a start with one key, be it an error, names one session.
AnswersAgree ==
    \A c, d \in Starts :
        /\ KeyOf[c] = KeyOf[d]
        /\ NoSession \notin {answer[c].of, answer[d].of}
        => answer[c].of = answer[d].of

\* "completed" and "failed" are recorded only of a session of which nothing
\* runs or is on its way to the Agent, and a failure for which only a reason
\* is known is of a session that never ran.
SettledIsTrue ==
    \A s \in Starts : record[s].state \in {"completed", "failed"} =>
        /\ agent[s] \notin {"asked", "running", "stopping"}
        /\ record[s].finish = "error" => agent[s] # "over"

\* A stop that was answered with "stopping" has taken: the run is stopped,
\* is being stopped, or will never begin -- wherever it was when the stop
\* was asked for, but on another node than its session is bound to.
StopHasTaken ==
    \A p \in Asks : answer[p].kind = "stop" /\ answer[p].state = "stopping" =>
        LET s == answer[p].of IN
        \/ ranOn[s] \notin {NoNode, record[s].node}
        \/ /\ agent[s] \notin {"asked", "running"}
           /\ agent[s] = "none" => ~record[s].sent /\ owner[s] # "sending"

\* What a record says of an end, a stop and a dispatch is never taken back,
\* by whichever of the processes that rewrite it.
NothingIsTakenBack ==
    [][\A s \in Starts :
        /\ Over(s) => /\ record'[s].state = record[s].state
                      /\ record'[s].finish = record[s].finish
        /\ record[s].stop => record'[s].stop
        /\ record[s].sent => record'[s].sent]_vars

\* The sessions are what SessionPromise says a client may rely on.
Stage(s) == IF record[s].sent THEN "sent"
            ELSE IF record[s].stop \/ Over(s) THEN "barred" ELSE "idle"
Work(s) == IF agent[s] \in {"running", "stopping"} THEN "going"
           ELSE IF agent[s] = "over" THEN "over" ELSE "none"
Said(s) == IF record[s].state \in {"completed", "failed"} THEN "settled"
           ELSE IF record[s].state = "unknown" THEN "unknown" ELSE "open"

Promise == INSTANCE SessionPromise WITH
    Sessions <- Starts, Nobody <- NoSession, named <- holder,
    stage <- [s \in Starts |-> Stage(s)],
    work <- [s \in Starts |-> Work(s)],
    verdict <- [s \in Starts |-> Said(s)]

KeepsPromise == Promise!Spec

\* A session that a client was told is "unknown", for ps did not show its own
\* process any more, has not ended after all: what that process wrote between
\* the first look at the record and ps is not missed.
UnknownIsFinal ==
    \A s \in Starts : "process" \in told[s] /\ "ps" \notin Faults =>
        record[s].state \notin {"completed", "failed"}

-----------------------------------------------------------------------------
(* Liveness                                                                *)

\* Servers, owners and ps run, ssh and the Agent answer or time out.
Runs ==
    /\ \A c \in Starts :
        /\ WF_vars(FindKey(c)) /\ WF_vars(Create(c)) /\ WF_vars(ClaimKey(c) \/ ClaimHeld(c))
        /\ WF_vars(Detach(c)) /\ WF_vars(Stamp(c)) /\ WF_vars(Reuse(c))
    /\ \A p \in Calls : WF_vars(CheckOwner(p)) /\ WF_vars(Reread(p))
    /\ \A s \in Starts :
        /\ WF_vars(Begin(s)) /\ WF_vars(GiveUp(s)) /\ WF_vars(Send(s))
        /\ WF_vars(Hear(s)) /\ WF_vars(Report(s))
        /\ WF_vars(AgentStarts(s) \/ AgentRefuses(s)) /\ WF_vars(AgentStops(s))

\* A run left alone may take as long as it likes.
PatientSpec == Spec /\ Runs

\* What status says of s, asked now of a server while ps answers.
StatusOf(s) ==
    IF Over(s) THEN record[s].state
    ELSE IF OwnerAlive(s, record[s]) THEN record[s].state ELSE "unknown"

\* A session whose handle a client was given is over in the end, for whoever
\* asks, unless its run goes on: nobody polls for ever a session of which
\* nothing runs.
EverySessionEnds ==
    \A s \in Starts :
        (s \in Handed /\ agent[s] # "running")
            ~> (StatusOf(s) \in Terminal \/ agent[s] = "running")

\* A session that was stopped is over in the end, however long its run would
\* have gone on.
StoppedSessionEnds ==
    \A s \in Starts :
        (\E p \in Asks : answer[p] = Told("stop", s, "stopping"))
            ~> (StatusOf(s) \in Terminal)
=============================================================================
