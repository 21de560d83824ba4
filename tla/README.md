# A TLA+ model of ccnm

ccnm lets an AI agent on one machine (the *Agent Node*) work on a project that
lives on another (the *Runtime*). The agent's tools are served by `ccnm
mcp-serve` on the Runtime; sessions are started by people (`ccnm work`, `ccnm
run`) or by programs over JSON-RPC (`ccnm rpc`). What must not go wrong is
always the same thing: two writers on one working tree, or somebody told that
nothing runs, or nothing will, when something does.

The modules here are translated from `src/`; paths below are relative to
`src/crates/ccnm-core/src/`. `PROJECT.json` maps every definition to the lines
it models.

## Inventory

| Part | State it keeps | Operations | What is hard | What makes it correct |
|---|---|---|---|---|
| Write guard, `mcp/write_guard.rs` | a lock file per working tree: its flock, its one-line marker | `acquire`, `Drop`, `abandon`, `observe`; a person deletes a marker | crashes at any step; an flock shared with forked children; observers met by writers; a deleted and re-created name | one writer; no writer over a dead one's commands; a tree is stranded only for cause |
| Commands, `mcp/exec.rs`, `mcp/jobs.rs`, `process.rs` | registry of running commands, a `Stop`/`Stopper` each, status files | `exec_command`, `stop_command`, cancel, time-out, `stop_all` | four independent stoppers; a stop before the child is known; no thread to be had; children that leave the group | a stop asked for is carried out; nothing runs unreported; answers are final |
| Orphans, `mcp/orphans.rs` | none of its own: `/proc` | `adopt`, `Sweeper::start`, `finish` | the listing is not a snapshot | what survives keeps the guard |
| Server loop, `mcp/server.rs` | the guard, the runtime, the relay | tool calls, `run`'s end | order of the five things the end does | ends; releases the guard only over a quiet tree |
| Output retention and pages, `mcp/retention.rs`, `mcp/output.rs` | run directories, `running` markers and their locks | `begin`, `finish`, `evict`, `discard_started`, `sweep`, `read_output` | servers of one session evict each other's runs; a killed server's marker; a stream that grows under its reader | a run in progress is never removed; the limits hold when all is quiet; a page loses nothing and cuts no character |
| RPC sessions, `rpc/session.rs`, `rpc/store.rs` | a record per session, start-key buckets, output copies | `session.start/status/result/stop`, `rpc-run`, cleanup | several processes rewrite one record; a start retried; a stop racing the dispatch; a dead owner | one run per key; a stopped run is never sent; a terminal state stays |
| Agent-side sessions, `session.rs`, `work.rs`, `launcher.rs` | a directory per session: meta, pids, `exit`, `stopping`, `control.lock` | `agent-run`, `fence`, `supervise`, `stop_assigned`, `stop_print_session`, `wait_for_outcome` | a stop before, during or after its run; a late or killed controller; a supervisor that died; groups that outlive their leader | a fenced session never starts; a confirmed stop has nothing behind it; the outcome is true |
| Controller, `controller.rs` | a unix socket | `bind`, `handle`, `start_session` | two controllers and a stale socket | one controller answers |
| Patches, `mcp/patch.rs` | staged files, backups, a journal | plan, stage, commit, rollback, `check_abandoned` | a failure or a crash between two renames | all files or none, or it is said |
| Relay, `mcp/relay.rs` | a pool of MCP servers by group | `call`, `close_all` | a call that opens a server while the session ends | nothing outlives the session unnamed |
| Cleanup, `cleanup.rs` | none of its own: three machines' records | preview, `apply`, purge | what was previewed changes; a call given up goes on at its far end; a machine that does not answer | nothing in use is removed; what is kept can still be found; a workspace is forgotten only when the Agent that was asked has nothing left |
| Configuration, `configedit.rs`, `config.rs` | the configuration file | `save` | two edits at once | no edit is lost |
| Carry and handover, `session/carry.rs`, `handover.rs` | a note in the session's directory | `leave`, `take` | two conversations at once | taken once |
| Work, tmux, on, overview | terminal, lists of sessions | interactive | supervision of a terminal | decisions are those of the parts above |
| File tools, skills, hooks, providers, quota, doctor, ssh, systemd, launchd, protocol types, command line | none between calls | pure functions, wrappers, parsers | | not concurrent |

How they interact: `run` in `mcp/server.rs` acquires the guard before it serves
and drops it last; `exec_command` admits, spawns and registers its commands in
`Jobs`; the end of `run` calls `stop_all`, drops the tokio runtime, closes the
relay, asks the sweeper what is left and hands that to `abandon`. An RPC start
observes the guard (never reserves it), writes its record and its key, starts
an owner process, which sends the run to the Agent over ssh; the Agent's
`agent-run` starts the supervisor under `control.lock`, and the agent's tools
bring up `mcp-serve` on the Runtime, where the guard decides.

## Modules

### `SingleWriter`, `WriteGuard`, `MCWriteGuard`, `WriteGuardProofs`

`SingleWriter` is the promise: write authority is granted to one server, only
when nobody has it and nothing that was started under it still runs.

`WriteGuard` is `mcp/write_guard.rs`, one action per step another process can
see: open (an inode, so that a deleted and re-created name is a different
file), try the lock up to `BUSY_RETRIES` more times, read the marker, write
`held`, sync, serve; on the way out write `released` or keep `held` with
`abandoned` under it, truncate, unlock. `working` is what the server started
that still runs; `forking` the children that share the descriptor and so the
flock until they exec. Every I/O step may fail, and every server may be killed
anywhere. `Recover` is the person of `left_held` and `docs/operations.md`, who
deletes a marker after proving that its owner and what it started are gone.
`observe` runs beside all of that.

`MCWriteGuard` gives the constants values. `WriteGuardProofs` holds the proofs.

### `GuardedWork`, `ExecSession`, `MCExecSession`, `ExecSessionProofs`

`WriteGuard` takes one thing on trust from a server: that it releases the guard
only when nothing it started is left (`EndServing`). `GuardedWork` says that for
one session, and `ExecSession` shows what the code does for it.

`ExecSession` has a command's call (`task`: admitted, spawned, attached, waited
for, reaped, captured, recorded), its entry in the registry, its `StopReason`,
one `phase` for each of those who may be stopping it (a cancel, `stop_command`,
the end of the session, `attach`'s late thread, the single attempt of
`background`, and the watchdog), and its processes: the leader, a member of its
group, and a stray that left the group with `setsid`; the last two may hold the
command's pipes. The end of `run` is `srv`: the registry is closed, a thread is
started for each stop and joined, what is left is named, the runtime is dropped
(which waits for every blocking call), the sweep ends what was adopted, and the
guard is dropped. `setting` is what the server runs on and is asked for, chosen
at the start from `Settings`: `adopts` is Linux's subreaper, without which it is
a Mac; `noThread` says where a thread may fail to start: `thread::Builder` in
`attach` and `background`, which the code answers for, and `std::thread::spawn`
in `pump` and `stop_all`, where it panics. `ExecSessionProofs` holds the proofs.

Abstracted: a command's output is its pipes being held; TERM is a process that
may end at any time; the grace periods are any amount of time; the window in
which a foreground call is waited for is the call not being answered.
`Started::wait` may also answer an error (`exec.rs:404`, `exec.rs:460`), where a
thread that reads a pipe has panicked or `wait` itself fails. What runs then is not
told apart from a wait that ends: the error of a foreground call is an answer like
another, and a background command whose status stays "running" is the alternative
"unrecorded" of `Record`.

### `SessionPromise`, `RpcSession`, `MCRpcSession`, `RpcSessionProofs`, `RpcAnswerProofs`

`SessionPromise` is what a client of `ccnm rpc` may rely on: a start key names
one session for ever and only that session is sent to the Agent; what a stop
barred is never sent; "completed" and "failed" are said only of what no longer
runs and never will.

`RpcSession` is `rpc/session.rs` over `rpc/store.rs`. `record` and `holder` are
the disk: a read-modify-write under the store's flock that ends in a rename is
one step, and everything between two of them is a step of `pc`. A start
(`FindKey`, `Create`, `ClaimKey`, `Detach`, `Stamp`, `Reuse`) has a server of its
own, which may be left by its client or killed at every step; who finds its key
taken compares the input and the node it was resolved to with the record's.
`observe` is the first read, `CheckOwner` (what `ps` says then, but of a server that
finds its own pid, which asks nobody: `AskedItself`) and `Reread`; a stop is `Mark`,
`Tell`, `Confirm`. The parts of a record are written by different processes, and
`TypeOK` says that they agree (`Coherent`): a state is final exactly when the record
says how it finished, and it is the state of that finish; what runs, or ended by
itself, was sent; what is stopping was asked to. `owner` is the process of `run_to_end` (`Begin`, `Send`,
`Hear`, `Report`), and `agent` is what an exact stop and the run's own request do
on the Agent in either order (`fenced` is the fence of a run that has not got
there). `setting` says which calls are made and which faults are met.

Abstracted: a record's times, timeouts and launch details; the pages of a run's
output; the reason for a refusal, but for its `effect`. A pid is never recycled:
`owner_started` is what the code has against that, and the model keeps only
whether it was recorded. Cleanup is its tombstone. `RpcSessionProofs` and
`RpcAnswerProofs` hold the proofs.

### `AgentPromise`, `AgentSession`, `MCAgentSession`, `AgentSessionProofs`

`AgentPromise` is what the Agent promises of a session whose id the Runtime
assigned: one request owns the id, the session begins once and never after a
confirmed stop, a stop is confirmed only when nothing runs, and how it ended is
said once and truly. It is the other side of `SessionPromise`: what
`RpcSession` takes for granted of an exact stop (`Stopped`).

`AgentSession` is `agent-run` (`run`), its request to the controller
(`request`), the supervisor (`sup`, `doomed`), the Agent CLI and its group
(`agent`, `kids`), and any number of stops (`stop`), which share a directory
(`disk`, one field for each file a decision is taken on), `control.lock`
(`lock`) and `ps`. A stop of the Runtime fences or takes the control lock; a
person's stop takes no lock. Each `ps` and each signal is a step of its own, so
everything may end or change between the question and the answer's use. The
controller answers its requests one by one and may answer after its caller gave
up, or be killed with what it was asked. `astray` is a history variable: a start
or a record that was lost track of, the one case in which a confirmed stop may
be followed by a run (see Findings). `AgentSessionProofs` holds the proofs.

### `PatchCommit`, `MCPatchCommit`, `PatchCommitProofs`

`apply_patch` of several files: `check_abandoned` over the journals there are,
`plan` against the versions its caller read, the sweep of old leftovers, `stage`
(new contents in `temps`, originals in `backups`), the journal (`tmp`, locked,
then `json`), the renames one by one, the rollback in reverse, and the order in
which the journal, the temporaries and the backups go. The sweep is two steps:
`ReadJournals` notes what is old (`stale`) and what a journal names (`named`), and
`Sweep` removes the rest some time later. `tree` says of a path who
wrote what is there. Every step may fail or be the last, and several patches run
at once. `unseen` remembers the one failure the code takes for something it is
not: `commit_one` renames, then asks for the result's metadata, and its caller
rolls back all files but that one.

There is always a journal. `commit` goes on without one where the server has no
directory for its state (`patch.rs:244`, `server.rs:1178`), but such a server lends
nobody `apply_patch`: `Server::new` gives no tool that writes without that directory
(`server.rs:381`). `plan` looks at a patch's files one after another and the model at
all of them at once; nothing that it compares is compared again, so that a change
between two looks is met as one after the last, which the model has.

### `OutputPage`, `Retention`, `MCRetention`, `RetentionProofs`

`OutputPage` is `read_output` on a stream of bytes that are whole characters,
leads of two to four bytes, continuations or nothing of the kind: where a page
starts, where it ends, and when it says that was all. `Retention` is
`mcp/retention.rs` around it: runs begin, make room for themselves by the order
of last change, write, finish and let go of their lock, in several servers of one
session; `discard_started` for an external client's; the expiry sweep of another
server; a killed server, and a lock that a forked child holds a little longer. An
eviction's decisions (`plan`) are taken once and carried out one directory at a
time, which is where they may be stale. The reader looks at the status, then at
the length, then reads. The bytes of a set of runs are counted as the number of
pairs of a run and a place in it, and `Picked` keeps a sequence's order, so that
both can be reasoned about. `RetentionProofs` holds the proofs.

### `Cleanup`, `MCCleanup`, `CleanupProofs`

The three-machine conversation of `ccnm cleanup` and `ccnm rm --purge`: the
Operator (`op`) collects a preview and collects it again to apply it, the Agent's
end of its call (`call`) lists records, the Runtime's (`far`) observes the guard,
scans for servers, lists outputs, and each end checks every item once more as it
removes it. Any call may be given up while its far end goes on. Meanwhile
sessions start, serve, run commands, hold the guard, end and are killed.

The records of one workspace are on several Agents, for `--on` starts a session on
any (`at`), while what they keep is on the one Runtime. The Operator remembers the
Agent of the last such start (`last`) until a start that is told nothing goes back to
the workspace's own (`MakeWay`). A purge asks the Agent remembered, a cleanup the
workspace's own, and each one only. A purge that cannot tell where the workspace is
asks nobody and forgets it all the same (`Unresolved`, the fault "config"). Who looks
at a guard that is held and finds no owner in its marker takes it for nobody's
(`Sights`, the fault "unnamed"). `CleanupProofs` holds the proofs.

## Runs

| Run | Instance | Shows |
|---|---|---|
| `WriteGuard` | 3 servers, 1 observation, 3 inodes, 1 retry, symmetry | one writer, a tree stranded only for cause, no writer refused because of a diagnostic, `free` true when it is said, and `SingleWriter` |
| `ExecSession` | five settings: one command of each kind under all stops, failures and offspring, the same with `stop_all` failing, both commands at once, both on a Mac | answers are final, nothing runs unreported, the guard is released only over a quiet tree |
| `ExecLive` | one command of each kind, fairness | a server without a client ends; a stop is carried out |
| `RpcSession` | six settings of up to three starts with one key and up to two clients that ask (`Contended`) | one run per key, a stop that was answered has taken, a settled session is settled, "unknown" of a process found gone is final, and `SessionPromise` |
| `RpcLive` | two starts, then a start and a client; every fault but a disk that takes no writes and an edited configuration; fairness | a session is over in the end for whoever asks |
| `AgentSession` | one run, two stops of the Runtime, a person's, every fault; fairness | what a stop confirmed is over and stays over, `exit` is true, a stop that waits for the lock is answered, and `AgentPromise` |
| `PatchCommit` | a patch of three files (update, delete, add) and one of two (move, update), every fault but `unread` and `late` | what is half done is known, answers are true, originals are kept |
| `Retention` | up to three runs of two servers, of one server with an external client's, and a reader over 50 streams | a run in progress stays, the limits hold when all is quiet, a page is whole |
| `Cleanup` | two Agents, a session that comes and goes, one that is over, cleanups and purges in turn, every fault but `late` and `unnamed` | nothing needed goes, what is kept can be found, of a forgotten workspace the Agent that was asked has nothing left |
| `ExecNoThread`, `AgentLateStart`, `PatchOverwrites` | the instances that refute | see Findings |

Bounds. Three servers are the one that left something, the one that takes over
and a third that meets both; an inode each lets every one of them hold a file
whose name is gone. A server runs once: a second run of the same process is
another server. One retry and one observation stand for the code's two retries
and fewer observations than retries: `BusyMeansOwned` is true only within such a
number. Commands do not touch each other's state
but through the registry, the runtime and the sweep, which is what the settings
with both are for; the stops and the offspring of one command are exhausted with
one. Three starts are the one that holds the key, one that races it and one that
comes with another input; sessions share nothing but their key's entry, so one
key is enough. Two clients are a stop and what another reads or stops meanwhile.
Rebinding needs two nodes. The faults are split over settings that each let
several of them meet. A session on the Agent shares nothing with another, so one
is enough; two stops of the Runtime are one that follows or overlaps another, and
a person's takes another path. Patches meet in the journals and the sweep, for
which two are enough; between them they make every kind of change, and each has a
change before and after another. A journal that cannot be read ("unread") and a
sweep that stands still for an hour between reading and removing ("late") are not in
the run, because `OriginalsKept` does not hold of them (see Findings). `RunsLimit` is two and three runs exceed it, one
of two bytes and one of one exceed `BytesLimit`; the streams are every one of up
to two bytes and longer ones with whole, cut and broken characters, over pages of
one byte and of four. In `Cleanup` one Operator repeats, and the far ends of its
last call go on until it begins again; a session changes its output `Versions`
times. Both sessions are on the workspace's own Agent, or the one that is over on
another (`Placed`), which is what a purge may leave behind. A server whose session
ended before it took the guard ("late") and a look at a guard before its owner is in
it ("unnamed") are not in the run, because `NothingNeededGoes` does not hold of them
(see Findings).

Fairness (`FairSpec`): the server's own threads go on, one weak fairness for
each thing a thread does. Nothing is assumed of the commands, which may run for
ever, of the client, which may stay for ever, of the watchdog's deadline, or of
the calls, which may never come. `KILL` is fair only where `kill` can be run.
`PatientSpec`: servers that are not killed answer, an owner that is not killed
goes on, and a request the Agent received is begun or refused; a run that was
stopped ends. Nothing is assumed of a run left alone, so what is promised of a
session is promised while its run is not going on. `AgentSession!FairSpec`:
`agent-run` and the Runtime's stops are processes with a deadline on all they
wait for but the lock, so each goes on if it can; nothing is assumed of the
controller, the supervisor, the Agent, a person or a death.

## Proofs

`WriteGuardProofs` proves for every set of servers, observations and inodes and
any number of retries, what `WriteGuard` checks on three. The assumptions are
the three named ones: `BusyRetries` is a natural number, and `Nobody` and
`NoFile` are no server and no file.

`OneWriter` is not inductive. `GuardInv` is: whoever is past `TryLock` has the
lock of the file it opened (`Locks`), whoever may write a marker has the file
under the name open (`Named`), an open file whose name is gone carries a marker
that will be refused (`Stale`: this is what makes deleting a marker safe), and
whatever still runs is named by the marker under the name (`Leftovers`: a
writer over it would have had to write over that marker). `Inductive` proves it
with one step for each action; `ExclusiveWriter`, `NoLockOutlivesDrop` and the
refinement `GuardKeepsPromise` follow from it. `Observing` and `FreeIsTrue` add
that an observation's shared lock keeps writers out while it reads, and
`Caused` and `StrandedOnlyForCause` trace every refused marker to its cause.
`BusyOnlyIfOwned` proves `BusyMeansOwned` under its provision: no more observations
than retries, and each over before the writer looks again. Every look that met
only readers is charged to an observation that is over or in the way now
(`Counted`), none of them twice since a look that fails waits for the readers to
go, so that there are fewer such looks than it takes to give up.

`ExecSessionProofs` proves for any commands, any `MaxBackground` and any settings
what `ExecSession` checks on two commands. `ExecInv` follows a command from its
admission: it is in the registry until its end is recorded (`Registered`), the
client has a reference only of one whose status is "running" while it is waited
for and final before it leaves the registry (`Reported`: this is why
`stop_command` may wait for the entry to go and then read the status), one that
nobody reports on is stopped or being stopped (`Aborted`), and its processes start
with its leader, which is collected last (`Processes`). `StopAnswers` and
`NoneUnreported` follow. `Ended` is what is so of the guard once it is let go of,
and gives `QuietOrKept`: the server implements `GuardedWork`, which is what
`WriteGuard` takes on trust of it, wherever it is a subreaper and `stop_all` gets its
threads. Without adoption `WaitInv` says instead that whatever `stop_all` did not see
the end of is named, so that a guard that is released had an empty registry, and
`ReleasedAfterWaiting` that every command was waited for, wherever the threads of
`pump` and of the waiter were to be had: a waiter that had none gives its command one
attempt to stop and takes it out of the registry, and where `kill` fails too there is
nothing to name.

`RpcSessionProofs` does the same for `RpcSession`: any number of starts, clients,
keys and nodes, any setting, and so any combination of the faults. The
assumptions are the four named ones: `NoSession` and `NoNode` are no session and
no node, starts and clients are different calls, every start has a key, and a
setting is made of calls and faults. The types are proved first, and that a record's
parts agree (`RecordsAgree`) from what each action writes in one.

`OneRunPerKey` is about the Agent and `SettledIsTrue` about the Agent and the
record, and neither says why the Agent has only what was recorded as sent, or
only sessions that hold their key. `SessionInv` does, on top of the types
(`Typing`): a key is held by the session it is the key of (`Named`); until the
key is a session's own there is no owner, stop, dispatch or verdict of it
(`Begun`: this is where `claim_key` looking again under the lock is needed); who
finds a key taken, and who asks with a handle, is at the session that holds it
(`Reusing`, `Answered`, `Asking`: keys are never given up); an owner keeps its
record open from the write that says "sent" to its report, and nothing reaches
the Agent without that write (`Dispatched`); and what the owner heard and the
record says of an end is so on the Agent for good (`Reported`, `Settled`). What
each action writes in a record is a lemma of its own (`...Writes`). From these
follow `SessionsKept`, the three invariants (`OneRun`, `AnswersNameOne`,
`SettledForGood`), `NothingTakenBack`, and the refinement `SessionsKeepPromise`,
whose mapping reads an abstract session off its record and the Agent (`Stage`,
`Work`, `Said`): each action moves one session, and moves it as the promise
allows.

`RpcAnswerProofs` proves `StopHasTaken` (`StopTaken`). A session is `Barred` when
nothing of it runs or will within reach of a stop: its run is fenced, stopped or over
on the Agent, or was not sent and its record has the stop mark or is over. `StopInv`
says that a stop which is about to confirm, or has answered, finds its session barred,
and that no step of any process takes that back, for a session is sent once
(`SentOnce`) and nothing that stands in a record is taken from it (`NeverBack`). It also proves `UnknownIsFinal`
(`UnknownForGood`). The difficulty is what is read before and used after: `Owned`
ties an owner to the record that names it, and `Looked` and `Glanced` say of a call
that its first read of the record, and what `ps` then said of the process it named,
stay true until it has read again.

`PatchCommitProofs` proves the types for any patches at all, and what `PatchCommit`
says of a torn patch, of the answers and of the originals for any number of
patches of any number of files, and any faults, provided that no two changes
share a name and each suits what is there at first (`Apart`: what `plan` refuses
otherwise). The provision is needed: `PatchOverwrites` is what happens without
it. `PatchInv` tells from the step a patch is at which of its changes are in the
tree (`Progress`), whether a journal is left (`Journalled`: none after a commit
or a whole rollback, one wherever anything is half done) and which originals are
in `backups` (`Backed`). `Elsewhere` says that a rename concerns no other change,
`Commits` and `Undoes` what a rename and its undoing make of one, and `Bystander`
that a patch which does not move keeps what holds of it, whatever the sweep and
the check of another one remove; `Preserved` then has one step for each action.
What a sweep goes by is old when it is used: `SweepsInformed` (`SweepsKnow`) says that
what it took for over is so, and that what it found no journal of has none, which
nothing takes back. `OriginalsAreKept` has a second provision, `Timely`: every journal
is read, and no patch is over, and old enough to be swept, only since the sweep read
them.

`AgentSessionProofs` proves the types, `ConfirmedIsQuiet`, `OutcomeIsTrue` and the
refinement of `AgentPromise` for any number of stops, of the Runtime and of people,
and any faults. The assumptions are the named ones: agent-run, nobody and the stops
are different holders of the lock. `ConfirmedIsQuiet` says that nothing runs behind
a confirmed stop; that nothing will run later is what makes it inductive. `AgentInv`
therefore says when a start is still possible. `Directory` relates the directory to
the steps that need it, `Family` says which processes there can be at which step of
agent-run, and `Followed` what is so as long as nobody was lost track of: a request
in the controller's queue has agent-run waiting for it, a session that was started
has its supervisor's pid on disk, an outcome is there only when the supervisor has
finished. `Stopping` says what a stop knows at each of its steps, and that one that
has fenced, confirms or has confirmed finds the start `Barred`: nothing queued, and
the directory taken or marked against a run that is yet to ask. Each action keeps
`AgentInv` (`RunKeepsInv` and its four siblings), and each is a step of the promise
or none (`RunKeepsPromise` and its siblings).

`CleanupProofs` proves every property of `Cleanup` for any sessions on any Agents, any
number of Operators at once and any faults. The assumptions are that `Versions` is a
natural number, that `Nobody` is no session, and that `Unresolved` is no Agent and
sessions are placed on Agents. What a conversation goes by was seen before
it is used, by two machines one after the other, and the argument is that it cannot
have become false: a session that ended stays so (`Ended`), does not take the guard
(`Asleep`), runs no more commands (`Dormant`) and leaves nothing new on the Runtime
(`Empty`), and no step of any process takes one of these back (`Settles`). `Talk`
says which of them each end of a call may conclude from what it has seen: only of
a session that the Agent found ended before the Runtime was asked, which is why the
order of the two is what it is. `Purging` says that a purge knows of every session
but those on the Agent it asks that started since it looked, from which
`ForgottenIsEmpty` follows, and
`Findable` is a part of the invariant (`Kept`). `ForgottenIsEmpty` speaks of the Agent
that was asked, and of none where none was. That a forgotten workspace has nothing
left anywhere is `ForgottenIsGone`, and what it has to assume is what the code leaves
open: that the workspace has one Agent, and that the purge could tell where it is.
`NeededStays` has the provision that
a server whose session ended does not take the guard after all, which is what the
session is `Asleep` for, and that a guard which is held names its owner.

`RetentionProofs` proves every property of `Retention` for any runs of any servers,
any limits, streams and faults. The assumptions are the named ones: the limits are
natural numbers and that of the runs is not zero, there are finitely many runs, and
a setting gives each run a stream and some of them a server.

`RunsInv` (`RunsAccounted`) says that a run that holds its lock has its marker
(`Placed`), which is what keeps evictions from it and gives `RunningIsKept`, and of
every eviction under way that what it is yet to remove is done with and was counted
(`Planned`): a plan may be stale, but only about what it keeps.

`FitsInTheEnd` takes more, because what one run counted as in progress another may
have finished meanwhile, and because whoever has counted it all may be killed before
it has removed anything. `Fits` therefore says of what has finished, *without any
set of those still at work*: it fits, or one of the rest has counted all of it with
what it will remove, and leaves no more than fits. It is a statement of any size of
sets that grows with them and goes down by a run's weight as the run goes
(`IsSize`), used once for the number of runs and once for their bytes; `FitsEvict`,
`FitsDone`, `FitsFinish`, `FitsCrowded`, `FitsLess` and `FitsSame` are what a step
may do to it. A run that finishes leaves only runs in progress, which are no more
than may run; of their bytes nothing is known, which is why `crowded` is excepted.

`PagesAreWhole` rests on `PageWhole`, a lemma of `OutputPage` alone, for every
stream, offset and limit: what is skipped at the start is of one character and is
all there is of it (`InsideSkips`), no two bytes can both be the lead of what is
before an offset (`OneLead`), and so an end that no unfinished character reaches is
a seam. `Paged` adds that what the client was told before it reads stays true while
the run goes on: its length, and that it has ended.

Only model-checked: every liveness property (`ServerEnds`, `StopIsCarriedOut`,
`EverySessionEnds`, `StoppedSessionEnds`, `StopsAnswer`), which is out of the prover's
reach. Every other property of every run is stated by a theorem.

## Findings

With a run that shows them:

`ExecNoThread`: `stop_all` panics when a thread cannot be had, and the unwinding
`run` releases the guard over commands that still run.

`AgentLateStart`: `agent-run` gives up on a slow controller, or dies, with its
request queued and the control lock released. A stop then finds no supervisor's
pid, leaves its marker and answers that nothing was started; the controller reads
the request afterwards and starts it, for neither `start_session` nor `supervise`
looks at the marker. `work.rs:1757` says the marker keeps it that way.

`PatchOverwrites`: two patches of one file that carry the same version are both
accepted, because the version is compared while planning and the rename compares
nothing; the second replaces what the first wrote.

Seen in the code, modelled, and left without a run of their own:

- Without a subreaper, a foreground command whose `setsid` descendant holds its
  pipe keeps the server from ending, though `stop_all` "gives up" on it
  (`jobs.rs:272`): dropping the runtime waits without a deadline. The guard stays
  busy, so nothing unsafe follows (`ExecSession`'s setting `Mac`).
- `pump` panics when a thread cannot be had after the child was spawned, and the
  child runs with nobody to report on or stop it (`SpawnPanics`;
  `UnreportedIsEnded` excepts it by name).
- `rpc/session.rs:820`: `observe` judges the owner its first read named and reads
  again, but does not look whether the record has another owner by now. A repeated
  start that reads the record while the server still stands in for the owner, and
  asks `ps` after that server's client has left, is told "unknown", a terminal
  state (`store.rs:51`), of a run that then completes.
- `rpc/session.rs:408`: when the owner's pid cannot be recorded, `start` answers an
  error with effect "none" (`wire.rs:154`) while the run goes on.
- `rpc/session.rs:483`: after a crash, a start with the same key is answered with
  `reused` and `unknown`, where `docs/protocol/machine-protocol-v1.md:378` promises
  the error `uncertain`.
- `rpc/session.rs:160`: a workspace bound to another node between the acceptance and
  the dispatch has its run sent there under a record that names the first, where no
  stop reaches it (`Rebind`; `StopHasTaken` is stated with that in mind).
- On a disk that takes no writes a session stays at "starting" for as long as its
  server lives (`EverySessionEnds` is checked without that fault).
- `mcp/patch.rs:1553`: a rollback that failed keeps its journal, which names
  backups, and `Drop for Staged` (965) deletes them all the same; the comment at
  991 counts on them (`OriginalsKept` excepts `partial`).
- `mcp/patch.rs:1586`: a rename whose result cannot be asked for is taken for a
  failure, is not rolled back, and the answer says the workspace is unchanged
  (`unseen`).
- `mcp/retention.rs:194`: of two runs that finish side by side each takes the other
  to be in progress, so that both may be kept although they exceed `session_bytes`
  (`crowded`).
- `mcp/patch.rs:1043`: the sweep passes over a journal it cannot read, and then removes
  the backups that journal names (`unread`). One that stands still for longer than
  `STALE_TEMP` between its listing of the journals and its listing of the files
  removes the backups of a patch that was torn meanwhile (`late`).
- `crates/ccnm-cli/src/main.rs:2364`: `ccnm rm --purge` asks one Agent. Say s2
  ran with `--on other` and is over. A start without `--on` goes back to the workspace's
  own Agent, and so does the Operator's memory (`MakeWay`). The purge then asks that
  Agent, is told there is nothing, counts as complete and drops the workspace's entry;
  s2's record on `other` and its output on the Runtime stay. The comment at
  `main.rs:2383` and `docs/research/2026-09-30-p61-cleanup.md:45` say that a purge which leaves
  something keeps the entry; `docs/research/2026-10-28-p115-carry.md:62` says that of the purge and of `ccnm cleanup`
  only the Agent remembered is cleared. `ccnm cleanup` asks not even that one, but the
  workspace's own (`main.rs:1478`).
- `main.rs:2364`: where the configuration cannot be loaded or the workspace cannot be
  placed or resolved, the purge is skipped, nobody is asked, and the entry goes all the
  same (`Unresolved`). `ForgottenLeavesNothing` says what is so in spite of both: of the
  Agent that *was* asked nothing is left.
- `cleanup.rs:364`: a guard that is held by a server which has not yet written its
  marker is taken for nobody's, and keeps nothing (`unnamed`).
- `cleanup.rs`: a server still on its way when its session ended may take the guard,
  or abandon it, after the Runtime was asked, and lose the output that recovery
  would start from (`late`). A record without output on the Runtime is removed
  without a look at the guard where the Runtime could not be asked.
- A stop that was killed or ran out of grace leaves a marker, and no later stop can
  confirm what it has not seen end; it says so.

## Not modelled, and why

Windows (its locks, job objects and marker copies): another platform layer with
the same callers. A machine that loses power: `sync_data` is taken to have
synced. Two people recovering one marker at once. A pid that names another
process: what the guard says of a pid is wording, never a decision. The relay's
servers at the end of a session, which are a part of their own. The order of one
listing of `/proc`. Interactive sessions under tmux, whose life is the terminal's.
The controller's socket, which is one of several services a manager starts once.
How an edit is matched in a file's text, and what the file tools, skills,
providers and the doctor compute: sequential functions of what they read, most of
the code's lines, with no state that a second actor could meet. `ccnm rm` without `--purge`, which forgets a workspace and
leaves what there is of it, as it says. Directories that a patch makes. In `Retention` the status file and the lock are read in one step, a server forks one child at a time, and the order, the status and the lock of
each run that an eviction goes by are one listing, in one step (`retention.rs:207`);
in `Cleanup` the three roles are on three
machines. The parts marked so in the inventory and in `PROJECT.json`.

## Plan

1. `OrphanScan`: one listing of `/proc` against forks, exits and adoption.
2. `Relay` (`mcp/relay.rs`): groups of connections against the end of a session.
3. `ConfigEdit`, `Carry`, and the controller's socket.
4. The composition of `RpcSession` with `AgentPromise` in place of `AgentStep` and
   `Stopped`.
