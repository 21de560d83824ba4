------------------------- MODULE ExecSessionProofs -------------------------
(***************************************************************************)
(* Proofs about ExecSession, for any commands, any bound on those in the   *)
(* background and any machine and client: what every stop, every failure   *)
(* to get a thread and every process of a command leave of its answers,    *)
(* and what the session leaves when it lets go of the write guard.         *)
(* ExecInv follows a command from its admission to its last answer and its *)
(* processes beside it; WaitInv adds what the end of run() names.          *)
(***************************************************************************)
EXTENDS ExecSession, TLAPS

\* Where a command is once it was waited for.
Waited == {"reaped", "captured", "recorded", "unheld", "over"}

\* The guard is let go at the very end, and an end that unwinds is one whose
\* stop_all had no thread.
Ended ==
    /\ guard # "held" => srv = "gone"
    /\ srv = "unwinding" => "stop_all" \in NoThread
    /\ guard = "released" /\ Adopts /\ "stop_all" \notin NoThread =>
          \A c \in Commands : ~Live(c)

\* A command's processes begin with its leader, which is collected last.
Processes(c) ==
    /\ task[c] \in {"new", "refused", "admitted", "cleared"} => leader[c] = "none"
    /\ leader[c] = "none" => member[c] = "none" /\ stray[c] = "none"
    /\ task[c] \in Waited => leader[c] = "collected"

\* A command is registered until its end is recorded.
Registered(c) ==
    task[c] \in {"admitted", "cleared", "spawned", "stopping_here", "attached", "started",
                 "unstarted", "waiting", "reaped", "captured"} => c \in registry

\* The status of a command whose output_ref was handed out: "running" while it is
\* waited for, and final before it leaves the registry.
Reported(c) ==
    /\ task[c] = "started" => status[c] = "running"
    /\ c \in handed =>
          \/ task[c] \in {"waiting", "reaped", "captured"} /\ status[c] = "running"
          \/ /\ task[c] \in {"recorded", "unheld", "over"}
             /\ status[c] \in {"ended", "unrecorded"}
    /\ call[c] # "none" => c \in handed
    /\ call[c] = "done" => task[c] \in {"recorded", "unheld", "over"}

\* A background command that nobody reports on is stopped, or being stopped.
Aborted(c) ==
    /\ phase[c]["abort"] # "off" => task[c] \in Waited \cup {"waiting", "lost"}
    /\ phase[c]["abort"] = "killed" => leader[c] # "alive"
    /\ task[c] \in {"started", "unstarted", "lost"} => c \in Background
    /\ c \in Background \ handed /\ task[c] \in {"waiting", "lost"} =>
          phase[c]["abort"] = "asked" \/ leader[c] # "alive"

ExecInv ==
    /\ Ended
    /\ \A c \in Commands : Processes(c) /\ Registered(c) /\ Reported(c) /\ Aborted(c)

-----------------------------------------------------------------------------
\* Every step keeps the types.  That only background commands are handed out
\* comes from ExecInv.
LEMMA NextTyped == TypeOK /\ ExecInv /\ [Next]_vars => TypeOK'
<1>. SUFFICES ASSUME TypeOK, ExecInv, [Next]_vars PROVE TypeOK'
  OBVIOUS
<1>. USE DEF TypeOK, server, work, stops, processes
<1>1. ASSUME NEW c \in Commands, Admit(c) PROVE TypeOK'
  BY <1>1 DEF Admit, At
<1>2. ASSUME NEW c \in Commands, Refuse(c) PROVE TypeOK'
  BY <1>2 DEF Refuse, At
<1>3. ASSUME NEW c \in Commands, CheckStop(c) PROVE TypeOK'
  BY <1>3 DEF CheckStop, At
<1>4. ASSUME NEW c \in Commands, NotRun(c) PROVE TypeOK'
  BY <1>4 DEF NotRun, At, Leave
<1>5. ASSUME NEW c \in Commands, Spawn(c) PROVE TypeOK'
  BY <1>5 DEF Spawn, At
<1>6. ASSUME NEW c \in Commands, SpawnFails(c) PROVE TypeOK'
  BY <1>6 DEF SpawnFails, At, Leave
<1>7. ASSUME NEW c \in Commands, SpawnPanics(c) PROVE TypeOK'
  BY <1>7 DEF SpawnPanics, At, Leave
<1>8. ASSUME NEW c \in Commands, Attach(c) PROVE TypeOK'
  BY <1>8 DEF Attach, At
<1>9. ASSUME NEW c \in Commands, StoppedHere(c) PROVE TypeOK'
  BY <1>9 DEF StoppedHere, At
<1>10. ASSUME NEW c \in Commands, WaitForeground(c) PROVE TypeOK'
  BY <1>10 DEF WaitForeground, At
<1>11. ASSUME NEW c \in Commands, WriteStatus(c) PROVE TypeOK'
  BY <1>11 DEF WriteStatus, At
<1>12. ASSUME NEW c \in Commands, StatusFails(c) PROVE TypeOK'
  BY <1>12 DEF StatusFails, At
<1>13. ASSUME NEW c \in Commands, HandOver(c) PROVE TypeOK'
  <2>1. c \in Background BY <1>13 DEF HandOver, At, ExecInv, Aborted
  <2>. QED BY <1>13, <2>1 DEF HandOver, At, TypeOK, server, work, stops, processes
<1>14. ASSUME NEW c \in Commands, AbortUnrecorded(c) PROVE TypeOK'
  BY <1>14 DEF AbortUnrecorded, At, Stoppers
<1>15. ASSUME NEW c \in Commands, AbortUnwaited(c) PROVE TypeOK'
  BY <1>15 DEF AbortUnwaited, Leave, Stoppers
<1>16. ASSUME NEW c \in Commands, Reap(c) PROVE TypeOK'
  BY <1>16 DEF Reap, At, PipesHeld
<1>17. ASSUME NEW c \in Commands, Capture(c) PROVE TypeOK'
  BY <1>17 DEF Capture, At
<1>18. ASSUME NEW c \in Commands, Record(c) PROVE TypeOK'
  BY <1>18 DEF Record, At
<1>19. ASSUME NEW c \in Commands, DropRun(c) PROVE TypeOK'
  BY <1>19 DEF DropRun, At
<1>20. ASSUME NEW c \in Commands, DropTicket(c) PROVE TypeOK'
  BY <1>20 DEF DropTicket, At, Leave
<1>21. ASSUME NEW c \in Commands, CallStopped(c) PROVE TypeOK'
  BY <1>21 DEF CallStopped
<1>22. ASSUME NEW c \in Commands, CallAnswered(c) PROVE TypeOK'
  BY <1>22 DEF CallAnswered
<1>23. ASSUME NEW c \in Commands, Cancel(c) PROVE TypeOK'
  BY <1>23 DEF Cancel, AskStop, Attached, StopReasons, Stoppers
<1>24. ASSUME NEW c \in Commands, CallStop(c) PROVE TypeOK'
  BY <1>24 DEF CallStop, AskStop, Attached, StopReasons, Stoppers
<1>25. ASSUME NEW c \in Commands, Timeout(c) PROVE TypeOK'
  BY <1>25 DEF Timeout, Finished
<1>26. ASSUME NEW c \in Commands, Forks(c) PROVE TypeOK'
  <2>1. member' \in [Commands -> {"none", "holding", "quiet", "dead"}]
    BY <1>26 DEF Forks, TypeOK
  <2>2. stray' \in [Commands -> {"none", "holding", "quiet", "dead"}]
    BY <1>26 DEF Forks, TypeOK
  <2>. QED BY <1>26, <2>1, <2>2 DEF Forks, TypeOK, server, work, stops
<1>27. ASSUME NEW c \in Commands, Exits(c) PROVE TypeOK'
  BY <1>27 DEF Exits
<1>28. ASSUME NEW c \in Commands, NEW who \in Stoppers, Kill(c, who) PROVE TypeOK'
  <2>1. leader' \in [Commands -> {"none", "alive", "dead", "collected"}]
    BY <1>28 DEF Kill, End, TypeOK, processes
  <2>2. member' \in [Commands -> {"none", "holding", "quiet", "dead"}]
    BY <1>28 DEF Kill, End, TypeOK, processes
  <2>3. UNCHANGED stray BY <1>28 DEF Kill, processes
  <2>4. phase' \in [Commands -> [Stoppers -> {"off", "asked", "killed"}]]
    BY <1>28 DEF Kill, TypeOK
  <2>. QED BY <1>28, <2>1, <2>2, <2>3, <2>4 DEF Kill, TypeOK, server, work
<1>29. ASSUME NEW c \in Commands, NEW who \in Stoppers, StopEnds(c, who) PROVE TypeOK'
  BY <1>29 DEF StopEnds, Finished
<1>30. ASSUME NEW c \in Commands, StopOne(c) PROVE TypeOK'
  BY <1>30 DEF StopOne, AskStop, Attached, StopReasons, Stoppers
<1>31. ASSUME NEW c \in Commands, Sweep(c) PROVE TypeOK'
  BY <1>31 DEF Sweep
<1>32. ASSUME NEW c \in Commands, EndChildren(c) PROVE TypeOK'
  <2>1. leader' \in [Commands -> {"none", "alive", "dead", "collected"}]
    BY ZenonT(60), <1>32 DEF EndChildren, End, TypeOK
  <2>2. member' \in [Commands -> {"none", "holding", "quiet", "dead"}]
    BY <1>32 DEF EndChildren, End, TypeOK
  <2>3. stray' \in [Commands -> {"none", "holding", "quiet", "dead"}]
    BY <1>32 DEF EndChildren, TypeOK
  <2>. QED BY <1>32, <2>1, <2>2, <2>3 DEF EndChildren, TypeOK, server, work, stops
<1>33. CASE ClientGone
  BY <1>33 DEF ClientGone
<1>34. CASE StopPanics
  BY <1>34 DEF StopPanics
<1>35. CASE Crash
  BY <1>35 DEF Crash
<1>36. CASE StopAll
  BY <1>36 DEF StopAll
<1>37. CASE JoinStops
  BY <1>37 DEF JoinStops
<1>38. CASE StopAllEnds
  BY <1>38 DEF StopAllEnds
<1>39. CASE DropRuntime
  BY <1>39 DEF DropRuntime
<1>40. CASE FinishSweep
  BY <1>40 DEF FinishSweep
<1>41. CASE Unwind
  BY <1>41 DEF Unwind
<1>42. CASE UNCHANGED vars
  BY <1>42 DEF vars
<1>. QED BY <1>1, <1>2, <1>3, <1>4, <1>5, <1>6, <1>7, <1>8, <1>9, <1>10,
  <1>11, <1>12, <1>13, <1>14, <1>15, <1>16, <1>17, <1>18, <1>19, <1>20,
  <1>21, <1>22, <1>23, <1>24, <1>25, <1>26, <1>27, <1>28, <1>29, <1>30,
  <1>31, <1>32, <1>33, <1>34, <1>35, <1>36, <1>37, <1>38, <1>39, <1>40,
  <1>41, <1>42
  DEF Next, Task, Stopping, Ending

\* Every step keeps ExecInv.  Ended is decided by FinishSweep and Unwind;
\* Processes by Spawn, Forks and Reap; Registered by who leaves the registry, and
\* when; Reported by HandOver, Record and CallAnswered; Aborted by the two aborts
\* of background and by Kill and StopEnds.
LEMMA NextInv == TypeOK /\ ExecInv /\ [Next]_vars => ExecInv'
<1>. SUFFICES ASSUME TypeOK, ExecInv, [Next]_vars PROVE ExecInv'
  OBVIOUS
<1>. USE DEF TypeOK, ExecInv, Ended, Processes, Registered, Reported, Aborted, Waited,
             Adopts, NoThread, Up, server, work, stops, processes
<1>1. ASSUME NEW c \in Commands, Admit(c) PROVE ExecInv'
  BY <1>1 DEF Admit, At
<1>2. ASSUME NEW c \in Commands, Refuse(c) PROVE ExecInv'
  BY <1>2 DEF Refuse, At
<1>3. ASSUME NEW c \in Commands, CheckStop(c) PROVE ExecInv'
  BY <1>3 DEF CheckStop, At
<1>4. ASSUME NEW c \in Commands, NotRun(c) PROVE ExecInv'
  BY <1>4 DEF NotRun, At, Leave
<1>5. ASSUME NEW c \in Commands, Spawn(c) PROVE ExecInv'
  BY <1>5 DEF Spawn, At
<1>6. ASSUME NEW c \in Commands, SpawnFails(c) PROVE ExecInv'
  BY <1>6 DEF SpawnFails, At, Leave
<1>7. ASSUME NEW c \in Commands, SpawnPanics(c) PROVE ExecInv'
  BY <1>7 DEF SpawnPanics, At, Leave
<1>8. ASSUME NEW c \in Commands, Attach(c) PROVE ExecInv'
  BY <1>8 DEF Attach, At
<1>9. ASSUME NEW c \in Commands, StoppedHere(c) PROVE ExecInv'
  BY <1>9 DEF StoppedHere, At
<1>10. ASSUME NEW c \in Commands, WaitForeground(c) PROVE ExecInv'
  BY <1>10 DEF WaitForeground, At
<1>11. ASSUME NEW c \in Commands, WriteStatus(c) PROVE ExecInv'
  BY <1>11 DEF WriteStatus, At
<1>12. ASSUME NEW c \in Commands, StatusFails(c) PROVE ExecInv'
  BY <1>12 DEF StatusFails, At
<1>13. ASSUME NEW c \in Commands, HandOver(c) PROVE ExecInv'
  BY <1>13 DEF HandOver, At
<1>14. ASSUME NEW c \in Commands, AbortUnrecorded(c) PROVE ExecInv'
  BY <1>14 DEF AbortUnrecorded, At, Stoppers
<1>15. ASSUME NEW c \in Commands, AbortUnwaited(c) PROVE ExecInv'
  BY <1>15 DEF AbortUnwaited, Leave, Stoppers
<1>16. ASSUME NEW c \in Commands, Reap(c) PROVE ExecInv'
  BY <1>16 DEF Reap, At, PipesHeld
<1>17. ASSUME NEW c \in Commands, Capture(c) PROVE ExecInv'
  BY <1>17 DEF Capture, At
<1>18. ASSUME NEW c \in Commands, Record(c) PROVE ExecInv'
  BY <1>18 DEF Record, At
<1>19. ASSUME NEW c \in Commands, DropRun(c) PROVE ExecInv'
  BY <1>19 DEF DropRun, At
<1>20. ASSUME NEW c \in Commands, DropTicket(c) PROVE ExecInv'
  BY <1>20 DEF DropTicket, At, Leave
<1>21. ASSUME NEW c \in Commands, CallStopped(c) PROVE ExecInv'
  BY <1>21 DEF CallStopped
<1>22. ASSUME NEW c \in Commands, CallAnswered(c) PROVE ExecInv'
  BY <1>22 DEF CallAnswered
<1>23. ASSUME NEW c \in Commands, Cancel(c) PROVE ExecInv'
  BY <1>23 DEF Cancel, AskStop, Attached, StopReasons, Stoppers
<1>24. ASSUME NEW c \in Commands, CallStop(c) PROVE ExecInv'
  BY <1>24 DEF CallStop, AskStop, Attached, StopReasons, Stoppers
<1>25. ASSUME NEW c \in Commands, Timeout(c) PROVE ExecInv'
  BY <1>25 DEF Timeout, Finished
<1>26. ASSUME NEW c \in Commands, Forks(c) PROVE ExecInv'
  <2>1. \A d \in Commands \ {c} : member'[d] = member[d] /\ stray'[d] = stray[d]
    BY <1>26 DEF Forks, TypeOK
  <2>2. leader[c] = "alive" /\ UNCHANGED <<server, registry, work, stops, leader>>
    BY <1>26 DEF Forks
  <2>3. \A d \in Commands : Live(d)' => Live(d)
    BY <2>1, <2>2 DEF Live
  <2>4. Ended' BY <2>2, <2>3 DEF ExecInv, Ended, Adopts, NoThread, server
  <2>5. ASSUME NEW d \in Commands PROVE Processes(d)'
    BY <2>1, <2>2 DEF ExecInv, Processes, work
  <2>6. ASSUME NEW d \in Commands PROVE Registered(d)' /\ Reported(d)' /\ Aborted(d)'
    BY <2>2 DEF ExecInv, Registered, Reported, Aborted, work, stops
  <2>. QED BY <2>4, <2>5, <2>6 DEF ExecInv
<1>27. ASSUME NEW c \in Commands, Exits(c) PROVE ExecInv'
  <2>1. UNCHANGED <<server, registry, work, stops>> BY <1>27 DEF Exits
  <2>2. \A d \in Commands : Live(d)' => Live(d)
    BY <1>27 DEF Exits, Live, TypeOK
  <2>3. Ended' BY <2>1, <2>2 DEF ExecInv, Ended, Adopts, NoThread, server
  <2>4. ASSUME NEW d \in Commands PROVE Processes(d)'
    BY <1>27 DEF ExecInv, Processes, Exits, TypeOK, work, Waited
  <2>5. \A d \in Commands :
           \/ leader'[d] = leader[d]
           \/ leader[d] = "alive" /\ leader'[d] = "dead"
    <3>1. CASE UNCHANGED leader BY <3>1
    <3>2. CASE leader[c] = "alive" /\ leader' = [leader EXCEPT ![c] = "dead"]
      BY <3>2 DEF TypeOK
    <3>. QED BY <1>27, <3>1, <3>2 DEF Exits
  <2>6. ASSUME NEW d \in Commands PROVE Registered(d)' /\ Reported(d)' /\ Aborted(d)'
    BY <2>1, <2>5 DEF ExecInv, Registered, Reported, Aborted, work, stops
  <2>. QED BY <2>3, <2>4, <2>6 DEF ExecInv
<1>28. ASSUME NEW c \in Commands, NEW who \in Stoppers, Kill(c, who) PROVE ExecInv'
  BY <1>28 DEF Kill, End
<1>29. ASSUME NEW c \in Commands, NEW who \in Stoppers, StopEnds(c, who) PROVE ExecInv'
  BY <1>29 DEF StopEnds, Finished
<1>30. ASSUME NEW c \in Commands, StopOne(c) PROVE ExecInv'
  BY <1>30 DEF StopOne, AskStop, Attached, StopReasons, Stoppers
<1>31. ASSUME NEW c \in Commands, Sweep(c) PROVE ExecInv'
  BY <1>31 DEF Sweep
<1>32. ASSUME NEW c \in Commands, EndChildren(c) PROVE ExecInv'
  BY <1>32 DEF EndChildren, End, HasChild, Live
<1>33. CASE ClientGone
  BY <1>33 DEF ClientGone
<1>34. CASE StopPanics
  BY <1>34 DEF StopPanics
<1>35. CASE Crash
  BY <1>35 DEF Crash
<1>36. CASE StopAll
  BY <1>36 DEF StopAll
<1>37. CASE JoinStops
  BY <1>37 DEF JoinStops
<1>38. CASE StopAllEnds
  BY <1>38 DEF StopAllEnds
<1>39. CASE DropRuntime
  BY <1>39 DEF DropRuntime
<1>40. CASE FinishSweep
  <2>1. UNCHANGED <<setting, registry, work, stops, processes>> BY <1>40 DEF FinishSweep
  <2>2. ASSUME guard' = "released", Adopts, NEW c \in Commands PROVE ~Live(c)
    <3>1. ~HasChild(c) BY <1>40, <2>2 DEF FinishSweep, Leftover
    <3>2. leader[c] = "none" => member[c] = "none" /\ stray[c] = "none"
      BY DEF ExecInv, Processes
    <3>. QED BY <3>1, <3>2 DEF HasChild, Live, TypeOK
  <2>3. \A c \in Commands : Live(c)' <=> Live(c) BY <2>1 DEF Live, processes
  <2>4. srv' = "gone" BY <1>40 DEF FinishSweep
  <2>5. Ended' BY <2>1, <2>2, <2>3, <2>4 DEF Ended, Adopts, NoThread
  <2>6. ASSUME NEW d \in Commands
        PROVE  Processes(d)' /\ Registered(d)' /\ Reported(d)' /\ Aborted(d)'
    BY <2>1 DEF ExecInv, Processes, Registered, Reported, Aborted, work, stops, processes
  <2>. QED BY <2>5, <2>6 DEF ExecInv
<1>41. CASE Unwind
  BY <1>41 DEF Unwind
<1>42. CASE UNCHANGED vars
  <2>1. UNCHANGED <<server, registry, work, stops, processes>> BY <1>42 DEF vars
  <2>2. Ended' BY <2>1 DEF ExecInv, Ended, Adopts, NoThread, Live, server, processes
  <2>3. ASSUME NEW d \in Commands
        PROVE  Processes(d)' /\ Registered(d)' /\ Reported(d)' /\ Aborted(d)'
    BY <2>1 DEF ExecInv, Processes, Registered, Reported, Aborted, work, stops, processes
  <2>. QED BY <2>2, <2>3 DEF ExecInv
<1>. QED BY <1>1, <1>2, <1>3, <1>4, <1>5, <1>6, <1>7, <1>8, <1>9, <1>10,
  <1>11, <1>12, <1>13, <1>14, <1>15, <1>16, <1>17, <1>18, <1>19, <1>20,
  <1>21, <1>22, <1>23, <1>24, <1>25, <1>26, <1>27, <1>28, <1>29, <1>30,
  <1>31, <1>32, <1>33, <1>34, <1>35, <1>36, <1>37, <1>38, <1>39, <1>40,
  <1>41, <1>42
  DEF Next, Task, Stopping, Ending

\* ExecInv holds of every state of every server.
LEMMA Inductive == Spec => [](TypeOK /\ ExecInv)
<1>1. Init => TypeOK /\ ExecInv
  <2>. SUFFICES ASSUME Init PROVE TypeOK /\ ExecInv
    OBVIOUS
  <2>1. TypeOK BY DEF Init, TypeOK
  <2>2. Ended BY DEF Init, Ended
  <2>3. ASSUME NEW c \in Commands
        PROVE  Processes(c) /\ Registered(c) /\ Reported(c) /\ Aborted(c)
    BY DEF Init, Processes, Registered, Reported, Aborted, Waited, Stoppers
  <2>. QED BY <2>1, <2>2, <2>3 DEF ExecInv
<1>2. TypeOK /\ ExecInv /\ [Next]_vars => (TypeOK /\ ExecInv)'
  BY NextTyped, NextInv
<1>. QED BY <1>1, <1>2, PTL DEF Spec

\* Every variable of the server keeps its type; a reference is handed out only
\* for a background command.
THEOREM ExecTyping == Spec => []TypeOK
  BY Inductive, PTL

\* stop_command that did not give up answers with a final status, however the
\* waiter, the stops and the processes of the command interleave.
THEOREM StopAnswers == Spec => []StopAnswerIsFinal
<1>1. TypeOK /\ ExecInv => StopAnswerIsFinal
  BY DEF StopAnswerIsFinal, ExecInv, Reported
<1>. QED BY Inductive, <1>1, PTL

\* A call that was answered without a reference has no leader running: what is
\* not refused and not reported on was stopped before the answer.
THEOREM NoneUnreported == Spec => []UnreportedIsEnded
<1>1. TypeOK /\ ExecInv => UnreportedIsEnded
  <2>. SUFFICES ASSUME TypeOK, ExecInv, NEW c \in Commands,
                       ~InCall(c), c \notin handed, task[c] # "unpumped",
                       leader[c] = "alive"
                PROVE  FALSE
    BY DEF UnreportedIsEnded
  <2>1. task[c] \notin Waited \cup {"refused"}
    BY DEF ExecInv, Processes
  <2>2. task[c] \in {"waiting", "lost"} /\ phase[c]["abort"] = "off"
    BY <2>1 DEF InCall, TypeOK, Waited
  <2>3. c \in Background
    BY <2>2 DEF InCall, ExecInv, Aborted
  <2>. QED BY <2>2, <2>3 DEF ExecInv, Aborted
<1>. QED BY Inductive, <1>1, PTL

-----------------------------------------------------------------------------
(* Without adoption: what is let go of was waited for *)

\* What stop_all did not see the end of is named, and then the guard is kept.
Named ==
    /\ srv \notin {"serving", "closing", "crashed"} => closed
    /\ srv \in {"draining", "sweeping"} => registry \subseteq left
    /\ guard = "released" /\ "stop_all" \notin NoThread => registry = {}

\* A command that was waited for holds no pipe, and only a missing thread leaves
\* one that runs out of the registry.
Quieted(c) ==
    /\ task[c] \in Waited => ~PipesHeld(c)
    /\ task[c] = "unpumped" => "pump" \in NoThread
    /\ task[c] = "lost" => "wait" \in NoThread

WaitInv == Named /\ \A c \in Commands : Quieted(c)

\* Named is decided by Admit, StopAll, StopAllEnds and FinishSweep, Quieted by Reap,
\* Forks and the two panics.
LEMMA NextWaitInv == TypeOK /\ ExecInv /\ WaitInv /\ [Next]_vars => WaitInv'
<1>. SUFFICES ASSUME TypeOK, ExecInv, WaitInv, [Next]_vars PROVE WaitInv'
  OBVIOUS
<1>. USE DEF TypeOK, ExecInv, Ended, Processes, WaitInv, Named, Quieted, PipesHeld, Waited,
             Adopts, NoThread, Up, server, work, stops, processes
<1>1. ASSUME NEW c \in Commands, Admit(c) PROVE WaitInv'
  BY <1>1 DEF Admit, At
<1>2. ASSUME NEW c \in Commands, Refuse(c) PROVE WaitInv'
  BY <1>2 DEF Refuse, At
<1>3. ASSUME NEW c \in Commands, CheckStop(c) PROVE WaitInv'
  BY <1>3 DEF CheckStop, At
<1>4. ASSUME NEW c \in Commands, NotRun(c) PROVE WaitInv'
  BY <1>4 DEF NotRun, At, Leave
<1>5. ASSUME NEW c \in Commands, Spawn(c) PROVE WaitInv'
  BY <1>5 DEF Spawn, At
<1>6. ASSUME NEW c \in Commands, SpawnFails(c) PROVE WaitInv'
  BY <1>6 DEF SpawnFails, At, Leave
<1>7. ASSUME NEW c \in Commands, SpawnPanics(c) PROVE WaitInv'
  BY <1>7 DEF SpawnPanics, At, Leave
<1>8. ASSUME NEW c \in Commands, Attach(c) PROVE WaitInv'
  BY <1>8 DEF Attach, At
<1>9. ASSUME NEW c \in Commands, StoppedHere(c) PROVE WaitInv'
  BY <1>9 DEF StoppedHere, At
<1>10. ASSUME NEW c \in Commands, WaitForeground(c) PROVE WaitInv'
  BY <1>10 DEF WaitForeground, At
<1>11. ASSUME NEW c \in Commands, WriteStatus(c) PROVE WaitInv'
  BY <1>11 DEF WriteStatus, At
<1>12. ASSUME NEW c \in Commands, StatusFails(c) PROVE WaitInv'
  BY <1>12 DEF StatusFails, At
<1>13. ASSUME NEW c \in Commands, HandOver(c) PROVE WaitInv'
  BY <1>13 DEF HandOver, At
<1>14. ASSUME NEW c \in Commands, AbortUnrecorded(c) PROVE WaitInv'
  BY <1>14 DEF AbortUnrecorded, At, Stoppers
<1>15. ASSUME NEW c \in Commands, AbortUnwaited(c) PROVE WaitInv'
  BY <1>15 DEF AbortUnwaited, Leave, Stoppers
<1>16. ASSUME NEW c \in Commands, Reap(c) PROVE WaitInv'
  BY <1>16 DEF Reap, At, PipesHeld
<1>17. ASSUME NEW c \in Commands, Capture(c) PROVE WaitInv'
  BY <1>17 DEF Capture, At
<1>18. ASSUME NEW c \in Commands, Record(c) PROVE WaitInv'
  BY <1>18 DEF Record, At
<1>19. ASSUME NEW c \in Commands, DropRun(c) PROVE WaitInv'
  BY <1>19 DEF DropRun, At
<1>20. ASSUME NEW c \in Commands, DropTicket(c) PROVE WaitInv'
  BY <1>20 DEF DropTicket, At, Leave
<1>21. ASSUME NEW c \in Commands, CallStopped(c) PROVE WaitInv'
  BY <1>21 DEF CallStopped
<1>22. ASSUME NEW c \in Commands, CallAnswered(c) PROVE WaitInv'
  BY <1>22 DEF CallAnswered
<1>23. ASSUME NEW c \in Commands, Cancel(c) PROVE WaitInv'
  BY <1>23 DEF Cancel, AskStop, Attached, StopReasons, Stoppers
<1>24. ASSUME NEW c \in Commands, CallStop(c) PROVE WaitInv'
  BY <1>24 DEF CallStop, AskStop, Attached, StopReasons, Stoppers
<1>25. ASSUME NEW c \in Commands, Timeout(c) PROVE WaitInv'
  BY <1>25 DEF Timeout, Finished
<1>26. ASSUME NEW c \in Commands, Forks(c) PROVE WaitInv'
  BY <1>26 DEF Forks, Offspring
<1>27. ASSUME NEW c \in Commands, Exits(c) PROVE WaitInv'
  BY <1>27 DEF Exits
<1>28. ASSUME NEW c \in Commands, NEW who \in Stoppers, Kill(c, who) PROVE WaitInv'
  BY <1>28 DEF Kill, End
<1>29. ASSUME NEW c \in Commands, NEW who \in Stoppers, StopEnds(c, who) PROVE WaitInv'
  BY <1>29 DEF StopEnds, Finished
<1>30. ASSUME NEW c \in Commands, StopOne(c) PROVE WaitInv'
  BY <1>30 DEF StopOne, AskStop, Attached, StopReasons, Stoppers
<1>31. ASSUME NEW c \in Commands, Sweep(c) PROVE WaitInv'
  BY <1>31 DEF Sweep
<1>32. ASSUME NEW c \in Commands, EndChildren(c) PROVE WaitInv'
  BY <1>32 DEF EndChildren, End, HasChild, Live
<1>33. CASE ClientGone
  BY <1>33 DEF ClientGone
<1>34. CASE StopPanics
  BY <1>34 DEF StopPanics
<1>35. CASE Crash
  BY <1>35 DEF Crash
<1>36. CASE StopAll
  BY <1>36 DEF StopAll
<1>37. CASE JoinStops
  BY <1>37 DEF JoinStops
<1>38. CASE StopAllEnds
  BY <1>38 DEF StopAllEnds
<1>39. CASE DropRuntime
  BY <1>39 DEF DropRuntime
<1>40. CASE FinishSweep
  BY <1>40 DEF FinishSweep, Leftover
<1>41. CASE Unwind
  BY <1>41 DEF Unwind
<1>42. CASE UNCHANGED vars
  BY <1>42 DEF vars
<1>. QED BY <1>1, <1>2, <1>3, <1>4, <1>5, <1>6, <1>7, <1>8, <1>9, <1>10,
  <1>11, <1>12, <1>13, <1>14, <1>15, <1>16, <1>17, <1>18, <1>19, <1>20,
  <1>21, <1>22, <1>23, <1>24, <1>25, <1>26, <1>27, <1>28, <1>29, <1>30,
  <1>31, <1>32, <1>33, <1>34, <1>35, <1>36, <1>37, <1>38, <1>39, <1>40,
  <1>41, <1>42
  DEF Next, Task, Stopping, Ending

\* Where no pump and no waiter was denied a thread, or the server is a subreaper,
\* the guard is handed on only after every command was waited for: what stop_all
\* gave up on is named, and the guard is kept for it.
THEOREM ReleasedAfterWaiting ==
    Spec => [](Adopts \/ NoThread \cap {"pump", "wait"} = {} => ReleasedMeansWaited)
<1>1. Init => WaitInv
  BY DEF Init, WaitInv, Named, Quieted, Waited
<1>2. TypeOK /\ ExecInv /\ WaitInv =>
          (Adopts \/ NoThread \cap {"pump", "wait"} = {} => ReleasedMeansWaited)
  <2>. SUFFICES ASSUME TypeOK, ExecInv, WaitInv,
                       Adopts \/ NoThread \cap {"pump", "wait"} = {},
                       guard = "released", "stop_all" \notin NoThread,
                       NEW c \in Commands
                PROVE  leader[c] # "alive" /\ ~PipesHeld(c)
    BY DEF ReleasedMeansWaited
  <2>1. CASE Adopts
    BY <2>1 DEF ExecInv, Ended, Live, PipesHeld
  <2>2. CASE NoThread \cap {"pump", "wait"} = {}
    <3>1. task[c] \in Waited \cup {"new", "refused"}
      BY <2>2 DEF WaitInv, Named, Quieted, ExecInv, Registered, TypeOK, Waited
    <3>2. CASE task[c] \in Waited BY <3>2 DEF WaitInv, Quieted, PipesHeld
    <3>3. CASE task[c] \in {"new", "refused"} BY <3>3 DEF ExecInv, Processes, PipesHeld
    <3>. QED BY <3>1, <3>2, <3>3
  <2>. QED BY <2>1, <2>2
<1>. QED BY Inductive, NextWaitInv, <1>1, <1>2, PTL DEF Spec

-----------------------------------------------------------------------------
(* The server keeps the promise WriteGuard relies on *)

\* What GuardedWork calls live.
Working == Adopts /\ "stop_all" \notin NoThread /\ \E c \in Commands : Live(c)

\* Only the end of run() touches the guard, and leaves the processes alone.
LEMMA GuardMoves ==
    ASSUME Next
    PROVE  /\ UNCHANGED setting
           /\ UNCHANGED guard \/ FinishSweep \/ Unwind
<1>1. ASSUME NEW c \in Commands, Task(c) PROVE UNCHANGED <<setting, guard>>
  BY <1>1 DEF server, Task, Admit, Refuse, CheckStop, NotRun, Spawn, SpawnFails,
       SpawnPanics, Attach, StoppedHere, WaitForeground, WriteStatus, StatusFails, HandOver,
       AbortUnrecorded, AbortUnwaited, Reap, Capture, Record, DropRun, DropTicket
<1>2. ASSUME NEW c \in Commands, Stopping(c) PROVE UNCHANGED <<setting, guard>>
  BY <1>2 DEF server, Stopping, Kill, StopEnds, CallStopped, CallAnswered
<1>3. ASSUME NEW c \in Commands,
             Cancel(c) \/ CallStop(c) \/ Timeout(c) \/ Forks(c) \/ Exits(c)
      PROVE  UNCHANGED <<setting, guard>>
  BY <1>3 DEF server, Cancel, CallStop, Timeout, Forks, Exits
<1>4. ClientGone \/ StopPanics \/ Crash => UNCHANGED <<setting, guard>>
  BY DEF ClientGone, StopPanics, Crash
<1>5. CASE Ending
  BY <1>5 DEF server, Ending, StopAll, JoinStops, StopAllEnds, DropRuntime, FinishSweep,
              Unwind, StopOne, Sweep, EndChildren
<1>. QED BY <1>1, <1>2, <1>3, <1>4, <1>5 DEF Next

\* Of a server that is gone, only its processes still take steps.
LEMMA OnlyProcesses ==
    ASSUME Next, ~Up
    PROVE  \E c \in Commands : Forks(c) \/ Exits(c)
<1>1. ASSUME NEW c \in Commands, Task(c) PROVE FALSE
  BY <1>1 DEF At, Task, Admit, Refuse, CheckStop, NotRun, Spawn, SpawnFails, SpawnPanics,
       Attach, StoppedHere, WaitForeground, WriteStatus, StatusFails, HandOver,
       AbortUnrecorded, AbortUnwaited, Reap, Capture, Record, DropRun, DropTicket
<1>2. ASSUME NEW c \in Commands, Stopping(c) PROVE FALSE
  BY <1>2 DEF Stopping, Kill, StopEnds, CallStopped, CallAnswered
<1>3. ASSUME NEW c \in Commands, Cancel(c) \/ CallStop(c) \/ Timeout(c) PROVE FALSE
  BY <1>3 DEF Up, Cancel, CallStop, Timeout
<1>4. ~(ClientGone \/ StopPanics \/ Crash)
  BY DEF Up, ClientGone, StopPanics, Crash
<1>5. ~Ending
  BY DEF Up, Ending, StopAll, JoinStops, StopAllEnds, DropRuntime, FinishSweep,
         Unwind, StopOne, Sweep, EndChildren
<1>. QED BY <1>1, <1>2, <1>3, <1>4, <1>5 DEF Next

\* No step takes the guard back, starts work without it, or lets go of it over
\* work that still runs.
LEMMA StepKeepsPromise ==
    ASSUME TypeOK, ExecInv, [Next]_vars
    PROVE  [Session!Next]_(Session!vars)
<1>1. CASE UNCHANGED vars
  BY <1>1 DEF Session!vars, vars, server, processes, Adopts, NoThread, Live
<1>2. CASE FinishSweep
  <2>1. UNCHANGED <<setting, processes>> BY <1>2 DEF FinishSweep
  <2>2. UNCHANGED Working BY <2>1 DEF Working, Adopts, NoThread, Live, processes
  <2>3. guard = "held" BY <1>2 DEF FinishSweep, ExecInv, Ended, TypeOK
  <2>4. guard' \in {"kept", "released"} BY <1>2 DEF FinishSweep
  <2>5. guard' = "released" => ~Working
    <3>1. ExecInv' BY NextInv, <1>2 DEF Next, Ending
    <3>. QED BY <2>1, <2>2, <3>1 DEF ExecInv, Ended, Working, Adopts, NoThread
  <2>. QED
    BY <2>2, <2>3, <2>4, <2>5 DEF Session!Next, Session!Release, Session!Keep, Working
<1>3. CASE Unwind
  <2>1. UNCHANGED <<setting, processes>> BY <1>3 DEF Unwind
  <2>2. UNCHANGED Working BY <2>1 DEF Working, Adopts, NoThread, Live, processes
  <2>3. guard = "held" BY <1>3 DEF Unwind, ExecInv, Ended, TypeOK
  <2>4. guard' = "released" /\ ~Working
    BY <1>3 DEF Unwind, ExecInv, Ended, Working
  <2>. QED BY <2>2, <2>3, <2>4 DEF Session!Next, Session!Release, Working
<1>4. CASE Next /\ UNCHANGED guard
  <2>1. UNCHANGED setting BY <1>4, GuardMoves
  <2>2. CASE guard = "held"
    BY <1>4, <2>2 DEF Session!Next, Session!Start, Session!End
  <2>3. CASE guard # "held"
    <3>1. ~Up BY <2>3 DEF ExecInv, Ended, Up
    <3>2. PICK c \in Commands : Forks(c) \/ Exits(c) BY <3>1, <1>4, OnlyProcesses
    <3>3. CASE Forks(c)
      <4>1. UNCHANGED leader /\ leader[c] = "alive" BY <3>3 DEF Forks
      <4>2. (\E d \in Commands : Live(d)) /\ (\E d \in Commands : Live(d))'
        BY <4>1 DEF Live
      <4>. QED BY <1>4, <2>1, <4>2 DEF Session!vars, Adopts, NoThread
    <3>4. CASE Exits(c)
      <4>1. \A d \in Commands : Live(d)' => Live(d)
        BY <3>4 DEF Exits, Live, TypeOK
      <4>2. Working' => Working BY <4>1, <2>1 DEF Working, Adopts, NoThread
      <4>. QED BY <1>4, <4>2 DEF Session!Next, Session!End, Session!vars, Working
    <3>. QED BY <3>2, <3>3, <3>4
  <2>. QED BY <2>2, <2>3
<1>. QED BY <1>1, <1>2, <1>3, <1>4, GuardMoves

\* A server that is a subreaper and gets its threads implements GuardedWork, the
\* promise WriteGuard is written against: it starts work only under the guard and
\* lets go of it over a quiet tree, or keeps it.
THEOREM QuietOrKept == Spec => EndsQuietOrKept
<1>1. Init => Session!Init
  BY DEF Init, Session!Init, Live
<1>2. TypeOK /\ ExecInv /\ [Next]_vars => [Session!Next]_(Session!vars)
  BY StepKeepsPromise
<1>. QED BY Inductive, <1>1, <1>2, PTL DEF Spec, EndsQuietOrKept, Session!Spec
=============================================================================
