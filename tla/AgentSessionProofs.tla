------------------------- MODULE AgentSessionProofs -------------------------
(***************************************************************************)
(* Theorems about AgentSession, for any number of stops of the Runtime and *)
(* of people, and any faults.                                              *)
(***************************************************************************)
EXTENDS AgentSession, TLAPS

\* What agent-run does before it asks the controller for anything.
Early == {"sent", "checked", "creating", "created", "locked"}

\* A start that was asked for cannot come any more: nothing is queued, the id is
\* taken from a run that has not made the directory, and the marker is there for
\* one that has.
Barred ==
    /\ request # "queued"
    /\ run \in {"sent", "checked"} => disk.dir # "none"
    /\ run \in {"creating", "created", "locked"} => disk.marker

\* The directory, and that nobody's is removed who is yet to use it.
Directory ==
    /\ disk.dir = "none" => disk = Nothing
    /\ run \in {"creating", "created", "locked", "asking", "recording"} => disk.dir # "none"
    /\ run \in {"sent", "checked"} /\ disk.dir = "none" => claim = "nobody"
    /\ \A s \in Stops : stop[s] = "fencing" => disk.dir = "bare" /\ run # "creating"
    /\ lock \in Assigned => disk.dir # "none"
    /\ disk.exit # "none" => run \notin Early
    /\ cleanup.state = "listed" => cleanup.saw.exit # "none" /\ cleanup.saw.dir = "full"

\* Which processes there can be.
Family ==
    /\ run \in Early => request = "none"
    /\ run \in {"creating", "created", "locked"} \/ request # "none" => claim = "run"
    /\ request = "started" => sup # "none"
    /\ sup # "none" => request \in {"started", "lost"}
    /\ run \in {"recording", "waiting", "rereading", "reported", "lost", "gaveUp"} =>
          request = "started"
    /\ run \in {"rereading", "lost"} => sup \in {"gone", "exited"}
    /\ run = "lost" /\ sup = "exited" => cleanup.state = "done"
    /\ sup \in {"leaving", "exited"} => disk.exit # "none" \/ cleanup.state = "done"
    /\ sup \in {"none", "loading"} => agent = "none"
    /\ agent = "none" => ~kids
    /\ sup \in {"spawned", "watching"} => agent # "none"
    /\ sup = "ended" => agent = "down"
    /\ sup = "failing" => ~GroupAlive
    /\ disk.supPid => run \notin Early /\ sup # "none"
    /\ disk.agentPid => agent # "none"

\* What nobody lost track of.
Followed ==
    /\ request = "queued" => run = "asking"
    /\ request = "lost" => sup = "none"
    /\ request = "started" => run \in {"asking", "recording"} \/ disk.supPid \/ Quiet
    /\ run = "asking" /\ request # "started" => disk.exit = "none"
    /\ disk.exit # "none" =>
          /\ request # "queued"
          /\ sup \in {"none", "leaving", "exited", "gone"}
          /\ disk.agentPid \/ ~GroupAlive
    /\ disk.exit = "failed" => agent # "up"
    /\ disk.exit = "ended" => agent = "down"
    /\ disk.exit = "stopped" => Quiet
    /\ sup \in {"watching", "ended"} => disk.agentPid

\* How far a stop is, and what it knows.
Stopping(s) ==
    /\ stop[s] \in {"verified", "toSignal", "agentGrace", "toEnd", "supGrace", "toRecord"} =>
          run \notin Early /\ sup # "none"
    /\ stop[s] \in {"toSignal", "agentGrace"} => agent # "none"
    /\ stop[s] \in {"toEnd", "supGrace", "toRecord"} => agent = "down" /\ ~kids
    /\ stop[s] = "toRecord" => sup \in {"exited", "gone"}
    /\ stop[s] = "confirming" => run \notin Early
    /\ ~astray =>
          /\ stop[s] = "confirming" /\ disk.exit = "none" => Quiet /\ Barred
          /\ stop[s] \in {"fencing"} \cup Confirmed => Quiet /\ Barred

AgentInv ==
    /\ Directory
    /\ Family
    /\ astray => claim = "run"
    /\ ~astray => Followed
    /\ \A s \in Stops : Stopping(s)

-----------------------------------------------------------------------------
(* Types *)

\* Every variable keeps its type, and the control lock its holder.
THEOREM AgentTyping == Spec => []TypeOK
<1> USE StopsAssumption, RunAssumption
<1>1. Init => TypeOK
  <2> SUFFICES ASSUME Init PROVE TypeOK
    OBVIOUS
  <2>1. disk \in Files /\ cleanup \in [state : {"idle", "listed", "done"}, saw : Files]
    BY DEF Init, Nothing, Files
  <2>2. Flags
    BY Zenon DEF Init, Flags
  <2>3. Steps /\ Holders
    BY DEF Init, Steps, Holders, RunEnded, StopEnded, Confirmed
  <2>. QED
    BY <2>1, <2>2, <2>3 DEF TypeOK
<1>2. TypeOK /\ [Next]_session => TypeOK'
  <2> SUFFICES ASSUME TypeOK, [Next]_session PROVE TypeOK'
    OBVIOUS
  <2> USE DEF processes, others, ours, theirs, outside, inSession, RunTo, Released,
              StopTo, StopAnswers
  <2>1. CASE RunChecks
    BY <2>1 DEF RunChecks,
       TypeOK, Files, Flags, Steps, Holders, RunEnded, StopEnded, Confirmed
  <2>2. CASE RunPreflightFails
    BY <2>2 DEF RunPreflightFails,
       TypeOK, Files, Flags, Steps, Holders, RunEnded, StopEnded, Confirmed
  <2>3. CASE RunCreates
    BY <2>3 DEF RunCreates,
       TypeOK, Files, Flags, Steps, Holders, RunEnded, StopEnded, Confirmed
  <2>4. CASE RunWritesFiles
    BY <2>4 DEF RunWritesFiles,
       TypeOK, Files, Flags, Steps, Holders, RunEnded, StopEnded, Confirmed
  <2>5. CASE RunCannotWriteFiles
    BY <2>5 DEF RunCannotWriteFiles,
       TypeOK, Files, Flags, Steps, Holders, RunEnded, StopEnded, Confirmed
  <2>6. CASE RunLocks
    BY <2>6 DEF RunLocks,
       TypeOK, Files, Flags, Steps, Holders, RunEnded, StopEnded, Confirmed
  <2>7. CASE RunFindsMarker
    BY <2>7 DEF RunFindsMarker,
       TypeOK, Files, Flags, Steps, Holders, RunEnded, StopEnded, Confirmed
  <2>8. CASE RunAsks
    BY <2>8 DEF RunAsks,
       TypeOK, Files, Flags, Steps, Holders, RunEnded, StopEnded, Confirmed
  <2>9. CASE RunHears
    BY <2>9 DEF RunHears,
       TypeOK, Files, Flags, Steps, Holders, RunEnded, StopEnded, Confirmed
  <2>10. CASE RunHearsError
    BY <2>10 DEF RunHearsError,
       TypeOK, Files, Flags, Steps, Holders, RunEnded, StopEnded, Confirmed
  <2>11. CASE RunTimesOut
    BY <2>11 DEF RunTimesOut,
       TypeOK, Files, Flags, Steps, Holders, RunEnded, StopEnded, Confirmed
  <2>12. CASE RunRecords
    <3>1. (disk \in Files)' /\ (cleanup \in [state : {"idle", "listed", "done"}, saw : Files])'
      BY <2>12 DEF RunRecords, TypeOK, Files, Steps
    <3>2. Flags'
      BY <2>12, Zenon DEF RunRecords, TypeOK, Flags
    <3>3. Steps'
      BY <2>12 DEF RunRecords, TypeOK, Steps, RunEnded, StopEnded, Confirmed
    <3>4. Holders'
      BY <2>12 DEF RunRecords, TypeOK, Steps, Holders, RunEnded, StopEnded, Confirmed
    <3>. QED
      BY <3>1, <3>2, <3>3, <3>4 DEF TypeOK
  <2>13. CASE RunCannotRecord
    BY <2>13 DEF RunCannotRecord,
       TypeOK, Files, Flags, Steps, Holders, RunEnded, StopEnded, Confirmed
  <2>14. CASE RunReads
    BY <2>14 DEF RunReads,
       TypeOK, Files, Flags, Steps, Holders, RunEnded, StopEnded, Confirmed
  <2>15. CASE RunFindsSupGone
    BY <2>15 DEF RunFindsSupGone,
       TypeOK, Files, Flags, Steps, Holders, RunEnded, StopEnded, Confirmed
  <2>16. CASE RunLosesSup
    BY <2>16 DEF RunLosesSup,
       TypeOK, Files, Flags, Steps, Holders, RunEnded, StopEnded, Confirmed
  <2>17. CASE RunGivesUp
    BY <2>17 DEF RunGivesUp,
       TypeOK, Files, Flags, Steps, Holders, RunEnded, StopEnded, Confirmed
  <2>18. CASE RunDies
    BY <2>18 DEF RunDies,
       TypeOK, Files, Flags, Steps, Holders, RunEnded, StopEnded, Confirmed
  <2>19. CASE CtlSpawns
    BY <2>19 DEF CtlSpawns,
       TypeOK, Files, Flags, Steps, Holders, RunEnded, StopEnded, Confirmed
  <2>20. CASE CtlRefuses
    BY <2>20 DEF CtlRefuses,
       TypeOK, Files, Flags, Steps, Holders, RunEnded, StopEnded, Confirmed
  <2>21. CASE CtlDies
    BY <2>21 DEF CtlDies,
       TypeOK, Files, Flags, Steps, Holders, RunEnded, StopEnded, Confirmed
  <2>22. CASE SupSpawnsAgent
    BY <2>22 DEF SupSpawnsAgent,
       TypeOK, Files, Flags, Steps, Holders, RunEnded, StopEnded, Confirmed
  <2>23. CASE SupCannotLaunch
    BY <2>23 DEF SupCannotLaunch,
       TypeOK, Files, Flags, Steps, Holders, RunEnded, StopEnded, Confirmed
  <2>24. CASE SupCannotLoad
    BY <2>24 DEF SupCannotLoad,
       TypeOK, Files, Flags, Steps, Holders, RunEnded, StopEnded, Confirmed
  <2>25. CASE SupRecordsAgent
    <3>1. (disk \in Files)' /\ (cleanup \in [state : {"idle", "listed", "done"}, saw : Files])'
      BY <2>25 DEF SupRecordsAgent, TypeOK, Files, Steps
    <3>2. Flags'
      BY <2>25, Zenon DEF SupRecordsAgent, TypeOK, Flags
    <3>3. Steps'
      BY <2>25 DEF SupRecordsAgent, TypeOK, Steps, RunEnded, StopEnded, Confirmed
    <3>4. Holders'
      BY <2>25 DEF SupRecordsAgent, TypeOK, Steps, Holders, RunEnded, StopEnded, Confirmed
    <3>. QED
      BY <3>1, <3>2, <3>3, <3>4 DEF TypeOK
  <2>26. CASE SupCannotRecord
    <3>1. (disk \in Files)' /\ (cleanup \in [state : {"idle", "listed", "done"}, saw : Files])'
      BY <2>26 DEF SupCannotRecord, TypeOK, Files, Steps
    <3>2. Flags'
      BY <2>26, Zenon DEF SupCannotRecord, TypeOK, Flags
    <3>3. Steps'
      BY <2>26 DEF SupCannotRecord, TypeOK, Steps, RunEnded, StopEnded, Confirmed
    <3>4. Holders'
      BY <2>26 DEF SupCannotRecord, TypeOK, Steps, Holders, RunEnded, StopEnded, Confirmed
    <3>. QED
      BY <3>1, <3>2, <3>3, <3>4 DEF TypeOK
  <2>27. CASE SupKillsAgent
    <3>1. (disk \in Files)' /\ (cleanup \in [state : {"idle", "listed", "done"}, saw : Files])'
      BY <2>27 DEF SupKillsAgent, TypeOK, Files, Steps
    <3>2. Flags'
      BY <2>27, Zenon DEF SupKillsAgent, TypeOK, Flags
    <3>3. Steps'
      BY <2>27 DEF SupKillsAgent, TypeOK, Steps, RunEnded, StopEnded, Confirmed
    <3>4. Holders'
      BY <2>27 DEF SupKillsAgent, TypeOK, Steps, Holders, RunEnded, StopEnded, Confirmed
    <3>. QED
      BY <3>1, <3>2, <3>3, <3>4 DEF TypeOK
  <2>28. CASE SupReaps
    BY <2>28 DEF SupReaps,
       TypeOK, Files, Flags, Steps, Holders, RunEnded, StopEnded, Confirmed
  <2>29. CASE SupWritesOutcome
    BY <2>29 DEF SupWritesOutcome, Result,
       TypeOK, Files, Flags, Steps, Holders, RunEnded, StopEnded, Confirmed
  <2>30. CASE SupCannotWrite
    BY <2>30 DEF SupCannotWrite,
       TypeOK, Files, Flags, Steps, Holders, RunEnded, StopEnded, Confirmed
  <2>31. CASE SupExits
    BY <2>31 DEF SupExits,
       TypeOK, Files, Flags, Steps, Holders, RunEnded, StopEnded, Confirmed
  <2>32. CASE SupDies
    BY <2>32 DEF SupDies,
       TypeOK, Files, Flags, Steps, Holders, RunEnded, StopEnded, Confirmed
  <2>33. CASE AgentForks
    BY <2>33 DEF AgentForks,
       TypeOK, Files, Flags, Steps, Holders, RunEnded, StopEnded, Confirmed
  <2>34. CASE AgentEnds
    BY <2>34 DEF AgentEnds,
       TypeOK, Files, Flags, Steps, Holders, RunEnded, StopEnded, Confirmed
  <2>35. CASE KidsEnd
    <3>1. (disk \in Files)' /\ (cleanup \in [state : {"idle", "listed", "done"}, saw : Files])'
      BY <2>35 DEF KidsEnd, TypeOK, Files, Steps
    <3>2. Flags'
      BY <2>35, Zenon DEF KidsEnd, TypeOK, Flags
    <3>3. Steps'
      BY <2>35 DEF KidsEnd, TypeOK, Steps, RunEnded, StopEnded, Confirmed
    <3>4. Holders'
      BY <2>35 DEF KidsEnd, TypeOK, Steps, Holders, RunEnded, StopEnded, Confirmed
    <3>. QED
      BY <3>1, <3>2, <3>3, <3>4 DEF TypeOK
  <2>36. ASSUME NEW s \in Stops, StopFences(s) PROVE TypeOK'
    BY <2>36 DEF StopFences,
       TypeOK, Files, Flags, Steps, Holders, RunEnded, StopEnded, Confirmed
  <2>37. ASSUME NEW s \in Stops, StopMarks(s) PROVE TypeOK'
    <3>1. (disk \in Files)' /\ (cleanup \in [state : {"idle", "listed", "done"}, saw : Files])'
      BY <2>37 DEF StopMarks, TypeOK, Files, Steps
    <3>2. Flags'
      BY <2>37, Zenon DEF StopMarks, TypeOK, Flags
    <3>3. Steps'
      BY <2>37 DEF StopMarks, TypeOK, Steps, RunEnded, StopEnded, Confirmed
    <3>4. Holders'
      BY <2>37 DEF StopMarks, TypeOK, Steps, Holders, RunEnded, StopEnded, Confirmed
    <3>. QED
      BY <3>1, <3>2, <3>3, <3>4 DEF TypeOK
  <2>38. ASSUME NEW s \in Stops, StopCannotMark(s) PROVE TypeOK'
    BY <2>38 DEF StopCannotMark,
       TypeOK, Files, Flags, Steps, Holders, RunEnded, StopEnded, Confirmed
  <2>39. ASSUME NEW s \in Stops, StopLocks(s) PROVE TypeOK'
    BY <2>39 DEF StopLocks,
       TypeOK, Files, Flags, Steps, Holders, RunEnded, StopEnded, Confirmed
  <2>40. ASSUME NEW s \in Stops, StopFindsNoPid(s) PROVE TypeOK'
    <3>1. (disk \in Files)' /\ (cleanup \in [state : {"idle", "listed", "done"}, saw : Files])'
      BY <2>40 DEF StopFindsNoPid, TypeOK, Files, Steps
    <3>2. Flags'
      BY <2>40, Zenon DEF StopFindsNoPid, TypeOK, Flags
    <3>3. Steps'
      BY <2>40 DEF StopFindsNoPid, TypeOK, Steps, RunEnded, StopEnded, Confirmed
    <3>4. Holders'
      BY <2>40 DEF StopFindsNoPid, TypeOK, Steps, Holders, RunEnded, StopEnded, Confirmed
    <3>. QED
      BY <3>1, <3>2, <3>3, <3>4 DEF TypeOK
  <2>41. ASSUME NEW s \in Stops, StopByPerson(s) PROVE TypeOK'
    BY <2>41 DEF StopByPerson,
       TypeOK, Files, Flags, Steps, Holders, RunEnded, StopEnded, Confirmed
  <2>42. ASSUME NEW s \in Stops, StopFindsOutcome(s) PROVE TypeOK'
    BY <2>42 DEF StopFindsOutcome,
       TypeOK, Files, Flags, Steps, Holders, RunEnded, StopEnded, Confirmed
  <2>43. ASSUME NEW s \in Stops, StopConfirms(s) PROVE TypeOK'
    BY <2>43 DEF StopConfirms,
       TypeOK, Files, Flags, Steps, Holders, RunEnded, StopEnded, Confirmed
  <2>44. ASSUME NEW s \in Stops, StopVerifiesSup(s) PROVE TypeOK'
    BY <2>44 DEF StopVerifiesSup,
       TypeOK, Files, Flags, Steps, Holders, RunEnded, StopEnded, Confirmed
  <2>45. ASSUME NEW s \in Stops, StopVerifiesAgent(s) PROVE TypeOK'
    BY <2>45 DEF StopVerifiesAgent,
       TypeOK, Files, Flags, Steps, Holders, RunEnded, StopEnded, Confirmed
  <2>46. ASSUME NEW s \in Stops, CannotWriteMarker(s) PROVE TypeOK'
    BY <2>46 DEF CannotWriteMarker,
       TypeOK, Files, Flags, Steps, Holders, RunEnded, StopEnded, Confirmed
  <2>47. ASSUME NEW s \in Stops, StopSignalsAgent(s) PROVE TypeOK'
    <3>1. (disk \in Files)' /\ (cleanup \in [state : {"idle", "listed", "done"}, saw : Files])'
      BY <2>47 DEF StopSignalsAgent, TypeOK, Files, Steps
    <3>2. Flags'
      BY <2>47, Zenon DEF StopSignalsAgent, TypeOK, Flags
    <3>3. Steps'
      BY <2>47 DEF StopSignalsAgent, TypeOK, Steps, RunEnded, StopEnded, Confirmed
    <3>4. Holders'
      BY <2>47 DEF StopSignalsAgent, TypeOK, Steps, Holders, RunEnded, StopEnded, Confirmed
    <3>. QED
      BY <3>1, <3>2, <3>3, <3>4 DEF TypeOK
  <2>48. ASSUME NEW s \in Stops, StopSeesAgentEnd(s) PROVE TypeOK'
    BY <2>48 DEF StopSeesAgentEnd,
       TypeOK, Files, Flags, Steps, Holders, RunEnded, StopEnded, Confirmed
  <2>49. ASSUME NEW s \in Stops, StopOutOfGrace(s) PROVE TypeOK'
    BY <2>49 DEF StopOutOfGrace,
       TypeOK, Files, Flags, Steps, Holders, RunEnded, StopEnded, Confirmed
  <2>50. ASSUME NEW s \in Stops, StopSignalsSup(s) PROVE TypeOK'
    <3>1. (disk \in Files)' /\ (cleanup \in [state : {"idle", "listed", "done"}, saw : Files])'
      BY <2>50 DEF StopSignalsSup, TypeOK, Files, Steps
    <3>2. Flags'
      BY <2>50, Zenon DEF StopSignalsSup, TypeOK, Flags, SupRuns
    <3>3. Steps'
      BY <2>50 DEF StopSignalsSup, TypeOK, Steps, RunEnded, StopEnded, Confirmed
    <3>4. Holders'
      BY <2>50 DEF StopSignalsSup, TypeOK, Steps, Holders, RunEnded, StopEnded, Confirmed
    <3>. QED
      BY <3>1, <3>2, <3>3, <3>4 DEF TypeOK
  <2>51. ASSUME NEW s \in Stops, StopSeesSupEnd(s) PROVE TypeOK'
    BY <2>51 DEF StopSeesSupEnd,
       TypeOK, Files, Flags, Steps, Holders, RunEnded, StopEnded, Confirmed
  <2>52. ASSUME NEW s \in Stops, StopRecords(s) PROVE TypeOK'
    BY <2>52 DEF StopRecords,
       TypeOK, Files, Flags, Steps, Holders, RunEnded, StopEnded, Confirmed
  <2>53. ASSUME NEW s \in Stops, StopCannotRecord(s) PROVE TypeOK'
    BY <2>53 DEF StopCannotRecord,
       TypeOK, Files, Flags, Steps, Holders, RunEnded, StopEnded, Confirmed
  <2>54. ASSUME NEW s \in Stops, StopCannotAsk(s) PROVE TypeOK'
    BY <2>54 DEF StopCannotAsk,
       TypeOK, Files, Flags, Steps, Holders, RunEnded, StopEnded, Confirmed
  <2>55. ASSUME NEW s \in Stops, StopDies(s) PROVE TypeOK'
    BY <2>55 DEF StopDies,
       TypeOK, Files, Flags, Steps, Holders, RunEnded, StopEnded, Confirmed
  <2>56. CASE CleanupLists
    BY <2>56 DEF CleanupLists,
       TypeOK, Files, Flags, Steps, Holders, RunEnded, StopEnded, Confirmed
  <2>57. CASE CleanupRemoves
    <3>0. Nothing \in Files
      BY DEF Nothing, Files
    <3>1. (disk \in Files)' /\ (cleanup \in [state : {"idle", "listed", "done"}, saw : Files])'
      BY <2>57, <3>0 DEF CleanupRemoves, TypeOK
    <3>2. Flags'
      BY <2>57, Zenon DEF CleanupRemoves, TypeOK, Flags, Quiet
    <3>3. Steps'
      BY <2>57 DEF CleanupRemoves, TypeOK, Steps, RunEnded, StopEnded, Confirmed
    <3>4. Holders'
      BY <2>57 DEF CleanupRemoves, TypeOK, Steps, Holders, RunEnded, StopEnded, Confirmed
    <3>. QED
      BY <3>1, <3>2, <3>3, <3>4 DEF TypeOK
  <2>58. CASE UNCHANGED session
    BY <2>58 DEF session,
       TypeOK, Files, Flags, Steps, Holders, RunEnded, StopEnded, Confirmed
  <2>. QED
    BY <2>1, <2>2, <2>3, <2>4, <2>5, <2>6, <2>7, <2>8, <2>9, <2>10, <2>11,
       <2>12, <2>13, <2>14, <2>15, <2>16, <2>17, <2>18, <2>19, <2>20, <2>21,
       <2>22, <2>23, <2>24, <2>25, <2>26, <2>27, <2>28, <2>29, <2>30, <2>31,
       <2>32, <2>33, <2>34, <2>35, <2>36, <2>37, <2>38, <2>39, <2>40, <2>41,
       <2>42, <2>43, <2>44, <2>45, <2>46, <2>47, <2>48, <2>49, <2>50, <2>51,
       <2>52, <2>53, <2>54, <2>55, <2>56, <2>57, <2>58 DEF Next, RunStep,
       CtlStep, SupStep, StopStep
<1>. QED
  BY <1>1, <1>2, PTL DEF Spec

-----------------------------------------------------------------------------
(* The invariant *)

\* Every step of agent-run keeps the invariant.
LEMMA RunKeepsInv ==
    ASSUME TypeOK, AgentInv,
           RunStep \/ RunDies
    PROVE  AgentInv'
<1> USE StopsAssumption, RunAssumption
        DEF processes, others, RunTo, Released, TypeOK, Steps, Holders,
           RunEnded, StopEnded, Confirmed, Files, AgentInv, Directory,
           Family, Followed, Stopping, Barred, Early, Quiet, GroupAlive,
           SupRuns, Requested, Nothing
<1>1. CASE RunChecks
  BY <1>1 DEF RunChecks
<1>2. CASE RunPreflightFails
  BY <1>2 DEF RunPreflightFails
<1>3. CASE RunCreates
  BY <1>3 DEF RunCreates
<1>4. CASE RunWritesFiles
  BY <1>4 DEF RunWritesFiles
<1>5. CASE RunCannotWriteFiles
  BY <1>5 DEF RunCannotWriteFiles
<1>6. CASE RunLocks
  BY <1>6 DEF RunLocks
<1>7. CASE RunFindsMarker
  BY <1>7 DEF RunFindsMarker
<1>8. CASE RunAsks
  BY <1>8 DEF RunAsks
<1>9. CASE RunHears
  BY <1>9 DEF RunHears
<1>10. CASE RunHearsError
  BY <1>10 DEF RunHearsError
<1>11. CASE RunTimesOut
  BY <1>11 DEF RunTimesOut
<1>12. CASE RunRecords
  BY <1>12 DEF RunRecords
<1>13. CASE RunCannotRecord
  BY <1>13 DEF RunCannotRecord
<1>14. CASE RunReads
  BY <1>14 DEF RunReads
<1>15. CASE RunFindsSupGone
  BY <1>15 DEF RunFindsSupGone
<1>16. CASE RunLosesSup
  BY <1>16 DEF RunLosesSup
<1>17. CASE RunGivesUp
  BY <1>17 DEF RunGivesUp
<1>18. CASE RunDies
  <2> USE <1>18 DEF RunDies
  <2>1. Directory'
    OBVIOUS
  <2>2. Family'
    OBVIOUS
  <2>3. (astray => claim = "run")'
    OBVIOUS
  <2>4. (~astray => Followed)'
    OBVIOUS
  <2>5. (\A t \in Stops : Stopping(t))'
    OBVIOUS
  <2>. QED
    BY <2>1, <2>2, <2>3, <2>4, <2>5
<1>. QED
  BY <1>1, <1>2, <1>3, <1>4, <1>5, <1>6, <1>7, <1>8, <1>9, <1>10, <1>11,
     <1>12, <1>13, <1>14, <1>15, <1>16, <1>17, <1>18 DEF RunStep

\* Every step of the controller keeps the invariant.
LEMMA CtlKeepsInv ==
    ASSUME TypeOK, AgentInv,
           CtlStep
    PROVE  AgentInv'
<1> USE StopsAssumption, RunAssumption
        DEF ours, TypeOK, Steps, Holders, RunEnded, StopEnded,
           Confirmed, Files, AgentInv, Directory, Family, Followed, Stopping,
           Barred, Early, Quiet, GroupAlive, SupRuns, Requested, Nothing
<1>1. CASE CtlSpawns
  BY <1>1 DEF CtlSpawns
<1>2. CASE CtlRefuses
  BY <1>2 DEF CtlRefuses
<1>3. CASE CtlDies
  <2> USE <1>3 DEF CtlDies
  <2>1. Directory'
    OBVIOUS
  <2>2. Family'
    OBVIOUS
  <2>3. (astray => claim = "run")'
    OBVIOUS
  <2>4. (~astray => Followed)'
    OBVIOUS
  <2>5. (\A t \in Stops : Stopping(t))'
    OBVIOUS
  <2>. QED
    BY <2>1, <2>2, <2>3, <2>4, <2>5
<1>. QED
  BY <1>1, <1>2, <1>3 DEF CtlStep

\* Every step of the supervisor, the Agent and its children keeps the invariant.
LEMMA SupKeepsInv ==
    ASSUME TypeOK, AgentInv,
           SupStep \/ SupDies \/ AgentForks \/ AgentEnds \/ KidsEnd
    PROVE  AgentInv'
<1> USE StopsAssumption, RunAssumption
        DEF theirs, TypeOK, Steps, Holders, RunEnded, StopEnded,
           Confirmed, Files, AgentInv, Directory, Family, Followed, Stopping,
           Barred, Early, Quiet, GroupAlive, SupRuns, Requested, Nothing
<1>1. CASE SupSpawnsAgent
  BY <1>1 DEF SupSpawnsAgent
<1>2. CASE SupCannotLaunch
  BY <1>2 DEF SupCannotLaunch
<1>3. CASE SupCannotLoad
  BY <1>3 DEF SupCannotLoad
<1>4. CASE SupRecordsAgent
  BY <1>4 DEF SupRecordsAgent
<1>5. CASE SupCannotRecord
  BY <1>5 DEF SupCannotRecord
<1>6. CASE SupKillsAgent
  BY <1>6 DEF SupKillsAgent
<1>7. CASE SupReaps
  BY <1>7 DEF SupReaps
<1>8. CASE SupWritesOutcome
  BY <1>8 DEF SupWritesOutcome, Result
<1>9. CASE SupCannotWrite
  BY <1>9 DEF SupCannotWrite
<1>10. CASE SupExits
  BY <1>10 DEF SupExits
<1>11. CASE SupDies
  BY <1>11 DEF SupDies
<1>12. CASE AgentForks
  BY <1>12 DEF AgentForks
<1>13. CASE AgentEnds
  BY <1>13 DEF AgentEnds
<1>14. CASE KidsEnd
  BY SMTT(30), <1>14 DEF KidsEnd
<1>. QED
  BY <1>1, <1>2, <1>3, <1>4, <1>5, <1>6, <1>7, <1>8, <1>9, <1>10, <1>11,
     <1>12, <1>13, <1>14 DEF SupStep

\* Every step of a stop keeps the invariant.
LEMMA StopKeepsInv ==
    ASSUME NEW s \in Stops, TypeOK, AgentInv,
           StopStep(s) \/ StopDies(s)
    PROVE  AgentInv'
<1> USE StopsAssumption, RunAssumption
        DEF outside, StopTo, StopAnswers, Released, TypeOK, Steps,
           Holders, RunEnded, StopEnded, Confirmed, Files, AgentInv,
           Directory, Family, Followed, Stopping, Barred, Early, Quiet,
           GroupAlive, SupRuns, Requested, Nothing
<1>1. CASE StopFences(s)
  BY <1>1 DEF StopFences
<1>2. CASE StopMarks(s)
  BY <1>2 DEF StopMarks
<1>3. CASE StopCannotMark(s)
  BY <1>3 DEF StopCannotMark
<1>4. CASE StopLocks(s)
  BY <1>4 DEF StopLocks
<1>5. CASE StopFindsNoPid(s)
  BY <1>5 DEF StopFindsNoPid
<1>6. CASE StopByPerson(s)
  BY <1>6 DEF StopByPerson
<1>7. CASE StopFindsOutcome(s)
  BY <1>7 DEF StopFindsOutcome
<1>8. CASE StopConfirms(s)
  BY <1>8 DEF StopConfirms, RecordedGroupsEnded
<1>9. CASE StopVerifiesSup(s)
  BY <1>9 DEF StopVerifiesSup
<1>10. CASE StopVerifiesAgent(s)
  BY <1>10 DEF StopVerifiesAgent, AgentOwned
<1>11. CASE CannotWriteMarker(s)
  BY <1>11 DEF CannotWriteMarker
<1>12. CASE StopSignalsAgent(s)
  BY <1>12 DEF StopSignalsAgent
<1>13. CASE StopSeesAgentEnd(s)
  BY <1>13 DEF StopSeesAgentEnd
<1>14. CASE StopOutOfGrace(s)
  BY <1>14 DEF StopOutOfGrace
<1>15. CASE StopSignalsSup(s)
  BY <1>15 DEF StopSignalsSup
<1>16. CASE StopSeesSupEnd(s)
  BY <1>16 DEF StopSeesSupEnd
<1>17. CASE StopRecords(s)
  <2> USE <1>17 DEF StopRecords
  <2>1. CASE disk.exit = "none"
    <3>1. disk' = [disk EXCEPT !.exit = "stopped"]
      BY <2>1
    <3>. QED
      BY <2>1, <3>1
  <2>2. CASE disk.exit # "none"
    <3>1. disk'.exit = disk.exit /\ disk'.dir = disk.dir /\ disk'.supPid = disk.supPid
      BY <2>2
    <3>2. disk'.marker = disk.marker /\ disk'.agentPid = disk.agentPid
      BY <2>2
    <3>3. disk'.dir # "none"
      BY <3>1
    <3>. QED
      BY <2>2, <3>1, <3>2, <3>3
  <2>. QED
    BY <2>1, <2>2
<1>18. CASE StopCannotRecord(s)
  BY <1>18 DEF StopCannotRecord
<1>19. CASE StopCannotAsk(s)
  BY <1>19 DEF StopCannotAsk
<1>20. CASE StopDies(s)
  BY <1>20 DEF StopDies
<1>. QED
  BY <1>1, <1>2, <1>3, <1>4, <1>5, <1>6, <1>7, <1>8, <1>9, <1>10, <1>11,
     <1>12, <1>13, <1>14, <1>15, <1>16, <1>17, <1>18, <1>19, <1>20 DEF
     StopStep

\* Every step of a cleanup keeps the invariant.
LEMMA CleanupKeepsInv ==
    ASSUME TypeOK, AgentInv,
           CleanupLists \/ CleanupRemoves
    PROVE  AgentInv'
<1> USE StopsAssumption, RunAssumption
        DEF inSession, TypeOK, Steps, Holders, RunEnded, StopEnded,
           Confirmed, Files, AgentInv, Directory, Family, Followed, Stopping,
           Barred, Early, Quiet, GroupAlive, SupRuns, Requested, Nothing
<1>1. CASE CleanupLists
  BY <1>1 DEF CleanupLists
<1>2. CASE CleanupRemoves
  <2> USE <1>2 DEF CleanupRemoves
  <2>1. CASE ~(disk = cleanup.saw /\ lock = Free)
    BY <2>1
  <2>2. CASE disk = cleanup.saw /\ lock = Free
    <3>1. disk' = Nothing /\ disk'.dir = "none" /\ disk'.exit = "none" /\ ~disk'.supPid
      BY <2>2
    <3>2. run \notin Early \cup {"asking", "recording"} /\ ~disk'.agentPid /\ cleanup'.state = "done"
      BY <2>2
    <3>3. astray' = (astray \/ ~Quiet)
      BY <2>2
    <3>4. Directory'
      BY <3>1, <3>2
    <3>5. Family'
      BY <3>1, <3>2
    <3>6. (astray => claim = "run")'
      BY <3>3
    <3>7. (~astray => Followed)'
      BY <2>2, <3>1, <3>2, <3>3
    <3>8. (\A t \in Stops : Stopping(t))'
      BY <2>2, <3>1, <3>2, <3>3
    <3>. QED
      BY <3>4, <3>5, <3>6, <3>7, <3>8
  <2>. QED
    BY <2>1, <2>2
<1>. QED
  BY <1>1, <1>2

\* The invariant holds of every reachable state.
THEOREM AgentInvariant == Spec => [](TypeOK /\ AgentInv)
<1>1. Init => AgentInv
  <2> SUFFICES ASSUME Init PROVE AgentInv
    OBVIOUS
  <2> USE StopsAssumption, RunAssumption DEF Init, Nothing
  <2>1. Directory
    BY DEF Directory, Early
  <2>2. Family
    BY DEF Family, Early, GroupAlive
  <2>3. Followed
    BY DEF Followed, Quiet, GroupAlive
  <2>4. \A s \in Stops : Stopping(s)
    BY DEF Stopping, Confirmed
  <2>. QED
    BY <2>1, <2>2, <2>3, <2>4 DEF AgentInv
<1>2. TypeOK /\ AgentInv /\ [Next]_session => AgentInv'
  <2> SUFFICES ASSUME TypeOK, AgentInv, [Next]_session PROVE AgentInv'
    OBVIOUS
  <2>1. CASE RunStep \/ RunDies
    BY <2>1, RunKeepsInv
  <2>2. CASE CtlStep
    BY <2>2, CtlKeepsInv
  <2>3. CASE SupStep \/ SupDies \/ AgentForks \/ AgentEnds \/ KidsEnd
    BY <2>3, SupKeepsInv
  <2>4. CASE \E s \in Stops : StopStep(s) \/ StopDies(s)
    BY <2>4, StopKeepsInv
  <2>5. CASE CleanupLists \/ CleanupRemoves
    BY <2>5, CleanupKeepsInv
  <2>6. CASE UNCHANGED session
    BY <2>6 DEF session, AgentInv, Directory, Family, Followed, Stopping, Barred,
       Early, Quiet, GroupAlive, Nothing, Confirmed
  <2>. QED
    BY <2>1, <2>2, <2>3, <2>4, <2>5, <2>6 DEF Next
<1>. QED
  BY <1>1, <1>2, AgentTyping, PTL DEF Spec

\* A stop that answered Ok has nothing behind it that runs, and nothing starts
\* later on, unless a start or a record was lost track of.
THEOREM ConfirmedQuiet == Spec => []ConfirmedIsQuiet
<1>1. AgentInv => ConfirmedIsQuiet
  BY DEF ConfirmedIsQuiet, Sealed, AgentInv, Stopping
<1>. QED
  BY <1>1, AgentInvariant, PTL

\* The outcome on disk is true of the processes, and run calls no session lost
\* whose supervisor wrote one.
THEOREM OutcomeTrue == Spec => []OutcomeIsTrue
<1>1. TypeOK /\ AgentInv => OutcomeIsTrue
  BY DEF OutcomeIsTrue, TypeOK, Files, AgentInv, Followed, Family
<1>. QED
  BY <1>1, AgentInvariant, PTL

-----------------------------------------------------------------------------
(* The refinement *)

\* A step that no stop takes confirms none.
LEMMA SealedSame == ASSUME stop' = stop PROVE Sealed' <=> Sealed
  BY DEF Sealed

\* Once a stop was confirmed, nothing runs and nothing can start.
LEMMA SealedBars == ASSUME AgentInv, ~astray, Sealed PROVE Quiet /\ Barred
  BY DEF Sealed, AgentInv, Stopping

LEMMA SealedBarsNext == ASSUME AgentInv', Sealed' PROVE ~astray' => Quiet'
  BY DEF Sealed, AgentInv, Stopping

\* Every step of agent-run is one of AgentPromise, or none.
LEMMA RunKeepsPromise ==
    ASSUME TypeOK, AgentInv, AgentInv',
           RunStep \/ RunDies
    PROVE  [Promise!Next]_Promise!promised
<1> USE StopsAssumption, RunAssumption
        DEF processes, others, RunTo, Released, TypeOK, Steps, Holders,
           RunEnded, StopEnded, Confirmed, Files, AgentInv, Directory,
           Family, Followed, Barred, Early, Quiet, GroupAlive, SupRuns,
           Requested, Nothing, Life, Promise!Next, Promise!promised,
           Promise!Claim, Promise!Begin, Promise!Cease, Promise!Seal,
           Promise!Forget, Promise!Say, Promise!GoAstray
<1>1. CASE RunChecks
  <2>1. Sealed' <=> Sealed
    BY <1>1, SealedSame DEF RunChecks
  <2>. QED
    BY <1>1, <2>1 DEF RunChecks
<1>2. CASE RunPreflightFails
  <2>1. Sealed' <=> Sealed
    BY <1>2, SealedSame DEF RunPreflightFails
  <2>. QED
    BY <1>2, <2>1 DEF RunPreflightFails
<1>3. CASE RunCreates
  <2>1. Sealed' <=> Sealed
    BY <1>3, SealedSame DEF RunCreates
  <2>. QED
    BY <1>3, <2>1 DEF RunCreates
<1>4. CASE RunWritesFiles
  <2>1. Sealed' <=> Sealed
    BY <1>4, SealedSame DEF RunWritesFiles
  <2>. QED
    BY <1>4, <2>1 DEF RunWritesFiles
<1>5. CASE RunCannotWriteFiles
  <2>1. Sealed' <=> Sealed
    BY <1>5, SealedSame DEF RunCannotWriteFiles
  <2>. QED
    BY <1>5, <2>1 DEF RunCannotWriteFiles
<1>6. CASE RunLocks
  <2>1. Sealed' <=> Sealed
    BY <1>6, SealedSame DEF RunLocks
  <2>. QED
    BY <1>6, <2>1 DEF RunLocks
<1>7. CASE RunFindsMarker
  <2>1. Sealed' <=> Sealed
    BY <1>7, SealedSame DEF RunFindsMarker
  <2>. QED
    BY <1>7, <2>1 DEF RunFindsMarker
<1>8. CASE RunAsks
  <2>1. Sealed' <=> Sealed
    BY <1>8, SealedSame DEF RunAsks
  <2>. QED
    BY <1>8, <2>1 DEF RunAsks
<1>9. CASE RunHears
  <2>1. Sealed' <=> Sealed
    BY <1>9, SealedSame DEF RunHears
  <2>. QED
    BY <1>9, <2>1 DEF RunHears
<1>10. CASE RunHearsError
  <2>1. Sealed' <=> Sealed
    BY <1>10, SealedSame DEF RunHearsError
  <2>. QED
    BY <1>10, <2>1 DEF RunHearsError
<1>11. CASE RunTimesOut
  <2>1. Sealed' <=> Sealed
    BY <1>11, SealedSame DEF RunTimesOut
  <2>. QED
    BY <1>11, <2>1 DEF RunTimesOut
<1>12. CASE RunRecords
  <2>1. Sealed' <=> Sealed
    BY <1>12, SealedSame DEF RunRecords
  <2>. QED
    BY <1>12, <2>1 DEF RunRecords
<1>13. CASE RunCannotRecord
  <2>1. Sealed' <=> Sealed
    BY <1>13, SealedSame DEF RunCannotRecord
  <2>. QED
    BY <1>13, <2>1 DEF RunCannotRecord
<1>14. CASE RunReads
  <2>1. Sealed' <=> Sealed
    BY <1>14, SealedSame DEF RunReads
  <2>. QED
    BY <1>14, <2>1 DEF RunReads
<1>15. CASE RunFindsSupGone
  <2>1. Sealed' <=> Sealed
    BY <1>15, SealedSame DEF RunFindsSupGone
  <2>. QED
    BY <1>15, <2>1 DEF RunFindsSupGone
<1>16. CASE RunLosesSup
  <2>1. Sealed' <=> Sealed
    BY <1>16, SealedSame DEF RunLosesSup
  <2>. QED
    BY <1>16, <2>1 DEF RunLosesSup
<1>17. CASE RunGivesUp
  <2>1. Sealed' <=> Sealed
    BY <1>17, SealedSame DEF RunGivesUp
  <2>. QED
    BY <1>17, <2>1 DEF RunGivesUp
<1>18. CASE RunDies
  <2>1. Sealed' <=> Sealed
    BY <1>18, SealedSame DEF RunDies
  <2>2. CASE astray'
    BY <1>18, <2>1, <2>2 DEF RunDies
  <2>3. CASE ~astray'
    <3>1. claim' = claim /\ Life' = Life /\ disk'.exit = disk.exit
      BY <1>18 DEF RunDies
    <3>2. astray' = astray
      BY <1>18, <2>3, Zenon DEF RunDies, Flags
    <3>. QED
      BY <2>1, <3>1, <3>2
  <2>. QED
    BY <2>2, <2>3
<1>. QED
  BY <1>1, <1>2, <1>3, <1>4, <1>5, <1>6, <1>7, <1>8, <1>9, <1>10, <1>11,
     <1>12, <1>13, <1>14, <1>15, <1>16, <1>17, <1>18 DEF RunStep

\* Every step of the controller is one of AgentPromise, or none.
LEMMA CtlKeepsPromise ==
    ASSUME TypeOK, AgentInv, AgentInv',
           CtlStep
    PROVE  [Promise!Next]_Promise!promised
<1> USE StopsAssumption, RunAssumption
        DEF ours, TypeOK, Steps, Holders, RunEnded, StopEnded,
           Confirmed, Files, AgentInv, Directory, Family, Followed, Barred,
           Early, Quiet, GroupAlive, SupRuns, Requested, Nothing, Life,
           Promise!Next, Promise!promised, Promise!Claim, Promise!Begin,
           Promise!Cease, Promise!Seal, Promise!Forget, Promise!Say,
           Promise!GoAstray
<1>1. CASE CtlSpawns
  <2>1. Sealed' <=> Sealed
    BY <1>1, SealedSame DEF CtlSpawns
  <2>. QED
    BY <1>1, <2>1, SealedBars DEF CtlSpawns
<1>2. CASE CtlRefuses
  <2>1. Sealed' <=> Sealed
    BY <1>2, SealedSame DEF CtlRefuses
  <2>. QED
    BY <1>2, <2>1 DEF CtlRefuses
<1>3. CASE CtlDies
  <2>1. Sealed' <=> Sealed
    BY <1>3, SealedSame DEF CtlDies
  <2>2. CASE astray'
    BY <1>3, <2>1, <2>2 DEF CtlDies
  <2>3. CASE ~astray'
    <3>1. claim' = claim /\ Life' = Life /\ disk'.exit = disk.exit
      BY <1>3 DEF CtlDies
    <3>2. astray' = astray
      BY <1>3, <2>3, Zenon DEF CtlDies, Flags
    <3>. QED
      BY <2>1, <3>1, <3>2
  <2>. QED
    BY <2>2, <2>3
<1>. QED
  BY <1>1, <1>2, <1>3 DEF CtlStep

\* Every step of the supervisor, the Agent and its children is one of AgentPromise, or none.
LEMMA SupKeepsPromise ==
    ASSUME TypeOK, AgentInv, AgentInv',
           SupStep \/ SupDies \/ AgentForks \/ AgentEnds \/ KidsEnd
    PROVE  [Promise!Next]_Promise!promised
<1> USE StopsAssumption, RunAssumption
        DEF theirs, TypeOK, Steps, Holders, RunEnded, StopEnded,
           Confirmed, Files, AgentInv, Directory, Family, Followed, Barred,
           Early, Quiet, GroupAlive, SupRuns, Requested, Nothing, Life,
           Promise!Next, Promise!promised, Promise!Claim, Promise!Begin,
           Promise!Cease, Promise!Seal, Promise!Forget, Promise!Say,
           Promise!GoAstray
<1>1. CASE SupSpawnsAgent
  <2>1. Sealed' <=> Sealed
    BY <1>1, SealedSame DEF SupSpawnsAgent
  <2>. QED
    BY <1>1, <2>1 DEF SupSpawnsAgent
<1>2. CASE SupCannotLaunch
  <2>1. Sealed' <=> Sealed
    BY <1>2, SealedSame DEF SupCannotLaunch
  <2>. QED
    BY <1>2, <2>1 DEF SupCannotLaunch
<1>3. CASE SupCannotLoad
  <2>1. Sealed' <=> Sealed
    BY <1>3, SealedSame DEF SupCannotLoad
  <2>. QED
    BY <1>3, <2>1 DEF SupCannotLoad
<1>4. CASE SupRecordsAgent
  <2>1. Sealed' <=> Sealed
    BY <1>4, SealedSame DEF SupRecordsAgent
  <2>. QED
    BY <1>4, <2>1 DEF SupRecordsAgent
<1>5. CASE SupCannotRecord
  <2>1. Sealed' <=> Sealed
    BY <1>5, SealedSame DEF SupCannotRecord
  <2>. QED
    BY <1>5, <2>1 DEF SupCannotRecord
<1>6. CASE SupKillsAgent
  <2>1. Sealed' <=> Sealed
    BY <1>6, SealedSame DEF SupKillsAgent
  <2>. QED
    BY <1>6, <2>1 DEF SupKillsAgent
<1>7. CASE SupReaps
  <2>1. Sealed' <=> Sealed
    BY <1>7, SealedSame DEF SupReaps
  <2>. QED
    BY <1>7, <2>1 DEF SupReaps
<1>8. CASE SupWritesOutcome
  <2>1. Sealed' <=> Sealed
    BY <1>8, SealedSame DEF SupWritesOutcome
  <2>. QED
    BY <1>8, <2>1 DEF SupWritesOutcome, Result
<1>9. CASE SupCannotWrite
  <2>1. Sealed' <=> Sealed
    BY <1>9, SealedSame DEF SupCannotWrite
  <2>. QED
    BY <1>9, <2>1 DEF SupCannotWrite
<1>10. CASE SupExits
  <2>1. Sealed' <=> Sealed
    BY <1>10, SealedSame DEF SupExits
  <2>. QED
    BY <1>10, <2>1 DEF SupExits
<1>11. CASE SupDies
  <2>1. Sealed' <=> Sealed
    BY <1>11, SealedSame DEF SupDies
  <2>. QED
    BY <1>11, <2>1 DEF SupDies
<1>12. CASE AgentForks
  <2>1. Sealed' <=> Sealed
    BY <1>12, SealedSame DEF AgentForks
  <2>. QED
    BY <1>12, <2>1 DEF AgentForks
<1>13. CASE AgentEnds
  <2>1. Sealed' <=> Sealed
    BY <1>13, SealedSame DEF AgentEnds
  <2>. QED
    BY <1>13, <2>1 DEF AgentEnds
<1>14. CASE KidsEnd
  <2>1. Sealed' <=> Sealed
    BY SMTT(30), <1>14, SealedSame DEF KidsEnd
  <2>. QED
    BY <1>14, <2>1 DEF KidsEnd
<1>. QED
  BY <1>1, <1>2, <1>3, <1>4, <1>5, <1>6, <1>7, <1>8, <1>9, <1>10, <1>11,
     <1>12, <1>13, <1>14 DEF SupStep

\* Every step of a stop is one of AgentPromise, or none.
LEMMA StopKeepsPromise ==
    ASSUME NEW s \in Stops, TypeOK, AgentInv, AgentInv',
           StopStep(s) \/ StopDies(s)
    PROVE  [Promise!Next]_Promise!promised
<1> USE StopsAssumption, RunAssumption
        DEF outside, StopAnswers, Released, TypeOK, Steps, Holders,
           RunEnded, StopEnded, Confirmed, Files, AgentInv, Directory,
           Family, Followed, Barred, Early, Quiet, GroupAlive, SupRuns,
           Requested, Nothing, Life, Promise!Next, Promise!promised,
           Promise!Claim, Promise!Begin, Promise!Cease, Promise!Seal,
           Promise!Forget, Promise!Say, Promise!GoAstray
<1>1. CASE StopFences(s)
  <2>1. Sealed' <=> Sealed
    BY <1>1 DEF StopFences, Sealed, StopTo
  <2>2. CASE disk.dir = "none" /\ claim = "nobody"
    <3>1. claim' = "stop" /\ disk'.exit = disk.exit /\ Life' = Life /\ astray' = astray
      BY <1>1, <2>2 DEF StopFences
    <3>2. Promise!Claim("stop")
      BY <2>1, <2>2, <3>1
    <3>. QED
      BY <3>2
  <2>3. CASE ~(disk.dir = "none" /\ claim = "nobody")
    <3>1. claim' = claim /\ disk'.exit = disk.exit /\ Life' = Life /\ astray' = astray
      BY <1>1, <2>3 DEF StopFences
    <3>. QED
      BY <2>1, <3>1
  <2>. QED
    BY <2>2, <2>3
<1>2. CASE StopMarks(s)
  <2>1. Sealed'
    BY <1>2 DEF StopMarks, Sealed, StopTo
  <2>2. ~astray' => Quiet'
    BY <2>1, SealedBarsNext
  <2>. QED
    BY <1>2, <2>1, <2>2 DEF StopMarks
<1>3. CASE StopCannotMark(s)
  <2>1. Sealed' <=> Sealed
    BY <1>3 DEF StopCannotMark, Sealed, StopTo
  <2>. QED
    BY <1>3, <2>1 DEF StopCannotMark
<1>4. CASE StopLocks(s)
  <2>1. Sealed' <=> Sealed
    BY <1>4 DEF StopLocks, Sealed, StopTo
  <2>. QED
    BY <1>4, <2>1 DEF StopLocks
<1>5. CASE StopFindsNoPid(s)
  <2>1. Sealed'
    BY <1>5 DEF StopFindsNoPid, Sealed, StopTo
  <2>2. ~astray' => Quiet'
    BY <2>1, SealedBarsNext
  <2>. QED
    BY <1>5, <2>1, <2>2 DEF StopFindsNoPid
<1>6. CASE StopByPerson(s)
  <2>1. Sealed' <=> Sealed
    BY <1>6 DEF StopByPerson, Sealed, StopTo
  <2>. QED
    BY <1>6, <2>1 DEF StopByPerson
<1>7. CASE StopFindsOutcome(s)
  <2>1. Sealed' <=> Sealed
    BY <1>7 DEF StopFindsOutcome, Sealed, StopTo
  <2>. QED
    BY <1>7, <2>1 DEF StopFindsOutcome
<1>8. CASE StopConfirms(s)
  <2>1. CASE RecordedGroupsEnded
    <3>1. Sealed'
      BY <1>8, <2>1 DEF StopConfirms, Sealed, StopTo
    <3>2. ~astray' => Quiet'
      BY <3>1, SealedBarsNext
    <3>. QED
      BY <1>8, <3>1, <3>2 DEF StopConfirms
  <2>2. CASE ~RecordedGroupsEnded
    <3>1. Sealed' <=> Sealed
      BY <1>8, <2>2 DEF StopConfirms, Sealed, StopTo
    <3>. QED
      BY <1>8, <3>1 DEF StopConfirms
  <2>. QED
    BY <2>1, <2>2
<1>9. CASE StopVerifiesSup(s)
  <2>1. Sealed' <=> Sealed
    BY <1>9 DEF StopVerifiesSup, Sealed, StopTo
  <2>. QED
    BY <1>9, <2>1 DEF StopVerifiesSup
<1>10. CASE StopVerifiesAgent(s)
  <2>1. Sealed' <=> Sealed
    BY <1>10 DEF StopVerifiesAgent, Sealed, StopTo
  <2>. QED
    BY <1>10, <2>1 DEF StopVerifiesAgent, AgentOwned
<1>11. CASE CannotWriteMarker(s)
  <2>1. Sealed' <=> Sealed
    BY <1>11 DEF CannotWriteMarker, Sealed, StopTo
  <2>. QED
    BY <1>11, <2>1 DEF CannotWriteMarker
<1>12. CASE StopSignalsAgent(s)
  <2>1. Sealed' <=> Sealed
    BY <1>12 DEF StopSignalsAgent, Sealed, StopTo
  <2>. QED
    BY <1>12, <2>1 DEF StopSignalsAgent
<1>13. CASE StopSeesAgentEnd(s)
  <2>1. Sealed' <=> Sealed
    BY <1>13 DEF StopSeesAgentEnd, Sealed, StopTo
  <2>. QED
    BY <1>13, <2>1 DEF StopSeesAgentEnd
<1>14. CASE StopOutOfGrace(s)
  <2>1. Sealed' <=> Sealed
    BY <1>14 DEF StopOutOfGrace, Sealed, StopTo
  <2>. QED
    BY <1>14, <2>1 DEF StopOutOfGrace
<1>15. CASE StopSignalsSup(s)
  <2>1. Sealed' <=> Sealed
    BY <1>15 DEF StopSignalsSup, Sealed, StopTo
  <2>. QED
    BY <1>15, <2>1 DEF StopSignalsSup
<1>16. CASE StopSeesSupEnd(s)
  <2>1. Sealed' <=> Sealed
    BY <1>16 DEF StopSeesSupEnd, Sealed, StopTo
  <2>. QED
    BY <1>16, <2>1 DEF StopSeesSupEnd
<1>17. CASE StopRecords(s)
  <2>1. Sealed'
    BY <1>17 DEF StopRecords, Sealed, StopTo
  <2>2. ~astray' => Quiet'
    BY <2>1, SealedBarsNext
  <2>. QED
    BY <1>17, <2>1, <2>2 DEF StopRecords
<1>18. CASE StopCannotRecord(s)
  <2>1. Sealed' <=> Sealed
    BY <1>18 DEF StopCannotRecord, Sealed, StopTo
  <2>. QED
    BY <1>18, <2>1 DEF StopCannotRecord
<1>19. CASE StopCannotAsk(s)
  <2>1. Sealed' <=> Sealed
    BY <1>19 DEF StopCannotAsk, Sealed, StopTo
  <2>. QED
    BY <1>19, <2>1 DEF StopCannotAsk
<1>20. CASE StopDies(s)
  <2>1. Sealed' <=> Sealed
    BY <1>20 DEF StopDies, Sealed, StopTo
  <2>. QED
    BY <1>20, <2>1 DEF StopDies
<1>. QED
  BY <1>1, <1>2, <1>3, <1>4, <1>5, <1>6, <1>7, <1>8, <1>9, <1>10, <1>11,
     <1>12, <1>13, <1>14, <1>15, <1>16, <1>17, <1>18, <1>19, <1>20 DEF
     StopStep

\* Every step of a cleanup is one of AgentPromise, or none.
LEMMA CleanupKeepsPromise ==
    ASSUME TypeOK, AgentInv, AgentInv',
           CleanupLists \/ CleanupRemoves
    PROVE  [Promise!Next]_Promise!promised
<1> USE StopsAssumption, RunAssumption
        DEF inSession, TypeOK, Steps, Holders, RunEnded, StopEnded,
           Confirmed, Files, AgentInv, Directory, Family, Followed, Barred,
           Early, Quiet, GroupAlive, SupRuns, Requested, Nothing, Life,
           Promise!Next, Promise!promised, Promise!Claim, Promise!Begin,
           Promise!Cease, Promise!Seal, Promise!Forget, Promise!Say,
           Promise!GoAstray
<1>1. CASE CleanupLists
  <2>1. Sealed' <=> Sealed
    BY <1>1, SealedSame DEF CleanupLists
  <2>. QED
    BY <1>1, <2>1 DEF CleanupLists
<1>2. CASE CleanupRemoves
  <2>1. Sealed' <=> Sealed
    BY <1>2, SealedSame DEF CleanupRemoves
  <2>2. CASE ~(disk = cleanup.saw /\ lock = Free)
    BY <1>2, <2>1, <2>2 DEF CleanupRemoves
  <2>3. CASE disk = cleanup.saw /\ lock = Free
    <3>1. disk'.exit = "none" /\ astray' = (astray \/ ~Quiet) /\ claim' = claim /\ Life' = Life
      BY <1>2, <2>3 DEF CleanupRemoves
    <3>2. CASE astray \/ ~Quiet
      <4>1. claim = "run"
        BY <3>2
      <4>. QED
        BY <3>1, <3>2, <4>1
    <3>3. CASE ~astray /\ Quiet
      <4>1. astray' = astray
        BY <3>1, <3>3, Zenon DEF Flags
      <4>. QED
        BY <2>1, <3>1, <3>3, <4>1
    <3>. QED
      BY <3>2, <3>3
  <2>. QED
    BY <2>2, <2>3
<1>. QED
  BY <1>1, <1>2

\* Every behaviour of the processes, with any faults, is one that AgentPromise
\* allows.
THEOREM PromiseKept == Spec => KeepsPromise
<1>1. Init => Promise!Init
  BY DEF Init, Nothing, Promise!Init, Life, Sealed, Confirmed
<1>2. TypeOK /\ AgentInv /\ AgentInv' /\ [Next]_session => [Promise!Next]_Promise!promised
  <2> SUFFICES ASSUME TypeOK, AgentInv, AgentInv', [Next]_session
               PROVE  [Promise!Next]_Promise!promised
    OBVIOUS
  <2>1. CASE RunStep \/ RunDies
    BY <2>1, RunKeepsPromise
  <2>2. CASE CtlStep
    BY <2>2, CtlKeepsPromise
  <2>3. CASE SupStep \/ SupDies \/ AgentForks \/ AgentEnds \/ KidsEnd
    BY <2>3, SupKeepsPromise
  <2>4. CASE \E s \in Stops : StopStep(s) \/ StopDies(s)
    BY <2>4, StopKeepsPromise
  <2>5. CASE CleanupLists \/ CleanupRemoves
    BY <2>5, CleanupKeepsPromise
  <2>6. CASE UNCHANGED session
    BY <2>6 DEF session, Promise!promised, Life, Quiet, GroupAlive, Sealed
  <2>. QED
    BY <2>1, <2>2, <2>3, <2>4, <2>5, <2>6 DEF Next
<1>. QED
  BY <1>1, <1>2, AgentInvariant, PTL DEF Spec, KeepsPromise, Promise!Spec
=============================================================================
