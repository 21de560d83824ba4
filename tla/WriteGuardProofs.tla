-------------------------- MODULE WriteGuardProofs --------------------------
(***************************************************************************)
(* Theorems about WriteGuard, for every set of servers, observations and   *)
(* inodes and every number of retries.                                     *)
(***************************************************************************)
EXTENDS WriteGuard, FiniteSetTheorems, TLAPS

\* Every variable keeps its type.
THEOREM Typing == Spec => []TypeOK
<1> USE BusyRetriesAssumption DEF TypeOK, files, server, observation,
        Opened, Locked, Gone, Markers, Blank, Released, Torn, HeldBy, KeptBy
<1>1. Init => TypeOK
  BY DEF Init
<1>2. TypeOK /\ [Next]_vars => TypeOK'
  <2> SUFFICES ASSUME TypeOK, [Next]_vars PROVE TypeOK'
    OBVIOUS
  <2>1. ASSUME NEW s \in Servers, Open(s) PROVE TypeOK'
    BY <2>1 DEF Open
  <2>2. ASSUME NEW s \in Servers, TryLock(s) PROVE TypeOK'
    BY <2>2 DEF TryLock
  <2>3. ASSUME NEW s \in Servers, LookBusy(s) PROVE TypeOK'
    BY <2>3 DEF LookBusy, Meet
  <2>4. ASSUME NEW s \in Servers, Wake(s) PROVE TypeOK'
    BY <2>4 DEF Wake
  <2>5. ASSUME NEW s \in Servers, RefuseBusy(s) PROVE TypeOK'
    BY <2>5 DEF RefuseBusy, Meet
  <2>6. ASSUME NEW s \in Servers, AcquireFails(s) PROVE TypeOK'
    BY <2>6 DEF AcquireFails, Closed
  <2>7. ASSUME NEW s \in Servers, WriteFails(s) PROVE TypeOK'
    <3>1. PICK m \in {marker[fd[s]], Torn, HeldBy(s)} :
            marker' = [marker EXCEPT ![fd[s]] = m]
      BY <2>7 DEF WriteFails
    <3>2. fd[s] \in Files => m \in Markers
      BY <3>1
    <3>3. marker' \in [Files -> Markers]
      BY <3>1, <3>2
    <3>. QED
      BY <2>7, <3>3 DEF WriteFails, Closed
  <2>8. ASSUME NEW s \in Servers, ReadTakeable(s) PROVE TypeOK'
    BY <2>8 DEF ReadTakeable
  <2>9. ASSUME NEW s \in Servers, RefuseMarker(s) PROVE TypeOK'
    BY <2>9 DEF RefuseMarker, Unlocked
  <2>10. ASSUME NEW s \in Servers, WriteHeld(s) PROVE TypeOK'
    BY <2>10 DEF WriteHeld
  <2>11. ASSUME NEW s \in Servers, Grant(s) PROVE TypeOK'
    BY <2>11 DEF Grant
  <2>12. ASSUME NEW s \in Servers, Fork(s) PROVE TypeOK'
    BY <2>12 DEF Fork
  <2>13. ASSUME NEW s \in Servers, ChildExecs(s) PROVE TypeOK'
    BY <2>13 DEF ChildExecs, Unlocked
  <2>14. ASSUME NEW s \in Servers, CommandsEnd(s) PROVE TypeOK'
    BY <2>14 DEF CommandsEnd
  <2>15. ASSUME NEW s \in Servers, EndServing(s) PROVE TypeOK'
    BY <2>15 DEF EndServing
  <2>16. ASSUME NEW s \in Servers, MarkKept(s) PROVE TypeOK'
    BY <2>16 DEF MarkKept
  <2>17. ASSUME NEW s \in Servers, MarkReleased(s) PROVE TypeOK'
    BY <2>17 DEF MarkReleased
  <2>18. ASSUME NEW s \in Servers, TrimReleased(s) PROVE TypeOK'
    BY <2>18 DEF TrimReleased
  <2>19. ASSUME NEW s \in Servers, MarkFails(s) PROVE TypeOK'
    <3>1. PICK m \in HalfMarked(s) : marker' = [marker EXCEPT ![fd[s]] = m]
      BY <2>19 DEF MarkFails
    <3>2. fd[s] \in Files => m \in Markers
      BY <3>1 DEF HalfMarked
    <3>3. marker' \in [Files -> Markers]
      BY <3>1, <3>2
    <3>. QED
      BY <2>19, <3>3 DEF MarkFails
  <2>20. ASSUME NEW s \in Servers, Unlock(s) PROVE TypeOK'
    BY <2>20 DEF Unlock, Unlocked
  <2>21. ASSUME NEW s \in Servers, Crash(s) PROVE TypeOK'
    BY <2>21 DEF Crash, Closed, Alive
  <2>22. ASSUME NEW o \in Observations, ObserveNothing(o) PROVE TypeOK'
    BY <2>22 DEF ObserveNothing, Say
  <2>23. ASSUME NEW o \in Observations, ObserveOpen(o) PROVE TypeOK'
    BY <2>23 DEF ObserveOpen
  <2>24. ASSUME NEW o \in Observations, ObserveLock(o) PROVE TypeOK'
    BY <2>24 DEF ObserveLock
  <2>25. ASSUME NEW o \in Observations, ObserveRead(o) PROVE TypeOK'
    BY <2>25 DEF ObserveRead, Say, Meaning
  <2>26. ASSUME NEW o \in Observations, ObserveUnlock(o) PROVE TypeOK'
    BY <2>26 DEF ObserveUnlock
  <2>27. ASSUME NEW o \in Observations, ObserveLive(o) PROVE TypeOK'
    BY <2>27 DEF ObserveLive, Say
  <2>28. ASSUME NEW o \in Observations, ObserveFails(o) PROVE TypeOK'
    BY <2>28 DEF ObserveFails, Say
  <2>29. CASE Recover
    BY <2>29 DEF Recover
  <2>30. CASE UNCHANGED vars
    BY <2>30 DEF vars
  <2>31. QED
    BY <2>1, <2>2, <2>3, <2>4, <2>5, <2>6, <2>7, <2>8, <2>9, <2>10, <2>11, <2>12, <2>13, <2>14, <2>15, <2>16, <2>17, <2>18, <2>19, <2>20, <2>21, <2>22, <2>23, <2>24, <2>25, <2>26, <2>27, <2>28, <2>29, <2>30 DEF Next, Acquire, Hold, Drop, Observe
<1>3. QED
  BY <1>1, <1>2, PTL DEF Spec

-----------------------------------------------------------------------------
\* The forms of a marker are told apart, and a held or kept one by its owner.
LEMMA MarkerForms ==
    /\ Torn \notin Takeable /\ Blank \in Takeable /\ Released \in Takeable
    /\ Torn.owner = Nobody
    /\ \A s, t :
        /\ HeldBy(s) \notin Takeable \cup {Torn} /\ HeldBy(s).owner = s
        /\ KeptBy(s) \notin Takeable \cup {Torn} /\ KeptBy(s).owner = s
        /\ HeldBy(s) # KeptBy(t)
        /\ HeldBy(s) = HeldBy(t) => s = t
        /\ KeptBy(s) = KeptBy(t) => s = t
  BY DEF Torn, Takeable, Blank, Released, HeldBy, KeptBy

\* The inductive invariant: the marker under the file's name speaks for
\* whoever may still write the tree.
THEOREM Inductive == Spec => []GuardInv
<1> USE NobodyAssumption, NoFileAssumption, MarkerForms
    DEF TypeOK, files, server, observation, Opened, Locked, Gone, Writing
<1>1. Init => GuardInv
  BY DEF Init, GuardInv, OpenFiles, Locks, Holders, Stale, Named, Marks, Leftovers, Began
<1>2. TypeOK /\ GuardInv /\ [Next]_vars => GuardInv'
  <2> SUFFICES ASSUME TypeOK, GuardInv, [Next]_vars PROVE GuardInv'
    OBVIOUS
  <2> USE DEF GuardInv
  <2>1. ASSUME NEW s \in Servers, Open(s) PROVE GuardInv'
    <3>1. OpenFiles'
      BY <2>1 DEF Open, InUse, OpenFiles
    <3>2. Locks'
      BY <2>1 DEF Open, InUse, OpenFiles, Locks
    <3>3. Holders'
      BY <2>1 DEF Open, InUse, OpenFiles, Locks, Holders
    <3>4. Stale'
      BY <2>1 DEF Open, InUse, OpenFiles, Locks, Stale, Named
    <3>5. Named'
      BY <2>1 DEF Open, InUse, OpenFiles, Locks, Stale, Named
    <3>6. Marks'
      BY <2>1 DEF Open, InUse, OpenFiles, Locks, Named, Marks, Leftovers
    <3>7. Leftovers'
      BY <2>1 DEF Open, InUse, OpenFiles, Stale, Named, Marks, Leftovers
    <3>8. Began'
      BY <2>1 DEF Open, InUse, Began
    <3>. QED
      BY <3>1, <3>2, <3>3, <3>4, <3>5, <3>6, <3>7, <3>8
  <2>2. ASSUME NEW s \in Servers, TryLock(s) PROVE GuardInv'
    BY <2>2 DEF TryLock, Free, OpenFiles, Locks, Holders, Stale, Named, Marks,
        Leftovers, Began
  <2>3. ASSUME NEW s \in Servers, LookBusy(s) PROVE GuardInv'
    BY <2>3 DEF LookBusy, Meet, OpenFiles, Locks, Holders, Stale, Named, Marks,
        Leftovers, Began
  <2>4. ASSUME NEW s \in Servers, Wake(s) PROVE GuardInv'
    BY <2>4 DEF Wake, OpenFiles, Locks, Holders, Stale, Named, Marks,
        Leftovers, Began
  <2>5. ASSUME NEW s \in Servers, RefuseBusy(s) PROVE GuardInv'
    BY <2>5 DEF RefuseBusy, Meet, OpenFiles, Locks, Holders, Stale, Named, Marks,
        Leftovers, Began
  <2>6. ASSUME NEW s \in Servers, AcquireFails(s) PROVE GuardInv'
    BY <2>6 DEF AcquireFails, Closed, OpenFiles, Locks, Holders, Stale, Named, Marks,
        Leftovers, Began
  <2>7. ASSUME NEW s \in Servers, WriteFails(s) PROVE GuardInv'
    <3>1. OpenFiles'
      BY <2>7 DEF WriteFails, Closed, OpenFiles
    <3>2. Locks'
      BY <2>7 DEF WriteFails, Closed, OpenFiles, Locks
    <3>3. Holders'
      BY <2>7 DEF WriteFails, Closed, OpenFiles, Locks, Holders
    <3>4. Stale'
      BY <2>7 DEF WriteFails, Closed, OpenFiles, Locks, Stale, Named
    <3>5. Named'
      BY <2>7 DEF WriteFails, Closed, OpenFiles, Locks, Stale, Named
    <3>6. Marks'
      BY <2>7 DEF WriteFails, Closed, OpenFiles, Locks, Named, Marks, Leftovers
    <3>7. Leftovers'
      BY <2>7 DEF WriteFails, Closed, OpenFiles, Stale, Named, Marks, Leftovers
    <3>8. Began'
      BY <2>7 DEF WriteFails, Closed, Began
    <3>. QED
      BY <3>1, <3>2, <3>3, <3>4, <3>5, <3>6, <3>7, <3>8
  <2>8. ASSUME NEW s \in Servers, ReadTakeable(s) PROVE GuardInv'
    BY <2>8 DEF ReadTakeable, OpenFiles, Locks, Holders, Stale, Named, Marks,
        Leftovers, Began
  <2>9. ASSUME NEW s \in Servers, RefuseMarker(s) PROVE GuardInv'
    BY <2>9 DEF RefuseMarker, Unlocked, OpenFiles, Locks, Holders, Stale, Named, Marks,
        Leftovers, Began
  <2>10. ASSUME NEW s \in Servers, WriteHeld(s) PROVE GuardInv'
    <3>1. OpenFiles'
      BY <2>10 DEF WriteHeld, OpenFiles
    <3>2. Locks'
      BY <2>10 DEF WriteHeld, OpenFiles, Locks
    <3>3. Holders'
      BY <2>10 DEF WriteHeld, OpenFiles, Locks, Holders
    <3>4. Stale'
      BY <2>10 DEF WriteHeld, OpenFiles, Locks, Stale, Named
    <3>5. Named'
      BY <2>10 DEF WriteHeld, OpenFiles, Locks, Stale, Named
    <3>6. Marks'
      BY <2>10 DEF WriteHeld, OpenFiles, Locks, Named, Marks, Leftovers
    <3>7. Leftovers'
      BY <2>10 DEF WriteHeld, OpenFiles, Stale, Named, Marks, Leftovers
    <3>8. Began'
      BY <2>10 DEF WriteHeld, Began
    <3>. QED
      BY <3>1, <3>2, <3>3, <3>4, <3>5, <3>6, <3>7, <3>8
  <2>11. ASSUME NEW s \in Servers, Grant(s) PROVE GuardInv'
    BY <2>11 DEF Grant, OpenFiles, Locks, Holders, Stale, Named, Marks,
        Leftovers, Began
  <2>12. ASSUME NEW s \in Servers, Fork(s) PROVE GuardInv'
    BY <2>12 DEF Fork, OpenFiles, Locks, Holders, Stale, Named, Marks,
        Leftovers, Began
  <2>13. ASSUME NEW s \in Servers, ChildExecs(s) PROVE GuardInv'
    BY <2>13 DEF ChildExecs, Unlocked, OpenFiles, Locks, Holders, Stale, Named, Marks,
        Leftovers, Began
  <2>14. ASSUME NEW s \in Servers, CommandsEnd(s) PROVE GuardInv'
    BY <2>14 DEF CommandsEnd, OpenFiles, Locks, Holders, Stale, Named, Marks,
        Leftovers, Began
  <2>15. ASSUME NEW s \in Servers, EndServing(s) PROVE GuardInv'
    BY <2>15 DEF EndServing, OpenFiles, Locks, Holders, Stale, Named, Marks,
        Leftovers, Began
  <2>16. ASSUME NEW s \in Servers, MarkKept(s) PROVE GuardInv'
    <3>1. OpenFiles'
      BY <2>16 DEF MarkKept, OpenFiles
    <3>2. Locks'
      BY <2>16 DEF MarkKept, OpenFiles, Locks
    <3>3. Holders'
      BY <2>16 DEF MarkKept, OpenFiles, Locks, Holders
    <3>4. Stale'
      BY <2>16 DEF MarkKept, OpenFiles, Locks, Stale, Named
    <3>5. Named'
      BY <2>16 DEF MarkKept, OpenFiles, Locks, Stale, Named
    <3>6. Marks'
      BY <2>16 DEF MarkKept, OpenFiles, Locks, Named, Marks, Leftovers
    <3>7. Leftovers'
      BY <2>16 DEF MarkKept, OpenFiles, Stale, Named, Marks, Leftovers
    <3>8. Began'
      BY <2>16 DEF MarkKept, Began
    <3>. QED
      BY <3>1, <3>2, <3>3, <3>4, <3>5, <3>6, <3>7, <3>8
  <2>17. ASSUME NEW s \in Servers, MarkReleased(s) PROVE GuardInv'
    <3>1. OpenFiles'
      BY <2>17 DEF MarkReleased, OpenFiles
    <3>2. Locks'
      BY <2>17 DEF MarkReleased, OpenFiles, Locks
    <3>3. Holders'
      BY <2>17 DEF MarkReleased, OpenFiles, Locks, Holders
    <3>4. Stale'
      BY <2>17 DEF MarkReleased, OpenFiles, Locks, Stale, Named
    <3>5. Named'
      BY <2>17 DEF MarkReleased, OpenFiles, Locks, Stale, Named
    <3>6. Marks'
      BY <2>17 DEF MarkReleased, OpenFiles, Locks, Named, Marks, Leftovers
    <3>7. Leftovers'
      BY <2>17 DEF MarkReleased, OpenFiles, Stale, Named, Marks, Leftovers
    <3>8. Began'
      BY <2>17 DEF MarkReleased, Began
    <3>. QED
      BY <3>1, <3>2, <3>3, <3>4, <3>5, <3>6, <3>7, <3>8
  <2>18. ASSUME NEW s \in Servers, TrimReleased(s) PROVE GuardInv'
    <3>1. OpenFiles'
      BY <2>18 DEF TrimReleased, OpenFiles
    <3>2. Locks'
      BY <2>18 DEF TrimReleased, OpenFiles, Locks
    <3>3. Holders'
      BY <2>18 DEF TrimReleased, OpenFiles, Locks, Holders
    <3>4. Stale'
      BY <2>18 DEF TrimReleased, OpenFiles, Locks, Stale, Named
    <3>5. Named'
      BY <2>18 DEF TrimReleased, OpenFiles, Locks, Stale, Named
    <3>6. Marks'
      BY <2>18 DEF TrimReleased, OpenFiles, Locks, Named, Marks, Leftovers
    <3>7. Leftovers'
      BY <2>18 DEF TrimReleased, OpenFiles, Stale, Named, Marks, Leftovers
    <3>8. Began'
      BY <2>18 DEF TrimReleased, Began
    <3>. QED
      BY <3>1, <3>2, <3>3, <3>4, <3>5, <3>6, <3>7, <3>8
  <2>19. ASSUME NEW s \in Servers, MarkFails(s) PROVE GuardInv'
    <3>1. OpenFiles'
      BY <2>19 DEF MarkFails, HalfMarked, OpenFiles
    <3>2. Locks'
      BY <2>19 DEF MarkFails, HalfMarked, OpenFiles, Locks
    <3>3. Holders'
      BY <2>19 DEF MarkFails, HalfMarked, OpenFiles, Locks, Holders
    <3>4. Stale'
      BY <2>19 DEF MarkFails, HalfMarked, OpenFiles, Locks, Stale, Named
    <3>5. Named'
      BY <2>19 DEF MarkFails, HalfMarked, OpenFiles, Locks, Stale, Named
    <3>6. Marks'
      BY <2>19 DEF MarkFails, HalfMarked, OpenFiles, Locks, Named, Marks, Leftovers
    <3>7. Leftovers'
      BY <2>19 DEF MarkFails, HalfMarked, OpenFiles, Stale, Named, Marks, Leftovers
    <3>8. Began'
      BY <2>19 DEF MarkFails, HalfMarked, Began
    <3>. QED
      BY <3>1, <3>2, <3>3, <3>4, <3>5, <3>6, <3>7, <3>8
  <2>20. ASSUME NEW s \in Servers, Unlock(s) PROVE GuardInv'
    BY <2>20 DEF Unlock, Unlocked, OpenFiles, Locks, Holders, Stale, Named, Marks,
        Leftovers, Began
  <2>21. ASSUME NEW s \in Servers, Crash(s) PROVE GuardInv'
    BY <2>21 DEF Crash, Closed, Alive, OpenFiles, Locks, Holders, Stale, Named, Marks,
        Leftovers, Began
  <2>22. ASSUME NEW o \in Observations, Observe(o) PROVE GuardInv'
    BY <2>22 DEF Observe, ObserveNothing, ObserveOpen, ObserveLock, ObserveRead,
        ObserveUnlock, ObserveLive, ObserveFails,
        OpenFiles, Locks, Holders, Stale, Named, Marks, Leftovers, Began
  <2>23. CASE Recover
    BY <2>23 DEF Recover, OpenFiles, Locks, Holders, Stale, Named, Marks, Leftovers, Began
  <2>24. CASE UNCHANGED vars
    BY <2>24 DEF vars, OpenFiles, Locks, Holders, Stale, Named, Marks, Leftovers, Began
  <2>25. QED
    BY <2>1, <2>2, <2>3, <2>4, <2>5, <2>6, <2>7, <2>8, <2>9, <2>10, <2>11, <2>12, <2>13, <2>14, <2>15, <2>16, <2>17, <2>18, <2>19, <2>20, <2>21, <2>22, <2>23, <2>24 DEF Next, Acquire, Hold, Drop
<1>3. QED
  BY Typing, <1>1, <1>2, PTL DEF Spec

-----------------------------------------------------------------------------
\* The server with authority is the only one the marker can speak for.
LEMMA GuardIsExclusive == TypeOK /\ GuardInv => OneWriter
  BY MarkerForms DEF TypeOK, GuardInv, Named, Marks, Leftovers, OneWriter,
     Writing

\* No unknown old writer beside a new one, whatever crashed or was deleted.
THEOREM ExclusiveWriter == Spec => []OneWriter
  BY Typing, Inductive, GuardIsExclusive, PTL

\* A server that ended through Drop, or was refused, left no lock behind.
THEOREM NoLockOutlivesDrop == Spec => []ExplicitUnlock
<1>1. TypeOK /\ GuardInv => ExplicitUnlock
  BY DEF GuardInv, Holders, ExplicitUnlock, Locked
<1>2. QED
  BY Typing, Inductive, <1>1, PTL

-----------------------------------------------------------------------------
(* The guard implements SingleWriter. *)

LEMMA WriterIsServing ==
    ASSUME OneWriter
    PROVE  /\ \A s \in Servers : pc[s] = "serving" => Writer = s
           /\ (\A s \in Servers : pc[s] # "serving") => Writer = Nobody
  BY DEF OneWriter, Writer

LEMMA WriterIsServingNext ==
    ASSUME OneWriter'
    PROVE  /\ \A s \in Servers : pc'[s] = "serving" => Writer' = s
           /\ (\A s \in Servers : pc'[s] # "serving") => Writer' = Nobody
  BY DEF OneWriter, Writer

\* Authority is given over a quiet tree only: every step of the guard is a
\* step of the promise, or none.
THEOREM GuardKeepsPromise == Spec => KeepsPromise
<1> USE NobodyAssumption
<1>1. Init => Promise!Init
  BY DEF Init, Promise!Init, Writer
<1>2. TypeOK /\ GuardInv /\ OneWriter /\ OneWriter' /\ [Next]_vars
        => [Promise!Next]_(Promise!vars)
  <2> SUFFICES ASSUME TypeOK, GuardInv, OneWriter, OneWriter', [Next]_vars
               PROVE  [Promise!Next]_(Promise!vars)
    OBVIOUS
  <2> USE WriterIsServing, WriterIsServingNext
      DEF TypeOK, files, server, observation, Promise!vars
  <2>1. ASSUME NEW s \in Servers, Grant(s) PROVE Promise!Grant(s)
    <3>1. pc[s] = "sync" /\ marker[path] = HeldBy(s)
      BY <2>1 DEF Grant, GuardInv, Named, Marks, Writing
    <3>2. working = {}
      BY <3>1, MarkerForms DEF GuardInv, Leftovers, Began, Opened
    <3>3. \A t \in Servers : pc[t] # "serving"
      BY <3>1, MarkerForms DEF GuardInv, Named, Marks, Writing
    <3>4. Writer = Nobody /\ Writer' = s
      BY <2>1, <3>3 DEF Grant
    <3>. QED
      BY <2>1, <3>2, <3>4 DEF Grant, Promise!Grant
  <2>2. ASSUME NEW s \in Servers, Fork(s)
        PROVE  Promise!Begin(s)
    BY <2>2 DEF Fork, Promise!Begin
  <2>3. ASSUME NEW s \in Servers, CommandsEnd(s)
        PROVE  Promise!Finish(s)
    <3>1. Writer' = Writer
      BY <2>3 DEF CommandsEnd, Writer
    <3>. QED
      BY <2>3, <3>1 DEF CommandsEnd, Promise!Finish
  <2>4. ASSUME NEW s \in Servers, EndServing(s) \/ Crash(s)
        PROVE  Promise!Leave(s) \/ UNCHANGED Promise!vars
    <3>1. CASE pc[s] = "serving"
      <4>1. \A t \in Servers : pc'[t] # "serving"
        BY <2>4, <3>1 DEF EndServing, Crash, OneWriter
      <4>. QED
        BY <2>4, <3>1, <4>1 DEF EndServing, Crash, Promise!Leave
    <3>2. CASE pc[s] # "serving"
      <4>1. \A t \in Servers : pc'[t] = "serving" <=> pc[t] = "serving"
        BY <2>4, <3>2 DEF EndServing, Crash
      <4>. QED
        BY <2>4, <3>2, <4>1 DEF EndServing, Crash, Writer
    <3>. QED
      BY <3>1, <3>2
  <2>5. ASSUME NEW s \in Servers, (Acquire(s) /\ ~Grant(s)) \/ Drop(s)
        PROVE  UNCHANGED Promise!vars
    <3>1. \A t \in Servers : pc'[t] = "serving" <=> pc[t] = "serving"
      BY <2>5 DEF Acquire, Open, TryLock, LookBusy, Wake, RefuseBusy,
         AcquireFails, WriteFails, ReadTakeable, RefuseMarker, WriteHeld,
         Drop, MarkKept, MarkReleased, TrimReleased, MarkFails, Unlock
    <3>2. UNCHANGED working
      BY <2>5 DEF Acquire, Open, TryLock, LookBusy, Wake, RefuseBusy,
         AcquireFails, WriteFails, ReadTakeable, RefuseMarker, WriteHeld,
         Drop, MarkKept, MarkReleased, TrimReleased, MarkFails, Unlock
    <3>. QED
      BY <3>1, <3>2 DEF Writer
  <2>6. ASSUME UNCHANGED <<pc, working>> PROVE UNCHANGED Promise!vars
    BY <2>6 DEF Writer
  <2>7. ASSUME NEW s \in Servers, ChildExecs(s) PROVE UNCHANGED <<pc, working>>
    BY <2>7 DEF ChildExecs
  <2>8. ASSUME NEW o \in Observations, Observe(o)
        PROVE  UNCHANGED <<pc, working>>
    BY <2>8 DEF Observe, ObserveNothing, ObserveOpen, ObserveLock, ObserveRead,
       ObserveUnlock, ObserveLive, ObserveFails
  <2>9. Recover => UNCHANGED <<pc, working>>
    BY DEF Recover
  <2>10. UNCHANGED vars => UNCHANGED <<pc, working>>
    BY DEF vars
  <2>. QED
    BY <2>1, <2>2, <2>3, <2>4, <2>5, <2>6, <2>7, <2>8, <2>9, <2>10
       DEF Next, Acquire, Hold, Promise!Next
<1>3. QED
  BY <1>1, <1>2, Typing, Inductive, ExclusiveWriter, PTL
     DEF Spec, KeepsPromise, Promise!Spec
-----------------------------------------------------------------------------
(* What observations say. *)

\* An observation under the shared lock keeps every writer out.
LEMMA Observing == Spec => []ObserveInv
<1> USE NobodyAssumption, NoFileAssumption, MarkerForms
    DEF TypeOK, files, server, observation, Opened, Locked, Gone, Writing
<1>1. Init => ObserveInv
  BY DEF Init, ObserveInv
<1>2. TypeOK /\ GuardInv /\ ObserveInv /\ [Next]_vars => ObserveInv'
  <2> SUFFICES ASSUME TypeOK, GuardInv, ObserveInv, [Next]_vars PROVE ObserveInv'
    OBVIOUS
  <2> USE DEF ObserveInv
  <2>1. ASSUME NEW s \in Servers, Open(s) PROVE ObserveInv'
    BY <2>1 DEF Open, InUse, GuardInv, OpenFiles, Locks, Stale, Named
  <2>2. ASSUME NEW s \in Servers, TryLock(s) PROVE ObserveInv'
    BY <2>2 DEF TryLock, Free, GuardInv, OpenFiles, Locks, Stale, Named
  <2>3. ASSUME NEW s \in Servers, LookBusy(s) PROVE ObserveInv'
    BY <2>3 DEF LookBusy, Meet, GuardInv, OpenFiles, Locks, Stale, Named
  <2>4. ASSUME NEW s \in Servers, Wake(s) PROVE ObserveInv'
    BY <2>4 DEF Wake, GuardInv, OpenFiles, Locks, Stale, Named
  <2>5. ASSUME NEW s \in Servers, RefuseBusy(s) PROVE ObserveInv'
    BY <2>5 DEF RefuseBusy, Meet, GuardInv, OpenFiles, Locks, Stale, Named
  <2>6. ASSUME NEW s \in Servers, AcquireFails(s) PROVE ObserveInv'
    BY <2>6 DEF AcquireFails, Closed, GuardInv, OpenFiles, Locks, Stale, Named
  <2>7. ASSUME NEW s \in Servers, WriteFails(s) PROVE ObserveInv'
    BY <2>7 DEF WriteFails, Closed, GuardInv, OpenFiles, Locks, Stale, Named
  <2>8. ASSUME NEW s \in Servers, ReadTakeable(s) PROVE ObserveInv'
    BY <2>8 DEF ReadTakeable, GuardInv, OpenFiles, Locks, Stale, Named
  <2>9. ASSUME NEW s \in Servers, RefuseMarker(s) PROVE ObserveInv'
    BY <2>9 DEF RefuseMarker, Unlocked, GuardInv, OpenFiles, Locks, Stale, Named
  <2>10. ASSUME NEW s \in Servers, WriteHeld(s) PROVE ObserveInv'
    BY <2>10 DEF WriteHeld, GuardInv, OpenFiles, Locks, Stale, Named
  <2>11. ASSUME NEW s \in Servers, Grant(s) PROVE ObserveInv'
    BY <2>11 DEF Grant, GuardInv, OpenFiles, Locks, Stale, Named
  <2>12. ASSUME NEW s \in Servers, Fork(s) PROVE ObserveInv'
    BY <2>12 DEF Fork, GuardInv, OpenFiles, Locks, Stale, Named
  <2>13. ASSUME NEW s \in Servers, ChildExecs(s) PROVE ObserveInv'
    BY <2>13 DEF ChildExecs, Unlocked, GuardInv, OpenFiles, Locks, Stale, Named
  <2>14. ASSUME NEW s \in Servers, CommandsEnd(s) PROVE ObserveInv'
    BY <2>14 DEF CommandsEnd, GuardInv, OpenFiles, Locks, Stale, Named
  <2>15. ASSUME NEW s \in Servers, EndServing(s) PROVE ObserveInv'
    BY <2>15 DEF EndServing, GuardInv, OpenFiles, Locks, Stale, Named
  <2>16. ASSUME NEW s \in Servers, MarkKept(s) PROVE ObserveInv'
    BY <2>16 DEF MarkKept, GuardInv, OpenFiles, Locks, Stale, Named
  <2>17. ASSUME NEW s \in Servers, MarkReleased(s) PROVE ObserveInv'
    BY <2>17 DEF MarkReleased, GuardInv, OpenFiles, Locks, Stale, Named
  <2>18. ASSUME NEW s \in Servers, TrimReleased(s) PROVE ObserveInv'
    BY <2>18 DEF TrimReleased, GuardInv, OpenFiles, Locks, Stale, Named
  <2>19. ASSUME NEW s \in Servers, MarkFails(s) PROVE ObserveInv'
    BY <2>19 DEF MarkFails, HalfMarked, GuardInv, OpenFiles, Locks, Stale, Named
  <2>20. ASSUME NEW s \in Servers, Unlock(s) PROVE ObserveInv'
    BY <2>20 DEF Unlock, Unlocked, GuardInv, OpenFiles, Locks, Stale, Named
  <2>21. ASSUME NEW s \in Servers, Crash(s) PROVE ObserveInv'
    BY <2>21 DEF Crash, Closed, Alive, GuardInv, OpenFiles, Locks, Stale, Named
  <2>22. ASSUME NEW o \in Observations, ObserveNothing(o) PROVE ObserveInv'
    BY <2>22 DEF ObserveNothing, Say
  <2>23. ASSUME NEW o \in Observations, ObserveOpen(o) PROVE ObserveInv'
    BY <2>23 DEF ObserveOpen
  <2>24. ASSUME NEW o \in Observations, ObserveLock(o) PROVE ObserveInv'
    BY <2>24 DEF ObserveLock
  <2>25. ASSUME NEW o \in Observations, ObserveRead(o) PROVE ObserveInv'
    BY <2>25 DEF ObserveRead, Say, Meaning
  <2>26. ASSUME NEW o \in Observations, ObserveUnlock(o) PROVE ObserveInv'
    BY <2>26 DEF ObserveUnlock
  <2>27. ASSUME NEW o \in Observations, ObserveLive(o) PROVE ObserveInv'
    BY <2>27 DEF ObserveLive, Say
  <2>28. ASSUME NEW o \in Observations, ObserveFails(o) PROVE ObserveInv'
    BY <2>28 DEF ObserveFails, Say
  <2>29. CASE Recover
    BY <2>29 DEF Recover, GuardInv, OpenFiles, Locks, Stale, Named
  <2>30. CASE UNCHANGED vars
    BY <2>30 DEF vars
  <2>. QED
    BY <2>1, <2>2, <2>3, <2>4, <2>5, <2>6, <2>7, <2>8, <2>9, <2>10, <2>11, <2>12, <2>13, <2>14, <2>15, <2>16, <2>17, <2>18, <2>19, <2>20, <2>21, <2>22, <2>23, <2>24, <2>25, <2>26, <2>27, <2>28, <2>29, <2>30
       DEF Next, Acquire, Hold, Drop, Observe
<1>3. QED
  BY Typing, Inductive, <1>1, <1>2, PTL DEF Spec

\* An observation that says "free" is true at the moment it says so.
THEOREM FreeIsTrue == Spec => FreeIsTrueWhenSaid
<1> DEFINE Quiet == working = {} /\ \A s \in Servers : pc[s] # "serving"
           Said(o) == answer'[o] = "free" /\ answer[o] # "free"
<1>1. TypeOK /\ GuardInv /\ ObserveInv /\ [Next]_vars
        => [\A o \in Observations : Said(o) => Quiet]_vars
  <2> SUFFICES ASSUME TypeOK, GuardInv, ObserveInv, Next,
                      NEW o \in Observations, Said(o)
               PROVE  Quiet
    BY DEF vars
  <2> USE NobodyAssumption, NoFileAssumption, MarkerForms
      DEF TypeOK, observation
  <2>1. ObserveNothing(o) \/ ObserveRead(o)
    <3>1. ASSUME NEW s \in Servers, Acquire(s) \/ Hold(s) \/ Drop(s) \/ Crash(s)
          PROVE  UNCHANGED observation
      BY <3>1 DEF Acquire, Open, TryLock, LookBusy, Wake, RefuseBusy,
         AcquireFails, WriteFails, ReadTakeable, RefuseMarker, WriteHeld, Grant,
         Hold, Fork, ChildExecs, CommandsEnd, EndServing, Drop, MarkKept,
         MarkReleased, TrimReleased, MarkFails, Unlock, Crash
    <3>2. Recover => UNCHANGED observation
      BY DEF Recover
    <3>3. PICK p \in Observations : Observe(p)
      BY <3>1, <3>2 DEF Next
    <3>. QED
      BY <3>3 DEF Observe, ObserveNothing, ObserveOpen, ObserveLock, ObserveRead,
         ObserveUnlock, ObserveLive, ObserveFails, Say
  <2>2. CASE ObserveNothing(o)
    BY <2>2 DEF ObserveNothing, GuardInv, OpenFiles, Named, Leftovers, Writing,
       Locked
  <2>3. CASE ObserveRead(o)
    <3>1. marker[seen[o]] \in Takeable
      BY <2>3 DEF ObserveRead, Say, Meaning
    <3>2. path # NoFile /\ seen[o] = path /\ holder[path] = Nobody
      BY <2>3, <3>1 DEF ObserveRead, ObserveInv
    <3>3. ASSUME NEW s \in working PROVE FALSE
      <4>1. marker[path] \in {HeldBy(s), KeptBy(s)}
        BY <3>3 DEF GuardInv, Leftovers
      <4>2. marker[path] \in Takeable
        BY <3>1, <3>2
      <4>. QED
        BY <4>1, <4>2, MarkerForms
    <3>4. \A s \in Servers : pc[s] # "serving"
      BY <3>2 DEF GuardInv, Named, Locks, Writing, Locked
    <3>. QED
      BY <3>3, <3>4
  <2>. QED
    BY <2>1, <2>2, <2>3
<1>2. QED
  BY <1>1, Typing, Inductive, Observing, PTL DEF Spec, FreeIsTrueWhenSaid

-----------------------------------------------------------------------------
(* Why a tree is refused to the next writer. *)

\* Every marker that is refused has an owner that can be blamed for it.
LEMMA Caused == Spec => []Causes
<1> USE NobodyAssumption, NoFileAssumption, MarkerForms
    DEF TypeOK, files, server, observation, Opened, Locked, Gone, Writing
<1>1. Init => Causes
  BY DEF Init, Causes, Failed
<1>2. TypeOK /\ GuardInv /\ Causes /\ [Next]_vars => Causes'
  <2> SUFFICES ASSUME TypeOK, GuardInv, Causes, [Next]_vars PROVE Causes'
    OBVIOUS
  <2> USE DEF Causes, Failed
  <2>1. ASSUME NEW s \in Servers, Open(s) PROVE Causes'
    BY <2>1 DEF Open, InUse, GuardInv, OpenFiles, Locks, Named, Marks
  <2>2. ASSUME NEW s \in Servers, TryLock(s) PROVE Causes'
    BY <2>2 DEF TryLock, Free, GuardInv, OpenFiles, Locks, Named, Marks
  <2>3. ASSUME NEW s \in Servers, LookBusy(s) PROVE Causes'
    BY <2>3 DEF LookBusy, Meet, GuardInv, OpenFiles, Locks, Named, Marks
  <2>4. ASSUME NEW s \in Servers, Wake(s) PROVE Causes'
    BY <2>4 DEF Wake, GuardInv, OpenFiles, Locks, Named, Marks
  <2>5. ASSUME NEW s \in Servers, RefuseBusy(s) PROVE Causes'
    BY <2>5 DEF RefuseBusy, Meet, GuardInv, OpenFiles, Locks, Named, Marks
  <2>6. ASSUME NEW s \in Servers, AcquireFails(s) PROVE Causes'
    BY <2>6 DEF AcquireFails, Closed, GuardInv, OpenFiles, Locks, Named, Marks
  <2>7. ASSUME NEW s \in Servers, WriteFails(s) PROVE Causes'
    BY <2>7 DEF WriteFails, Closed, GuardInv, OpenFiles, Locks, Named, Marks
  <2>8. ASSUME NEW s \in Servers, ReadTakeable(s) PROVE Causes'
    BY <2>8 DEF ReadTakeable, GuardInv, OpenFiles, Locks, Named, Marks
  <2>9. ASSUME NEW s \in Servers, RefuseMarker(s) PROVE Causes'
    BY <2>9 DEF RefuseMarker, Unlocked, GuardInv, OpenFiles, Locks, Named, Marks
  <2>10. ASSUME NEW s \in Servers, WriteHeld(s) PROVE Causes'
    BY <2>10 DEF WriteHeld, GuardInv, OpenFiles, Locks, Named, Marks
  <2>11. ASSUME NEW s \in Servers, Grant(s) PROVE Causes'
    BY <2>11 DEF Grant, GuardInv, OpenFiles, Locks, Named, Marks
  <2>12. ASSUME NEW s \in Servers, Fork(s) PROVE Causes'
    BY <2>12 DEF Fork, GuardInv, OpenFiles, Locks, Named, Marks
  <2>13. ASSUME NEW s \in Servers, ChildExecs(s) PROVE Causes'
    BY <2>13 DEF ChildExecs, Unlocked, GuardInv, OpenFiles, Locks, Named, Marks
  <2>14. ASSUME NEW s \in Servers, CommandsEnd(s) PROVE Causes'
    BY <2>14 DEF CommandsEnd, GuardInv, OpenFiles, Locks, Named, Marks
  <2>15. ASSUME NEW s \in Servers, EndServing(s) PROVE Causes'
    BY <2>15 DEF EndServing, GuardInv, OpenFiles, Locks, Named, Marks
  <2>16. ASSUME NEW s \in Servers, MarkKept(s) PROVE Causes'
    BY <2>16 DEF MarkKept, GuardInv, OpenFiles, Locks, Named, Marks
  <2>17. ASSUME NEW s \in Servers, MarkReleased(s) PROVE Causes'
    BY <2>17 DEF MarkReleased, GuardInv, OpenFiles, Locks, Named, Marks
  <2>18. ASSUME NEW s \in Servers, TrimReleased(s) PROVE Causes'
    BY <2>18 DEF TrimReleased, GuardInv, OpenFiles, Locks, Named, Marks
  <2>19. ASSUME NEW s \in Servers, MarkFails(s) PROVE Causes'
    BY <2>19 DEF MarkFails, HalfMarked, GuardInv, OpenFiles, Locks, Named, Marks
  <2>20. ASSUME NEW s \in Servers, Unlock(s) PROVE Causes'
    BY <2>20 DEF Unlock, Unlocked, GuardInv, OpenFiles, Locks, Named, Marks
  <2>21. ASSUME NEW s \in Servers, Crash(s) PROVE Causes'
    BY <2>21 DEF Crash, Closed, Alive, GuardInv, OpenFiles, Locks, Named, Marks
  <2>22. ASSUME NEW o \in Observations, ObserveNothing(o) PROVE Causes'
    BY <2>22 DEF ObserveNothing, Say
  <2>23. ASSUME NEW o \in Observations, ObserveOpen(o) PROVE Causes'
    BY <2>23 DEF ObserveOpen
  <2>24. ASSUME NEW o \in Observations, ObserveLock(o) PROVE Causes'
    BY <2>24 DEF ObserveLock
  <2>25. ASSUME NEW o \in Observations, ObserveRead(o) PROVE Causes'
    BY <2>25 DEF ObserveRead, Say, Meaning
  <2>26. ASSUME NEW o \in Observations, ObserveUnlock(o) PROVE Causes'
    BY <2>26 DEF ObserveUnlock
  <2>27. ASSUME NEW o \in Observations, ObserveLive(o) PROVE Causes'
    BY <2>27 DEF ObserveLive, Say
  <2>28. ASSUME NEW o \in Observations, ObserveFails(o) PROVE Causes'
    BY <2>28 DEF ObserveFails, Say
  <2>29. CASE Recover
    BY <2>29 DEF Recover, GuardInv, OpenFiles, Locks, Named, Marks
  <2>30. CASE UNCHANGED vars
    BY <2>30 DEF vars
  <2>. QED
    BY <2>1, <2>2, <2>3, <2>4, <2>5, <2>6, <2>7, <2>8, <2>9, <2>10, <2>11, <2>12, <2>13, <2>14, <2>15, <2>16, <2>17, <2>18, <2>19, <2>20, <2>21, <2>22, <2>23, <2>24, <2>25, <2>26, <2>27, <2>28, <2>29, <2>30
       DEF Next, Acquire, Hold, Drop, Observe
<1>3. QED
  BY Typing, Inductive, <1>1, <1>2, PTL DEF Spec

\* A clean history never strands the tree.
THEOREM StrandedOnlyForCause == Spec => []StrandedForCause
<1>1. TypeOK /\ GuardInv /\ Causes => StrandedForCause
  <2> SUFFICES ASSUME TypeOK, GuardInv, Causes, path # NoFile,
                      holder[path] = Nobody, marker[path] \notin Takeable
               PROVE  \E s \in Servers :
                        /\ marker[path].owner \in {s, Nobody}
                        /\ \/ pc[s] \in {"crashed", "failed"}
                           \/ leaving[s] \in {"kept", "unmarked"}
    BY DEF StrandedForCause
  <2>1. path \in Files /\ marker[path] \in Markers
    BY DEF TypeOK
  <2>2. \A s \in Servers : pc[s] \in Locked => fd[s] # path
    BY NobodyAssumption DEF GuardInv, Locks
  <2>3. \/ marker[path] = Torn
        \/ \E s \in Servers : marker[path] \in {HeldBy(s), KeptBy(s)}
    BY <2>1 DEF Markers, Takeable, HeldBy, KeptBy
  <2>4. CASE marker[path] = Torn
    BY <2>1, <2>2, <2>4, MarkerForms DEF Causes, Failed, Locked
  <2>5. ASSUME NEW s \in Servers, marker[path] \in {HeldBy(s), KeptBy(s)}
        PROVE  /\ marker[path].owner = s
               /\ Failed(s) \/ leaving[s] = "kept"
    BY <2>1, <2>2, <2>5, MarkerForms DEF Causes, Locked
  <2>. QED
    BY <2>3, <2>4, <2>5 DEF Failed
<1>2. QED
  BY Typing, Inductive, Caused, <1>1, PTL
-----------------------------------------------------------------------------
(* Who is refused as busy. *)

\* The observations that will not lock again, and, while a server sleeps, those
\* that are over before it looks again.
Finished == {o \in Observations : step[o] = "done"}
Counted(s) ==
    Finished \cup IF pc[s] = "asleep" THEN readers[fd[s]] ELSE {}

\* A server that met no exclusive lock spent each of its looks on another
\* observation.
Spent(s) ==
    /\ pc[s] = "new" => looked[s] = 0
    /\ pc[s] \in {"try", "asleep"} => looked[s] <= Cardinality(Counted(s))
    /\ pc[s] # "busy"

BusyInv == \A s \in Servers : s \notin met => Spent(s)

\* Counted is a set of observations, and a larger one has no fewer members.
LEMMA CountedObservations ==
    ASSUME IsFiniteSet(Observations), TypeOK, GuardInv, NEW s \in Servers
    PROVE  /\ Counted(s) \in SUBSET Observations
           /\ Cardinality(Counted(s)) \in Nat
           /\ \A set \in SUBSET Observations : Counted(s) \subseteq set =>
                 /\ Cardinality(set) \in Nat
                 /\ Cardinality(Counted(s)) <= Cardinality(set)
<1>1. pc[s] = "asleep" => fd[s] \in Files
  BY DEF TypeOK, GuardInv, OpenFiles, Opened
<1>2. Counted(s) \in SUBSET Observations
  BY <1>1 DEF Counted, Finished, TypeOK
<1>3. ASSUME NEW set \in SUBSET Observations
      PROVE  IsFiniteSet(set) /\ Cardinality(set) \in Nat
  BY FS_Subset, FS_CardinalityType
<1>4. ASSUME NEW set \in SUBSET Observations, Counted(s) \subseteq set
      PROVE  Cardinality(Counted(s)) <= Cardinality(set)
  BY <1>3, <1>4, FS_Subset
<1>. QED
  BY <1>2, <1>3, <1>4

\* A server that finds only observations in its way has looks to spare.
LEMMA ReaderInTheWay ==
    ASSUME IsFiniteSet(Observations), TypeOK, GuardInv, ObserveInv,
           NEW s \in Servers, pc[s] = "try", ~Free(fd[s]),
           holder[fd[s]] = Nobody
    PROVE  /\ Cardinality(Finished \cup readers[fd[s]]) \in Nat
           /\ Cardinality(Finished) + 1
                 <= Cardinality(Finished \cup readers[fd[s]])
           /\ Cardinality(Finished) < Cardinality(Observations)
           /\ Cardinality(Finished) \in Nat
<1>1. fd[s] \in Files
  BY DEF TypeOK, GuardInv, OpenFiles, Opened
<1>2. PICK o \in readers[fd[s]] : TRUE
  BY DEF Free
<1>3. o \in Observations /\ readers[fd[s]] \in SUBSET Observations
  BY <1>1, <1>2 DEF TypeOK
<1>4. o \notin Finished
  BY <1>1, <1>2, <1>3 DEF Finished, ObserveInv, TypeOK
<1>5. Finished \in SUBSET Observations
  BY DEF Finished
<1>6. IsFiniteSet(Finished) /\ Cardinality(Finished) \in Nat
  BY <1>5, FS_Subset, FS_CardinalityType
<1>7. Cardinality(Finished \cup {o}) = Cardinality(Finished) + 1
  BY <1>4, <1>6, FS_AddElement
<1>8. ASSUME NEW set \in SUBSET Observations
      PROVE  IsFiniteSet(set) /\ Cardinality(set) \in Nat
  BY FS_Subset, FS_CardinalityType
<1>9. Cardinality(Finished \cup {o})
         <= Cardinality(Finished \cup readers[fd[s]])
  <2>1. Finished \cup {o} \in SUBSET (Finished \cup readers[fd[s]])
    BY <1>2
  <2>. QED
    BY <1>3, <1>5, <1>8, <2>1, FS_Subset
<1>10. Cardinality(Finished \cup {o}) <= Cardinality(Observations)
  BY <1>3, <1>5, FS_Subset
<1>. QED
  BY <1>3, <1>5, <1>6, <1>7, <1>8, <1>9, <1>10, FS_CardinalityType

\* With no more observations than retries, each over before the writer looks
\* again, a writer is refused as busy only after a look that met somebody's
\* exclusive lock: the looks it spent on observations do not reach the limit.
THEOREM BusyOnlyIfOwned ==
    ASSUME PromptReaders, IsFiniteSet(Observations),
           Cardinality(Observations) <= BusyRetries
    PROVE  Spec => []BusyMeansOwned
<1>1. Init => BusyInv
  <2> SUFFICES ASSUME Init, NEW s \in Servers PROVE Spent(s)
    BY DEF BusyInv
  <2>. QED
    BY DEF Init, Spent
<1>2. TypeOK /\ GuardInv /\ ObserveInv /\ BusyInv /\ [Next]_vars => BusyInv'
  <2> SUFFICES ASSUME TypeOK, GuardInv, ObserveInv, BusyInv, [Next]_vars
               PROVE  BusyInv'
    OBVIOUS
  <2> USE DEF files, server, observation
  <2>. SUFFICES ASSUME NEW s \in Servers, s \notin met' PROVE Spent(s)'
    BY DEF BusyInv
  <2>1. ASSUME s \notin met, pc'[s] \notin {"new", "try", "asleep", "busy"}
        PROVE  Spent(s)'
    BY <2>1 DEF Spent
  <2>2. ASSUME s \notin met, pc'[s] = pc[s], looked'[s] = looked[s],
               pc[s] \in {"try", "asleep"} => Counted(s) \subseteq Counted(s)',
               Counted(s)' \in SUBSET Observations
        PROVE  Spent(s)'
    <3>1. Spent(s)
      BY <2>2 DEF BusyInv
    <3>2. CASE pc[s] \in {"try", "asleep"}
      <4>1. Cardinality(Counted(s)) <= Cardinality(Counted(s)')
        BY <2>2, <3>2, CountedObservations
      <4>2. Cardinality(Counted(s)) \in Nat /\ Cardinality(Counted(s)') \in Nat
        BY <2>2, <3>2, CountedObservations
      <4>3. looked[s] <= Cardinality(Counted(s)')
        BY <3>1, <3>2, <4>1, <4>2, BusyRetriesAssumption DEF Spent, TypeOK
      <4>4. (Cardinality(Counted(s)))' = Cardinality(Counted(s)')
        OBVIOUS
      <4>. QED
        BY <2>2, <3>1, <3>2, <4>3, <4>4 DEF Spent
    <3>. QED
      BY <2>2, <3>1, <3>2 DEF Spent
  <2>3. ASSUME s \notin met, pc'[s] = pc[s], fd'[s] = fd[s],
               looked'[s] = looked[s], UNCHANGED <<step, readers>>
        PROVE  Spent(s)'
    <3>1. Counted(s)' = Counted(s)
      BY <2>3 DEF Counted, Finished
    <3>. QED
      BY <2>2, <2>3, <3>1, CountedObservations
  <2>4. CASE Open(s)
    <3>1. looked'[s] = 0 /\ s \notin met /\ pc'[s] = "try"
      BY <2>4 DEF Open, BusyInv, Spent, TypeOK
    <3>2. Counted(s)' = Finished'
      BY <3>1 DEF Counted
    <3>3. Finished' = Finished
      BY <2>4 DEF Open, Finished
    <3>4. Cardinality(Finished) \in Nat
      <4>1. Finished \in SUBSET Observations
        BY DEF Finished
      <4>. QED
        BY <4>1, FS_Subset, FS_CardinalityType
    <3>. QED
      BY <3>1, <3>2, <3>3, <3>4 DEF Spent
  <2>5. CASE LookBusy(s)
    <3>1. /\ pc[s] = "try" /\ ~Free(fd[s]) /\ holder[fd[s]] = Nobody
          /\ s \notin met /\ pc'[s] = "asleep" /\ looked'[s] = looked[s] + 1
          /\ fd' = fd /\ UNCHANGED <<step, readers>>
      BY <2>5 DEF LookBusy, Meet, TypeOK
    <3>2. looked[s] <= Cardinality(Finished)
      <4>1. Counted(s) = Finished
        BY <3>1 DEF Counted
      <4>. QED
        BY <3>1, <4>1 DEF BusyInv, Spent
    <3>3. Counted(s)' = Finished \cup readers[fd[s]]
      BY <3>1 DEF Counted, Finished
    <3>4. looked'[s] <= Cardinality(Counted(s)')
      BY <3>1, <3>2, <3>3, ReaderInTheWay, BusyRetriesAssumption DEF TypeOK
    <3>. QED
      BY <3>1, <3>4 DEF Spent
  <2>6. CASE Wake(s)
    <3>1. /\ pc[s] = "asleep" /\ readers[fd[s]] = {} /\ s \notin met
          /\ pc'[s] = "try" /\ looked' = looked /\ UNCHANGED step
      BY <2>6 DEF Wake, TypeOK
    <3>2. Counted(s) = Finished /\ Counted(s)' = Finished
      BY <3>1 DEF Counted, Finished
    <3>3. looked[s] <= Cardinality(Counted(s))
      BY <3>1 DEF BusyInv, Spent
    <3>. QED
      BY <3>1, <3>2, <3>3 DEF Spent
  <2>7. CASE RefuseBusy(s)
    <3>1. /\ pc[s] = "try" /\ ~Free(fd[s]) /\ holder[fd[s]] = Nobody
          /\ s \notin met /\ looked[s] = BusyRetries
      BY <2>7 DEF RefuseBusy, Meet, TypeOK
    <3>2. looked[s] <= Cardinality(Finished)
      <4>1. Counted(s) = Finished
        BY <3>1 DEF Counted
      <4>. QED
        BY <3>1, <4>1 DEF BusyInv, Spent
    <3>3. Cardinality(Observations) \in Nat
      BY FS_CardinalityType
    <3>4. Cardinality(Finished) \in Nat
          /\ Cardinality(Finished) < Cardinality(Observations)
      BY <3>1, ReaderInTheWay
    <3>. QED
      BY <3>1, <3>2, <3>3, <3>4, BusyRetriesAssumption
  <2>8. ASSUME TryLock(s) \/ AcquireFails(s) \/ WriteFails(s) \/ ReadTakeable(s)
               \/ RefuseMarker(s) \/ WriteHeld(s) \/ Grant(s) \/ EndServing(s)
               \/ Drop(s) \/ Crash(s)
        PROVE  Spent(s)'
    <3>1. s \notin met /\ pc'[s] \notin {"new", "try", "asleep", "busy"}
      BY <2>8 DEF TryLock, AcquireFails, WriteFails, ReadTakeable, RefuseMarker,
         WriteHeld, Grant, EndServing, Drop, MarkKept, MarkReleased,
         TrimReleased, MarkFails, Unlock, Crash, TypeOK
    <3>. QED
      BY <2>1, <3>1
  <2>9. ASSUME Fork(s) \/ ChildExecs(s) \/ CommandsEnd(s) PROVE Spent(s)'
    <3>1. UNCHANGED <<pc, fd, looked, met, step, readers>>
      BY <2>9 DEF Fork, ChildExecs, CommandsEnd
    <3>. QED
      BY <2>3, <3>1
  <2>10. ASSUME NEW t \in Servers \ {s}, Acquire(t) PROVE Spent(s)'
    <3>1. /\ pc'[s] = pc[s] /\ fd'[s] = fd[s] /\ looked'[s] = looked[s]
          /\ UNCHANGED <<step, readers>> /\ s \notin met
      BY <2>10 DEF Acquire, Open, TryLock, LookBusy, Wake, RefuseBusy,
         AcquireFails, WriteFails, ReadTakeable, RefuseMarker, WriteHeld, Grant,
         Meet, TypeOK
    <3>. QED
      BY <2>3, <3>1
  <2>11. ASSUME NEW t \in Servers \ {s}, Hold(t) \/ Drop(t) \/ Crash(t)
         PROVE  Spent(s)'
    <3>1. /\ pc'[s] = pc[s] /\ fd'[s] = fd[s] /\ looked'[s] = looked[s]
          /\ UNCHANGED <<step, readers>> /\ s \notin met
      BY <2>11 DEF Hold, Fork, ChildExecs, CommandsEnd, EndServing, Drop,
         MarkKept, MarkReleased, TrimReleased, MarkFails, Unlock, Crash, TypeOK
    <3>. QED
      BY <2>3, <3>1
  <2>12. ASSUME NEW o \in Observations, Observe(o) PROVE Spent(s)'
    <3>1. UNCHANGED <<pc, fd, looked, met>> /\ s \notin met
      BY <2>12 DEF Observe, ObserveNothing, ObserveOpen, ObserveLock,
         ObserveRead, ObserveUnlock, ObserveLive, ObserveFails
    <3>2. step \in [Observations -> {"new", "ask", "read", "live", "unlock", "done"}]
          /\ readers \in [Files -> SUBSET Observations]
      BY DEF TypeOK
    <3>3. Finished \subseteq Finished'
      BY <2>12, <3>2 DEF Finished, Observe, ObserveNothing, ObserveOpen,
         ObserveLock, ObserveRead, ObserveUnlock, ObserveLive, ObserveFails
    <3>4. ASSUME NEW f \in Files
          PROVE  Finished \cup readers[f] \subseteq Finished' \cup readers'[f]
      <4>1. CASE ObserveLock(o)
        BY <3>2, <3>3, <4>1 DEF ObserveLock
      <4>2. CASE ObserveUnlock(o)
        <5>1. o \in Finished'
          BY <3>2, <4>2 DEF ObserveUnlock, Finished
        <5>2. readers[f] \subseteq readers'[f] \cup {o}
          BY <3>2, <4>2 DEF ObserveUnlock
        <5>. QED
          BY <3>3, <5>1, <5>2
      <4>3. CASE readers' = readers
        BY <3>3, <4>3
      <4>. QED
        BY <2>12, <4>1, <4>2, <4>3 DEF Observe, ObserveNothing, ObserveOpen,
           ObserveRead, ObserveLive, ObserveFails
    <3>5. pc[s] = "asleep" => fd[s] \in Files
      BY DEF TypeOK, GuardInv, OpenFiles, Opened
    <3>6. Counted(s) \subseteq Counted(s)'
      BY <3>1, <3>3, <3>4, <3>5 DEF Counted
    <3>7. readers' \in [Files -> SUBSET Observations]
      BY <2>12, <3>2 DEF Observe, ObserveNothing, ObserveOpen,
         ObserveLock, ObserveRead, ObserveUnlock, ObserveLive, ObserveFails
    <3>8. Counted(s)' \in SUBSET Observations
      BY <3>1, <3>5, <3>7 DEF Counted, Finished
    <3>. QED
      BY <2>2, <3>1, <3>6, <3>8
  <2>13. ASSUME Recover \/ UNCHANGED vars PROVE Spent(s)'
    <3>1. UNCHANGED <<pc, fd, looked, met, step, readers>>
      BY <2>13 DEF Recover, vars
    <3>. QED
      BY <2>3, <3>1
  <2>. QED
    BY <2>4, <2>5, <2>6, <2>7, <2>8, <2>9, <2>10, <2>11, <2>12, <2>13
       DEF Next, Acquire, Hold
<1>3. BusyInv => BusyMeansOwned
  BY DEF BusyInv, BusyMeansOwned, Spent
<1>4. QED
  BY Typing, Inductive, Observing, <1>1, <1>2, <1>3, PTL DEF Spec
=============================================================================
