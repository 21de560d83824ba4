-------------------------- MODULE RpcSessionProofs --------------------------
(***************************************************************************)
(* Proofs about RpcSession, for any starts, clients, keys, nodes, settings *)
(* and faults.  Two invariants carry them: Typed (every variable has its   *)
(* type and a call that goes on knows its session) and SessionInv, which   *)
(* follows a session from its key to its end.  What each action writes in  *)
(* a record is a lemma of its own (the ...Writes lemmas, with the effect   *)
(* they establish), used by the proof of the invariant, of what is never   *)
(* taken back and of the refinement.                                       *)
(***************************************************************************)
EXTENDS RpcSession, TLAPS

\* The types, and that a call has the session it is about.
Typed == Types /\ Aimed

\* What is read of a record, and a record that was not written, have their types.
LEMMA Glancing ==
    /\ \A r \in Records : Glance(r) \in Glances
    /\ Absent \in Records
    /\ Glance(Absent) \in Glances
  BY NodesAssumption DEF Records, Glances, Glance, Absent, States, Terminal

\* Every answer is of its type and is about the session it names.
LEMMA Answering ==
    /\ NoAnswer \in Answers
    /\ \A s \in Starts \cup {NoSession}, effect \in {"none", "unknown"} :
            /\ Refused(s, effect) \in Answers
            /\ Refused(s, effect).state = "absent"
            /\ Refused(s, effect).of = s
    /\ \A s \in Starts \cup {NoSession}, kind \in {"started", "reused", "read", "stop"},
          st \in States \cup {"absent"} :
            /\ Told(kind, s, st) \in Answers
            /\ Told(kind, s, st).of = s
            /\ Told(kind, s, st).state = st
  BY DEF Answers, NoAnswer, Refused, Told, States, Terminal

\* A call that returns is not aimed at a session any more.
LEMMA Returning ==
    ASSUME CallsOK, Aimed, NEW p \in Calls, NEW a \in Answers, Return(p, a),
           target' \in [Calls -> Starts \cup {NoSession}],
           \A q \in Calls \ {p} : target'[q] = target[q],
           wants' \in [Calls -> {"start", "read", "stop"}],
           \A c \in Starts : wants'[c] = "start"
    PROVE  CallsOK' /\ Aimed'
<1>1. pc' \in [Calls -> Steps] BY DEF CallsOK, Return, Steps
<1>2. answer' \in [Calls -> Answers] BY DEF CallsOK, Return
<1>3. seen' \in [Calls -> Glances] BY Glancing DEF CallsOK, Return
<1>4. seen[p].by \in {"server", "process"} BY DEF CallsOK, Glances
<1>5. told' \in [Starts -> SUBSET {"server", "process"}] BY <1>4 DEF CallsOK, Return
<1>6. Aimed' BY DEF CallsOK, Aimed, Return
<1>. QED BY <1>1, <1>2, <1>3, <1>5, <1>6 DEF CallsOK

\* The same when nothing but the call itself changes.
LEMMA ReturningOnly ==
    ASSUME CallsOK, Aimed, NEW p \in Calls, NEW a \in Answers, Return(p, a),
           UNCHANGED <<target, wants>>
    PROVE  CallsOK' /\ Aimed'
  BY Returning DEF CallsOK, Aimed

\* A call that goes on.
LEMMA Going ==
    ASSUME CallsOK, Aimed, NEW p \in Calls, NEW step \in Steps, Goto(p, step),
           target' \in [Calls -> Starts \cup {NoSession}],
           \A q \in Calls \ {p} : target'[q] = target[q],
           step \in {"reuse", "check", "reread", "mark", "tell", "confirm"} =>
                target'[p] \in Starts,
           wants' \in [Calls -> {"start", "read", "stop"}],
           \A c \in Starts : wants'[c] = "start",
           answer' \in [Calls -> Answers], UNCHANGED told,
           seen' \in [Calls -> Glances]
    PROVE  CallsOK' /\ Aimed'
  BY DEF CallsOK, Aimed, Goto, Calls

\* The same when the call goes on with the session it has.
LEMMA GoingOnly ==
    ASSUME CallsOK, Aimed, NEW p \in Calls, NEW step \in Steps, Goto(p, step),
           step \in {"reuse", "check", "reread", "mark", "tell", "confirm"} =>
                target[p] \in Starts,
           UNCHANGED <<target, wants, answer, told>>,
           seen' \in [Calls -> Glances]
    PROVE  CallsOK' /\ Aimed'
  BY Going DEF CallsOK, Aimed

\* A client's question makes it aim at a session that it has the handle of.
LEMMA AskingTypes ==
    ASSUME CallsOK, Aimed, DiskOK, NEW p \in Asks, NEW s \in Starts,
           NEW what \in {"read", "stop"}, Ask(p, s, what)
    PROVE  CallsOK' /\ Aimed'
<1>1. p \in Calls /\ "check" \in Steps /\ record[s] \in Records
  BY DEF Calls, Steps, DiskOK
<1>2. seen' \in [Calls -> Glances] BY <1>1, Glancing DEF Ask, CallsOK
<1>3. answer' \in [Calls -> Answers] BY Answering DEF Ask, CallsOK
<1>4. \A c \in Starts : wants'[c] = "start"
  BY StartsAssumption DEF Ask, CallsOK, Aimed, Calls
<1>5. /\ target' \in [Calls -> Starts \cup {NoSession}]
      /\ \A q \in Calls \ {p} : target'[q] = target[q]
      /\ target'[p] \in Starts
      /\ wants' \in [Calls -> {"start", "read", "stop"}]
  BY <1>1 DEF Ask, CallsOK
<1>. QED BY <1>1, <1>2, <1>3, <1>4, <1>5, Going DEF Ask

\* Either way observe() may be followed.
LEMMA Observing ==
    ASSUME CallsOK, Aimed, NEW p \in Calls, pc[p] \in {"check", "reread"},
           NEW st \in States \cup {"absent"}, Observed(p, st), UNCHANGED <<target, wants>>
    PROVE  CallsOK' /\ Aimed'
<1>1. target[p] \in Starts BY DEF Aimed
<1>2. CASE wants[p] = "stop" /\ st \notin Terminal
  BY <1>1, <1>2, GoingOnly, Glancing DEF Observed, CallsOK, Steps
<1>3. CASE ~(wants[p] = "stop" /\ st \notin Terminal)
  <2> DEFINE kind == IF wants[p] = "start" THEN "reused" ELSE wants[p]
  <2>1. kind \in {"started", "reused", "read", "stop"} BY DEF CallsOK
  <2>2. Told(kind, target[p], st) \in Answers BY <1>1, <2>1, Answering
  <2>. QED BY <1>3, <2>2, ReturningOnly DEF Observed
<1>. QED BY <1>2, <1>3

\* The updates that the actions make of a record keep its type.
LEMMA Recording ==
    ASSUME NEW r \in Records
    PROVE  /\ \A st \in States : [r EXCEPT !.state = st] \in Records
           /\ \A st \in States, fin \in {"exit", "error"} :
                 [r EXCEPT !.state = st, !.finish = fin] \in Records
           /\ [r EXCEPT !.stop = TRUE] \in Records
           /\ \A st \in States : [r EXCEPT !.stop = TRUE, !.state = st] \in Records
           /\ [r EXCEPT !.state = "running", !.sent = TRUE] \in Records
           /\ \A b \in BOOLEAN : [r EXCEPT !.by = "process", !.stamped = b] \in Records
           /\ \A b \in BOOLEAN, n \in Nodes :
                 [r EXCEPT !.state = "starting", !.stamped = b, !.node = n] \in Records
           /\ [r EXCEPT !.cleaned = TRUE] \in Records
  BY DEF Records, States, Terminal

\* So the records on disk keep their type under a write, done or failed.
LEMMA Rewriting ==
    ASSUME DiskOK, NEW s \in Starts, NEW new \in Records, UNCHANGED holder,
           Written(s, new) \/ record' = [record EXCEPT ![s] = new]
    PROVE  DiskOK'
  BY DEF DiskOK, Written

\* What a step does not touch keeps its type.
LEMMA Frames ==
    /\ CallsOK /\ Aimed /\ UNCHANGED <<callVars, told>> => CallsOK' /\ Aimed'
    /\ DiskOK /\ UNCHANGED disk => DiskOK'
    /\ RunsOK /\ UNCHANGED runVars => RunsOK'
    /\ WorldOK /\ UNCHANGED <<up, world>> => WorldOK'
  BY DEF CallsOK, Aimed, DiskOK, RunsOK, WorldOK, callVars, disk, runVars, world

\* Every variable of a reachable state has its type, and a call that looks at a
\* session has one to look at.
LEMMA Typing == Spec => []Typed
<1> USE StartsAssumption, KeysAssumption, NodesAssumption
<1>1. Init => Typed
  <2> SUFFICES ASSUME Init PROVE Typed
    OBVIOUS
  <2>1. CallsOK /\ Aimed BY Glancing, Answering DEF Init, CallsOK, Aimed, Steps, Calls
  <2>2. DiskOK /\ RunsOK /\ WorldOK BY Glancing DEF Init, DiskOK, RunsOK, WorldOK
  <2>. QED BY <2>1, <2>2 DEF Typed, Types
<1>2. Typed /\ [Next]_vars => Typed'
  <2> SUFFICES ASSUME Typed, [Next]_vars PROVE Typed'
    OBVIOUS
  <2>0. /\ CallsOK /\ Aimed /\ DiskOK /\ RunsOK /\ WorldOK
        /\ Starts \subseteq Calls /\ Asks \subseteq Calls
    BY DEF Typed, Types, Calls
  <2> USE <2>0
  <2>1. ASSUME NEW c \in Starts, FindKey(c) PROVE Typed'
    <3>1. CallsOK' /\ Aimed'
      BY <2>1, Going, GoingOnly DEF FindKey, Aimed, CallsOK, DiskOK, Steps
    <3>. QED BY <2>1, <3>1, Frames DEF FindKey, Typed, Types
  <2>2. ASSUME NEW c \in Starts, RefuseStart(c) PROVE Typed'
    <3>1. CallsOK' /\ Aimed' BY <2>2, ReturningOnly, Answering DEF RefuseStart
    <3>. QED BY <2>2, <3>1, Frames DEF RefuseStart, Typed, Types
  <2>3. ASSUME NEW c \in Starts, Create(c) PROVE Typed'
    <3>1. CallsOK' /\ Aimed' BY <2>3, GoingOnly DEF Create, CallsOK, Steps
    <3>2. DiskOK'
      <4>1. PICK stamped \in Stamps :
              record' = [record EXCEPT ![c] =
                  [Absent EXCEPT !.state = "starting", !.stamped = stamped, !.node = bound]]
        BY <2>3 DEF Create
      <4>2. bound \in Nodes /\ stamped \in BOOLEAN BY DEF WorldOK, Stamps
      <4>3. [Absent EXCEPT !.state = "starting", !.stamped = stamped, !.node = bound] \in Records
        BY <4>2, Glancing, Recording
      <4>. QED BY <2>3, <4>1, <4>3, Rewriting DEF Create
    <3>. QED BY <2>3, <3>1, <3>2, Frames DEF Create, Typed, Types
  <2>4. ASSUME NEW c \in Starts, ClaimKey(c) PROVE Typed'
    <3>1. CallsOK' /\ Aimed' BY <2>4, GoingOnly DEF ClaimKey, CallsOK, Steps
    <3>2. DiskOK' BY <2>4 DEF ClaimKey, DiskOK
    <3>. QED BY <2>4, <3>1, <3>2, Frames DEF ClaimKey, Typed, Types
  <2>5. ASSUME NEW c \in Starts, ClaimHeld(c) PROVE Typed'
    <3>1. CallsOK' /\ Aimed' BY <2>5, Going DEF ClaimHeld, Aimed, CallsOK, DiskOK, Steps
    <3>2. DiskOK' BY <2>5, Glancing, Rewriting DEF ClaimHeld
    <3>. QED BY <2>5, <3>1, <3>2, Frames DEF ClaimHeld, Typed, Types
  <2>6. ASSUME NEW c \in Starts, ClaimFails(c) PROVE Typed'
    <3>1. CallsOK' /\ Aimed' BY <2>6, ReturningOnly, Answering DEF ClaimFails
    <3>2. DiskOK' BY <2>6, Glancing, Rewriting DEF ClaimFails
    <3>. QED BY <2>6, <3>1, <3>2, Frames DEF ClaimFails, Typed, Types
  <2>7. ASSUME NEW c \in Starts, Detach(c) PROVE Typed'
    <3>1. CallsOK' /\ Aimed' BY <2>7, GoingOnly DEF Detach, CallsOK, Steps
    <3>2. RunsOK' BY <2>7 DEF Detach, RunsOK
    <3>. QED BY <2>7, <3>1, <3>2, Frames DEF Detach, Typed, Types
  <2>8. ASSUME NEW c \in Starts, DetachFails(c) PROVE Typed'
    <3>1. CallsOK' /\ Aimed' BY <2>8, ReturningOnly, Answering DEF DetachFails
    <3>2. DiskOK' BY <2>8, Recording, Rewriting DEF DetachFails, DiskOK, States, Terminal
    <3>. QED BY <2>8, <3>1, <3>2, Frames DEF DetachFails, Typed, Types
  <2>9. ASSUME NEW c \in Starts, Stamp(c) PROVE Typed'
    <3>1. CallsOK' /\ Aimed' BY <2>9, ReturningOnly, Answering DEF Stamp, States
    <3>2. DiskOK'
      <4>1. PICK stamped \in Stamps :
              record' = [record EXCEPT ![c].by = "process", ![c].stamped = stamped]
        BY <2>9 DEF Stamp
      <4>2. stamped \in BOOLEAN /\ record[c] \in Records BY DEF DiskOK, Stamps
      <4>3. [record[c] EXCEPT !.by = "process", !.stamped = stamped] \in Records
        BY <4>2, Recording
      <4>4. record' = [record EXCEPT ![c] =
                          [record[c] EXCEPT !.by = "process", !.stamped = stamped]]
        BY <4>1 DEF DiskOK
      <4>. QED BY <2>9, <4>3, <4>4, Rewriting DEF Stamp
    <3>. QED BY <2>9, <3>1, <3>2, Frames DEF Stamp, Typed, Types
  <2>10. ASSUME NEW c \in Starts, StampFails(c) PROVE Typed'
    <3>1. CallsOK' /\ Aimed' BY <2>10, ReturningOnly, Answering DEF StampFails
    <3>. QED BY <2>10, <3>1, Frames DEF StampFails, Typed, Types
  <2>11. ASSUME NEW c \in Starts, Reuse(c) PROVE Typed'
    <3>1. CallsOK' /\ Aimed'
      BY SMTT(30), <2>11, ReturningOnly, Answering, GoingOnly, Glancing DEF Reuse, Aimed,
         CallsOK, DiskOK, Steps
    <3>. QED BY <2>11, <3>1, Frames DEF Reuse, Typed, Types
  <2>12. ASSUME NEW c \in Starts, ServerEnds(c) PROVE Typed'
    <3>1. CallsOK' /\ Aimed' BY <2>12, GoingOnly DEF ServerEnds, CallsOK, Steps
    <3>2. WorldOK' BY <2>12 DEF ServerEnds, WorldOK, world
    <3>. QED BY <2>12, <3>1, <3>2, Frames DEF ServerEnds, Typed, Types
  <2>13. ASSUME NEW c \in Starts, ServerKilled(c) PROVE Typed'
    <3>1. CallsOK' /\ Aimed'
      BY <2>13, GoingOnly, Glancing DEF ServerKilled, CallsOK, Steps
    <3>2. WorldOK' BY <2>13 DEF ServerKilled, WorldOK, world
    <3>. QED BY <2>13, <3>1, <3>2, Frames DEF ServerKilled, Typed, Types
  <2>14. ASSUME NEW p \in Calls, CheckOwner(p) PROVE Typed'
    <3>1. CallsOK' /\ Aimed'
      BY <2>14, Observing, GoingOnly DEF CheckOwner, CallsOK, Aimed, Glances, Steps
    <3>. QED BY <2>14, <3>1, Frames DEF CheckOwner, Typed, Types
  <2>15. ASSUME NEW p \in Calls, Reread(p) PROVE Typed'
    <3>1. CallsOK' /\ Aimed' BY <2>15, Observing DEF Reread, Aimed, Over, States, Terminal
    <3>. QED BY <2>15, <3>1, Frames DEF Reread, Typed, Types
  <2>16. ASSUME NEW p \in Asks, NEW s \in Starts, AskStatus(p, s) PROVE Typed'
    <3>1. CallsOK' /\ Aimed' BY <2>16, AskingTypes DEF AskStatus
    <3>. QED BY <2>16, <3>1, Frames DEF AskStatus, Typed, Types, Ask
  <2>17. ASSUME NEW p \in Asks, NEW s \in Starts, AskResult(p, s) PROVE Typed'
    <3>1. CallsOK' /\ Aimed'
      <4>1. CASE ~record[s].cleaned BY <2>17, <4>1, AskingTypes DEF AskResult
      <4>2. CASE record[s].cleaned
        <5>1. \A c \in Starts : wants'[c] = "start"
          BY <2>17, <4>2, StartsAssumption DEF AskResult, CallsOK, Aimed, Calls
        <5>2. /\ target' \in [Calls -> Starts \cup {NoSession}]
              /\ \A q \in Calls \ {p} : target'[q] = target[q]
              /\ wants' \in [Calls -> {"start", "read", "stop"}]
          BY <2>17, <4>2 DEF AskResult, CallsOK
        <5>3. Return(p, Refused(s, "none")) /\ Refused(s, "none") \in Answers
          BY <2>17, <4>2, Answering DEF AskResult
        <5>. QED BY <5>1, <5>2, <5>3, Returning
      <4>. QED BY <4>1, <4>2
    <3>. QED BY <2>17, <3>1, Frames DEF AskResult, Typed, Types, Ask
  <2>18. ASSUME NEW p \in Asks, NEW s \in Starts, AskStop(p, s) PROVE Typed'
    <3>1. CallsOK' /\ Aimed' BY <2>18, AskingTypes DEF AskStop
    <3>. QED BY <2>18, <3>1, Frames DEF AskStop, Typed, Types, Ask
  <2>19. ASSUME NEW p \in Asks, Mark(p) PROVE Typed'
    <3>1. CallsOK' /\ Aimed'
      <4>1. target[p] \in Starts BY <2>19 DEF Mark, Aimed
      <4>2. record[target[p]].state \in States \cup {"absent"} BY <4>1 DEF DiskOK, Records
      <4>3. CASE Over(target[p]) \/ ~record[target[p]].sent
        BY <2>19, <4>1, <4>2, <4>3, ReturningOnly, Answering DEF Mark, States
      <4>4. CASE ~(Over(target[p]) \/ ~record[target[p]].sent)
        BY <2>19, <4>1, <4>4, GoingOnly DEF Mark, CallsOK, Steps
      <4>. QED BY <4>3, <4>4
    <3>2. DiskOK'
      <4>1. record[target[p]] \in Records /\ target[p] \in Starts
        BY <2>19 DEF Mark, DiskOK, Aimed
      <4>2. PICK new \in {record[target[p]], [record[target[p]] EXCEPT !.stop = TRUE],
                          [[record[target[p]] EXCEPT !.stop = TRUE] EXCEPT !.state = "stopping"]} :
              record' = [record EXCEPT ![target[p]] = new]
        BY <2>19, <4>1 DEF Mark, DiskOK
      <4>3. new \in Records
        <5>1. [record[target[p]] EXCEPT !.stop = TRUE] \in Records BY <4>1, Recording
        <5>2. [[record[target[p]] EXCEPT !.stop = TRUE] EXCEPT !.state = "stopping"] \in Records
          BY <5>1, Recording DEF States
        <5>. QED BY <4>1, <5>1, <5>2
      <4>. QED BY <2>19, <4>1, <4>2, <4>3, Rewriting DEF Mark
    <3>. QED BY <2>19, <3>1, <3>2, Frames DEF Mark, Typed, Types
  <2>20. ASSUME NEW p \in Asks, MarkFails(p) PROVE Typed'
    <3>1. CallsOK' /\ Aimed' BY <2>20, ReturningOnly, Answering DEF MarkFails, Aimed
    <3>. QED BY <2>20, <3>1, Frames DEF MarkFails, Typed, Types
  <2>21. ASSUME NEW p \in Asks, Tell(p) PROVE Typed'
    <3>1. CallsOK' /\ Aimed' BY <2>21, GoingOnly DEF Tell, Aimed, CallsOK, Steps
    <3>2. RunsOK' BY ZenonT(60), <2>21 DEF Tell, RunsOK, Stopped
    <3>. QED BY <2>21, <3>1, <3>2, Frames DEF Tell, Typed, Types
  <2>22. ASSUME NEW p \in Asks, TellRebound(p) PROVE Typed'
    <3>1. CallsOK' /\ Aimed' BY <2>22, ReturningOnly, Answering DEF TellRebound, Aimed
    <3>. QED BY <2>22, <3>1, Frames DEF TellRebound, Typed, Types
  <2>23. ASSUME NEW p \in Asks, TellFails(p) PROVE Typed'
    <3>1. CallsOK' /\ Aimed' BY <2>23, ReturningOnly, Answering DEF TellFails, Aimed
    <3>2. RunsOK' BY <2>23 DEF TellFails, RunsOK, Stopped
    <3>. QED BY <2>23, <3>1, <3>2, Frames DEF TellFails, Typed, Types
  <2>24. ASSUME NEW p \in Asks, Confirm(p) PROVE Typed'
    <3>1. CallsOK' /\ Aimed'
      BY <2>24, ReturningOnly, Answering DEF Confirm, Aimed, Over, States, Terminal
    <3>2. DiskOK'
      <4> DEFINE st == IF Over(target[p]) THEN record[target[p]].state ELSE "stopping"
      <4>1. record[target[p]] \in Records /\ target[p] \in Starts
        BY <2>24 DEF Confirm, DiskOK, Aimed
      <4>2. st \in States BY DEF Over, States
      <4>3. [record[target[p]] EXCEPT !.stop = TRUE, !.state = st] \in Records
        BY <4>1, <4>2, Recording
      <4>4. record' = [record EXCEPT ![target[p]] =
                          [record[target[p]] EXCEPT !.stop = TRUE, !.state = st]]
        BY <2>24, <4>1 DEF Confirm, DiskOK
      <4>. QED BY <2>24, <4>1, <4>3, <4>4, Rewriting DEF Confirm
    <3>. QED BY <2>24, <3>1, <3>2, Frames DEF Confirm, Typed, Types
  <2>25. ASSUME NEW p \in Asks, ConfirmFails(p) PROVE Typed'
    <3>1. CallsOK' /\ Aimed' BY <2>25, ReturningOnly, Answering DEF ConfirmFails, Aimed
    <3>. QED BY <2>25, <3>1, Frames DEF ConfirmFails, Typed, Types
  <2>26. ASSUME NEW p \in Asks, AskEnds(p) PROVE Typed'
    <3>1. CallsOK' /\ Aimed' BY <2>26, GoingOnly, Glancing DEF AskEnds, CallsOK, Steps
    <3>. QED BY <2>26, <3>1, Frames DEF AskEnds, Typed, Types
  <2>27. ASSUME NEW s \in Starts, Begin(s) PROVE Typed'
    <3>1. DiskOK'
      <4>1. PICK new \in {record[s], [record[s] EXCEPT !.state = "failed", !.finish = "error"],
                          [record[s] EXCEPT !.state = "running", !.sent = TRUE]} :
              record' = [record EXCEPT ![s] = new]
        BY <2>27 DEF Begin, DiskOK
      <4>2. new \in Records
        <5>1. record[s] \in Records BY DEF DiskOK
        <5>2. [record[s] EXCEPT !.state = "failed", !.finish = "error"] \in Records
          BY <5>1, Recording DEF States, Terminal
        <5>3. [record[s] EXCEPT !.state = "running", !.sent = TRUE] \in Records
          BY <5>1, Recording
        <5>. QED BY <5>1, <5>2, <5>3
      <4>. QED BY <2>27, <4>1, <4>2, Rewriting DEF Begin
    <3>2. RunsOK' BY <2>27 DEF Begin, RunsOK
    <3>. QED BY <2>27, <3>1, <3>2, Frames DEF Begin, Typed, Types
  <2>28. ASSUME NEW s \in Starts, BeginFails(s) PROVE Typed'
    <3>1. RunsOK' BY <2>28 DEF BeginFails, RunsOK
    <3>. QED BY <2>28, <3>1, Frames DEF BeginFails, Typed, Types
  <2>29. ASSUME NEW s \in Starts, GiveUp(s) PROVE Typed'
    <3>1. DiskOK'
      BY <2>29, Recording, Rewriting DEF GiveUp, DiskOK, Over, States, Terminal
    <3>2. RunsOK' BY <2>29 DEF GiveUp, RunsOK
    <3>. QED BY <2>29, <3>1, <3>2, Frames DEF GiveUp, Typed, Types
  <2>30. ASSUME NEW s \in Starts, Send(s) PROVE Typed'
    <3>1. RunsOK' BY <2>30 DEF Send, RunsOK, WorldOK, world
    <3>. QED BY <2>30, <3>1, Frames DEF Send, Typed, Types
  <2>31. ASSUME NEW s \in Starts, NotSent(s) PROVE Typed'
    <3>1. RunsOK' BY <2>31 DEF NotSent, RunsOK
    <3>. QED BY <2>31, <3>1, Frames DEF NotSent, Typed, Types
  <2>32. ASSUME NEW s \in Starts, Hear(s) PROVE Typed'
    <3>1. RunsOK' BY <2>32 DEF Hear, RunsOK
    <3>. QED BY <2>32, <3>1, Frames DEF Hear, Typed, Types
  <2>33. ASSUME NEW s \in Starts, Lose(s) PROVE Typed'
    <3>1. RunsOK' BY <2>33 DEF Lose, RunsOK
    <3>. QED BY <2>33, <3>1, Frames DEF Lose, Typed, Types
  <2>34. ASSUME NEW s \in Starts, Report(s) PROVE Typed'
    <3>1. DiskOK'
      BY <2>34, Recording, Rewriting DEF Report, DiskOK, RunsOK, Verdict, Over,
         States, Terminal
    <3>2. RunsOK' BY <2>34 DEF Report, RunsOK
    <3>. QED BY <2>34, <3>1, <3>2, Frames DEF Report, Typed, Types
  <2>35. ASSUME NEW s \in Starts, OwnerKilled(s) PROVE Typed'
    <3>1. RunsOK' BY <2>35 DEF OwnerKilled, RunsOK
    <3>. QED BY <2>35, <3>1, Frames DEF OwnerKilled, Typed, Types
  <2>36. ASSUME NEW s \in Starts, AgentStarts(s) PROVE Typed'
    <3>1. RunsOK' BY <2>36 DEF AgentStarts, AgentMoves, RunsOK
    <3>. QED BY <2>36, <3>1, Frames DEF AgentStarts, Typed, Types, AgentMoves
  <2>37. ASSUME NEW s \in Starts, AgentRefuses(s) PROVE Typed'
    <3>1. RunsOK' BY <2>37 DEF AgentRefuses, AgentMoves, RunsOK
    <3>. QED BY <2>37, <3>1, Frames DEF AgentRefuses, Typed, Types, AgentMoves
  <2>38. ASSUME NEW s \in Starts, AgentEnds(s) PROVE Typed'
    <3>1. RunsOK' BY <2>38 DEF AgentEnds, AgentMoves, RunsOK
    <3>. QED BY <2>38, <3>1, Frames DEF AgentEnds, Typed, Types, AgentMoves
  <2>39. ASSUME NEW s \in Starts, AgentStops(s) PROVE Typed'
    <3>1. RunsOK' BY <2>39 DEF AgentStops, AgentMoves, RunsOK
    <3>. QED BY <2>39, <3>1, Frames DEF AgentStops, Typed, Types, AgentMoves
  <2>40. ASSUME NEW s \in Starts, Clean(s) PROVE Typed'
    <3>1. DiskOK' BY <2>40, Recording DEF Clean, DiskOK
    <3>. QED BY <2>40, <3>1, Frames DEF Clean, Typed, Types
  <2>41. CASE Rebind
    <3>1. WorldOK' BY <2>41 DEF Rebind, WorldOK, world
    <3>. QED BY <2>41, <3>1, Frames DEF Rebind, Typed, Types
  <2>42. CASE UNCHANGED vars BY <2>42, Frames DEF vars, Typed, Types
  <2>. QED
    BY <2>1, <2>2, <2>3, <2>4, <2>5, <2>6, <2>7, <2>8, <2>9, <2>10, <2>11, <2>12,
       <2>13, <2>14, <2>15, <2>16, <2>17, <2>18, <2>19, <2>20, <2>21, <2>22, <2>23,
       <2>24, <2>25, <2>26, <2>27, <2>28, <2>29, <2>30, <2>31, <2>32, <2>33, <2>34,
       <2>35, <2>36, <2>37, <2>38, <2>39, <2>40, <2>41, <2>42 DEF Next, StartStep,
       AskStep, OwnerStep, AgentStep
<1>3. QED BY <1>1, <1>2, PTL DEF Spec

-----------------------------------------------------------------------------
\* A record that says "sent" goes on saying so.
StaysSent == \A s \in Starts : record[s].sent => record'[s].sent

\* The fields of an updated record: those written, and those left alone.
LEMMA Fields ==
    ASSUME NEW r \in Records
    PROVE  /\ \A st, fin :
                 /\ [r EXCEPT !.state = st, !.finish = fin].state = st
                 /\ [r EXCEPT !.state = st, !.finish = fin].finish = fin
                 /\ [r EXCEPT !.state = st, !.finish = fin].sent = r.sent
                 /\ [r EXCEPT !.state = st, !.finish = fin].stop = r.stop
           /\ [r EXCEPT !.stop = TRUE].state = r.state
           /\ [r EXCEPT !.stop = TRUE].finish = r.finish
           /\ [r EXCEPT !.stop = TRUE].sent = r.sent
           /\ \A st :
                 /\ [r EXCEPT !.stop = TRUE, !.state = st].state = st
                 /\ [r EXCEPT !.stop = TRUE, !.state = st].finish = r.finish
                 /\ [r EXCEPT !.stop = TRUE, !.state = st].sent = r.sent
           /\ [[r EXCEPT !.stop = TRUE] EXCEPT !.state = "stopping"].state = "stopping"
           /\ [[r EXCEPT !.stop = TRUE] EXCEPT !.state = "stopping"].finish = r.finish
           /\ [[r EXCEPT !.stop = TRUE] EXCEPT !.state = "stopping"].sent = r.sent
           /\ [r EXCEPT !.state = "running", !.sent = TRUE].state = "running"
           /\ [r EXCEPT !.state = "running", !.sent = TRUE].sent
           /\ [r EXCEPT !.state = "running", !.sent = TRUE].stop = r.stop
  BY DEF Records

\* What a step does not touch keeps its part of the invariant.
LEMMA KeyFrames ==
    /\ Named /\ UNCHANGED holder => Named'
    /\ Begun /\ UNCHANGED <<pc, owner, agent, record, holder>> => Begun'
    /\ Reusing /\ UNCHANGED <<pc, target, holder>> => Reusing'
    /\ Answered /\ UNCHANGED <<answer, holder>> => Answered'
    /\ Aimed /\ Asking /\ UNCHANGED <<pc, target, holder>> /\ StaysSent => Asking'
    /\ UNCHANGED record => StaysSent
    /\ Dispatched /\ UNCHANGED <<pc, owner, agent, record>> => Dispatched'
    /\ \A s \in Starts : Reported(s) /\ Settled(s) /\ UNCHANGED <<owner, heard, agent, record>>
            => Reported(s)' /\ Settled(s)'
  BY DEF Named, Begun, Reusing, Answered, Asking, Dispatched, Reported, Settled, Holds,
         Over, callVars, disk, StaysSent, Aimed, Calls

\* Nothing was, or is, said of the session.
FreshEffect(c) ==
    /\ \A t \in Starts \ {c} : record'[t] = record[t]
    /\ ~record[c].sent /\ ~record[c].stop /\ ~Over(c)
    /\ ~record'[c].sent /\ ~record'[c].stop
    /\ record'[c].state \notin Terminal

\* A record that is created, or taken back, is of a session that nothing was
\* begun of, and nothing is said of it.
LEMMA FreshWrites ==
    ASSUME Typed, SessionInv, NEW c \in Starts, Create(c) \/ ClaimHeld(c) \/ ClaimFails(c)
    PROVE  FreshEffect(c)
<1> USE DEF FreshEffect, Typed, Types, SessionInv, Calls, CallsOK, DiskOK, RunsOK
<1>1. ~Holds(c) /\ record[c] \in Records BY DEF Create, ClaimHeld, ClaimFails, Begun
<1>2. CASE Create(c)
  <2>1. PICK stamped \in Stamps : record' = [record EXCEPT ![c] =
            [Absent EXCEPT !.state = "starting", !.stamped = stamped, !.node = bound]]
    BY <1>2 DEF Create
  <2>2. record'[c].state = "starting" /\ ~record'[c].sent /\ ~record'[c].stop
    BY <2>1 DEF Absent
  <2>. QED BY <1>1, <2>1, <2>2 DEF Terminal, Begun
<1>3. CASE ClaimHeld(c) \/ ClaimFails(c)
  BY <1>1, <1>3 DEF ClaimHeld, ClaimFails, Written, Absent, Terminal, Begun, Over
<1>. QED BY <1>2, <1>3

\* The session fails, unless it is over.
FailEffect(s) ==
    /\ \A t \in Starts \ {s} : record'[t] = record[t]
    /\ record'[s].sent = record[s].sent /\ record'[s].stop = record[s].stop
    /\ \/ record'[s] = record[s]
       \/ ~Over(s) /\ record'[s].state = "failed" /\ record'[s].finish = "error"

\* A run whose owner cannot be started, or that may not be sent, fails, unless it
\* is over.
LEMMA FailWrites ==
    ASSUME Typed, SessionInv, NEW s \in Starts, DetachFails(s) \/ GiveUp(s)
    PROVE  FailEffect(s)
<1> USE DEF FailEffect, Typed, Types, SessionInv, Calls, CallsOK, DiskOK, RunsOK
<1> DEFINE new == [record[s] EXCEPT !.state = "failed", !.finish = "error"]
<1>1. record' = record \/ (~Over(s) /\ record' = [record EXCEPT ![s] = new])
  BY DEF DetachFails, GiveUp, Written
<1>2. /\ new.state = "failed" /\ new.finish = "error"
      /\ new.sent = record[s].sent /\ new.stop = record[s].stop
  BY Fields
<1> HIDE DEF new
<1>. QED BY <1>1, <1>2

\* The record says what it said.
SameEffect(s) ==
    /\ \A t \in Starts \ {s} : record'[t] = record[t]
    /\ record'[s].sent = record[s].sent /\ record'[s].stop = record[s].stop
    /\ record'[s].state = record[s].state /\ record'[s].finish = record[s].finish

\* The owner's pid is all that the start adds to a record, and cleaning a result
\* away leaves what it says.
LEMMA SameWrites ==
    ASSUME Typed, SessionInv, NEW s \in Starts, Stamp(s) \/ Clean(s)
    PROVE  SameEffect(s)
<1> USE DEF SameEffect, Typed, Types, SessionInv, Calls, CallsOK, DiskOK, RunsOK
<1>. QED BY DEF Stamp, Clean, Records

\* The stop of a session that is not over is recorded.
MarkEffect(p) ==
    /\ \A t \in Starts \ {target[p]} : record'[t] = record[t]
    /\ target[p] \in Starts /\ Holds(target[p])
    /\ record'[target[p]].sent = record[target[p]].sent
    /\ record'[target[p]].finish = record[target[p]].finish
    /\ \/ record'[target[p]].state = record[target[p]].state
       \/ ~Over(target[p]) /\ record'[target[p]].state = "stopping"
    /\ record'[target[p]] = record[target[p]] \/ record'[target[p]].stop
    /\ pc'[p] = "tell" => record[target[p]].sent
    /\ pc'[p] /= "detach"

\* A stop is recorded of a session that holds its key, and opens nothing that is
\* over; the Agent is told only of what was sent.
LEMMA MarkWrites ==
    ASSUME Typed, SessionInv, NEW p \in Asks, Mark(p)
    PROVE  MarkEffect(p)
<1> USE DEF MarkEffect, Typed, Types, SessionInv, Calls, CallsOK, DiskOK, RunsOK
<1> DEFINE marked == [record[target[p]] EXCEPT !.stop = TRUE]
           new == [marked EXCEPT !.state = "stopping"]
<1>1. target[p] \in Starts /\ Holds(target[p]) /\ record[target[p]] \in Records
  BY DEF Mark, Aimed, Asking
<1>2. \/ record' = record /\ pc'[p] = "idle"
      \/ /\ record' = [record EXCEPT ![target[p]] = marked]
         /\ record[target[p]].sent /\ pc'[p] = "tell"
      \/ /\ ~Over(target[p]) /\ pc'[p] = "idle"
         /\ record' = [record EXCEPT ![target[p]] = new]
  BY StartsAssumption DEF Mark, Goto, Return
<1>3. /\ marked.state = record[target[p]].state /\ marked.sent = record[target[p]].sent
      /\ marked.finish = record[target[p]].finish /\ marked.stop
      /\ new.state = "stopping" /\ new.sent = record[target[p]].sent
      /\ new.finish = record[target[p]].finish /\ new.stop
  <2>1. marked \in Records BY <1>1, Recording
  <2>. QED BY <1>1, <2>1, Fields
<1> HIDE DEF marked, new
<1>. QED BY <1>1, <1>2, <1>3

\* The same, once the Agent took the stop.
ConfirmEffect(p) ==
    /\ \A t \in Starts \ {target[p]} : record'[t] = record[t]
    /\ target[p] \in Starts /\ Holds(target[p])
    /\ record'[target[p]].sent = record[target[p]].sent
    /\ record'[target[p]].finish = record[target[p]].finish
    /\ \/ record'[target[p]].state = record[target[p]].state
       \/ ~Over(target[p]) /\ record'[target[p]].state = "stopping"
    /\ record'[target[p]].stop /\ record[target[p]].sent

\* The same when the Agent took the stop of a session that was sent.
LEMMA ConfirmWrites ==
    ASSUME Typed, SessionInv, NEW p \in Asks, Confirm(p)
    PROVE  ConfirmEffect(p)
<1> USE DEF ConfirmEffect, Typed, Types, SessionInv, Calls, CallsOK, DiskOK, RunsOK
<1> DEFINE st == IF Over(target[p]) THEN record[target[p]].state ELSE "stopping"
           new == [record[target[p]] EXCEPT !.stop = TRUE, !.state = st]
<1>1. /\ target[p] \in Starts /\ Holds(target[p]) /\ record[target[p]] \in Records
      /\ record[target[p]].sent
  BY DEF Confirm, Aimed, Asking
<1>2. record' = [record EXCEPT ![target[p]] = new] BY <1>1 DEF Confirm
<1>3. /\ new.state = st /\ new.sent = record[target[p]].sent
      /\ new.finish = record[target[p]].finish /\ new.stop
  <2>1. record[target[p]] \in Records BY <1>1
  <2>. QED BY <2>1, Fields
<1> HIDE DEF new
<1>. QED BY <1>1, <1>2, <1>3

\* The session is sent, or fails, or was over.
BeginEffect(s) ==
    /\ \A t \in Starts \ {s} : record'[t] = record[t]
    /\ record'[s].stop = record[s].stop
    /\ \/ record'[s] = record[s] /\ owner'[s] = "ended"
       \/ /\ ~Over(s) /\ owner'[s] = "ended" /\ record'[s].sent = record[s].sent
          /\ record'[s].state = "failed" /\ record'[s].finish = "error"
       \/ /\ ~Over(s) /\ ~record[s].stop
          /\ record'[s].state = "running" /\ record'[s].sent

\* A run is recorded as sent unless it is over or its stop is on record.
LEMMA BeginWrites ==
    ASSUME Typed, SessionInv, NEW s \in Starts, Begin(s)
    PROVE  BeginEffect(s)
<1> USE DEF BeginEffect, Typed, Types, SessionInv, Calls, CallsOK, DiskOK, RunsOK
<1> DEFINE unsent == [record[s] EXCEPT !.state = "failed", !.finish = "error"]
           sent == [record[s] EXCEPT !.state = "running", !.sent = TRUE]
<1>1. \/ record' = record /\ owner'[s] = "ended"
      \/ ~Over(s) /\ record' = [record EXCEPT ![s] = unsent] /\ owner'[s] = "ended"
      \/ ~Over(s) /\ ~record[s].stop /\ record' = [record EXCEPT ![s] = sent]
  BY DEF Begin
<1>2. /\ unsent.state = "failed" /\ unsent.finish = "error"
      /\ unsent.sent = record[s].sent /\ unsent.stop = record[s].stop
      /\ sent.state = "running" /\ sent.sent /\ sent.stop = record[s].stop
  BY Fields
<1> HIDE DEF unsent, sent
<1>. QED BY <1>1, <1>2

\* The verdict of the owner is recorded, unless the session is over.
ReportEffect(s) ==
    /\ \A t \in Starts \ {s} : record'[t] = record[t]
    /\ record'[s].sent = record[s].sent /\ record'[s].stop = record[s].stop
    /\ \/ record'[s] = record[s]
       \/ /\ ~Over(s)
          /\ record'[s].state = Verdict(heard[s]).state
          /\ record'[s].finish = Verdict(heard[s]).finish

\* The owner's report is written unless the session is over.
LEMMA ReportWrites ==
    ASSUME Typed, SessionInv, NEW s \in Starts, Report(s)
    PROVE  ReportEffect(s)
<1> USE DEF ReportEffect, Typed, Types, SessionInv, Calls, CallsOK, DiskOK, RunsOK
<1> DEFINE new == [record[s] EXCEPT !.state = Verdict(heard[s]).state,
                                    !.finish = Verdict(heard[s]).finish]
<1>1. record' = record \/ (~Over(s) /\ record' = [record EXCEPT ![s] = new])
  BY DEF Report, Written
<1>2. /\ new.state = Verdict(heard[s]).state /\ new.finish = Verdict(heard[s]).finish
      /\ new.sent = record[s].sent /\ new.stop = record[s].stop
  BY Fields
<1> HIDE DEF new
<1>. QED BY <1>1, <1>2

\* SessionInv holds in every reachable state: nothing is begun of a session, or
\* said of it, before its key is its own; what the Agent may have was recorded as
\* sent; what a record says of an end is so on the Agent.
THEOREM SessionsKept == Spec => []SessionInv
<1> USE StartsAssumption, KeysAssumption
<1>1. Init => SessionInv
  <2> SUFFICES ASSUME Init PROVE SessionInv
    OBVIOUS
  <2>1. \A s \in Starts : /\ record[s].state = "absent" /\ ~record[s].stop
                          /\ ~record[s].sent /\ owner[s] = "none" /\ agent[s] = "none"
                          /\ holder[KeyOf[s]] = NoSession /\ answer[s].of = NoSession
                          /\ wants[s] = "start"
    BY DEF Init, Absent, NoAnswer, Calls
  <2>2. /\ \A p \in Calls : pc[p] \in {"idle", "done"}
        /\ \A k \in Keys : holder[k] = NoSession
    BY DEF Init
  <2>. QED
    BY <2>1, <2>2 DEF SessionInv, Aimed, Named, Begun, Reusing, Answered, Asking,
       Dispatched,
         Reported, Settled, NeverRan, Holds, Over, Terminal, Calls
<1>2. Typed /\ Typed' /\ SessionInv /\ [Next]_vars => SessionInv'
  <2> SUFFICES ASSUME Typed, Typed', SessionInv, [Next]_vars PROVE SessionInv'
    OBVIOUS
  <2>0. /\ CallsOK /\ Aimed /\ DiskOK /\ RunsOK
        /\ Named /\ Begun /\ Reusing /\ Answered /\ Asking /\ Dispatched
        /\ \A s \in Starts : Reported(s) /\ Settled(s)
        /\ Aimed'
    BY DEF Typed, Types, SessionInv
  <2>00. SessionInv' <=> /\ Named' /\ Begun' /\ Reusing' /\ Answered' /\ Asking'
                         /\ Dispatched' /\ \A s \in Starts : Reported(s)' /\ Settled(s)'
    BY <2>0 DEF SessionInv
  <2> USE <2>0, <2>00 DEF Calls, CallsOK, DiskOK, RunsOK, disk, callVars, runVars
  <2>1. ASSUME NEW c \in Starts, FindKey(c) PROVE SessionInv'
    <3>1. Begun' BY <2>1 DEF FindKey, Begun, Holds, Over, Goto
    <3>2. Reusing' BY <2>1 DEF FindKey, Reusing, Goto
    <3>3. Asking' BY <2>1 DEF FindKey, Asking, Holds, Aimed, Goto
    <3>4. Dispatched' BY <2>1 DEF FindKey, Dispatched, Over, Goto
    <3>. QED
      BY <2>1, <3>1, <3>2, <3>3, <3>4, KeyFrames DEF FindKey, Goto, Return, Observed
  <2>2. ASSUME NEW c \in Starts, RefuseStart(c) PROVE SessionInv'
    <3>1. Begun' BY <2>2 DEF RefuseStart, Begun, Holds, Over, Return, Told, Refused
    <3>2. Reusing' BY <2>2 DEF RefuseStart, Reusing, Return, Told, Refused
    <3>3. Answered' BY <2>2 DEF RefuseStart, Answered, Return, Told, Refused
    <3>4. Asking' BY <2>2 DEF RefuseStart, Asking, Holds, Aimed, Return, Told, Refused
    <3>5. Dispatched' BY <2>2 DEF RefuseStart, Dispatched, Over, Return, Told, Refused
    <3>. QED
      BY <2>2, <3>1, <3>2, <3>3, <3>4, <3>5, KeyFrames DEF RefuseStart, Goto, Return,
         Observed
  <2>3. ASSUME NEW c \in Starts, Create(c) PROVE SessionInv'
    <3>0. FreshEffect(c) BY <2>3, FreshWrites
    <3>1. Begun' BY <2>3, <3>0 DEF Create, Begun, Holds, Over, Goto, FreshEffect
    <3>2. Reusing' BY <2>3, <3>0 DEF Create, Reusing, Goto, FreshEffect
    <3>3. Asking' BY <2>3, <3>0 DEF Create, Asking, Holds, Aimed, Goto, FreshEffect
    <3>4. Dispatched' BY <2>3, <3>0 DEF Create, Dispatched, Over, Goto, FreshEffect
    <3>5. \A t \in Starts : Reported(t)' /\ Settled(t)'
      BY <2>3, <3>0 DEF Create, Reported, Settled, NeverRan, Goto, FreshEffect
    <3>. QED
      BY <2>3, <3>0, <3>1, <3>2, <3>3, <3>4, <3>5, KeyFrames DEF Create, Goto, Return,
         Observed
  <2>4. ASSUME NEW c \in Starts, ClaimKey(c) PROVE SessionInv'
    <3>1. Named' BY <2>4 DEF ClaimKey, Named, Goto
    <3>2. Begun' BY <2>4 DEF ClaimKey, Begun, Holds, Over, Goto
    <3>3. Reusing' BY <2>4 DEF ClaimKey, Reusing, Goto, Aimed
    <3>4. Answered' BY <2>4 DEF ClaimKey, Answered, Goto
    <3>5. Asking' BY <2>4 DEF ClaimKey, Asking, Holds, Aimed, Goto
    <3>6. Dispatched' BY <2>4 DEF ClaimKey, Dispatched, Over, Goto, Begun, Holds
    <3>. QED
      BY <2>4, <3>1, <3>2, <3>3, <3>4, <3>5, <3>6, KeyFrames DEF ClaimKey, Goto,
         Return, Observed
  <2>5. ASSUME NEW c \in Starts, ClaimHeld(c) PROVE SessionInv'
    <3>0. FreshEffect(c) BY <2>5, FreshWrites
    <3>1. Begun' BY <2>5, <3>0 DEF ClaimHeld, Begun, Holds, Over, Goto, FreshEffect
    <3>2. Reusing' BY <2>5, <3>0 DEF ClaimHeld, Reusing, Goto, FreshEffect
    <3>3. Asking' BY <2>5, <3>0 DEF ClaimHeld, Asking, Holds, Aimed, Goto, FreshEffect
    <3>4. Dispatched'
      BY <2>5, <3>0 DEF ClaimHeld, Dispatched, Over, Goto, Begun, Holds, FreshEffect
    <3>5. \A t \in Starts : Reported(t)' /\ Settled(t)'
      BY <2>5, <3>0 DEF ClaimHeld, Reported, Settled, NeverRan, Goto, Terminal,
         FreshEffect
    <3>. QED
      BY <2>5, <3>0, <3>1, <3>2, <3>3, <3>4, <3>5, KeyFrames DEF ClaimHeld, Goto,
         Return, Observed
  <2>6. ASSUME NEW c \in Starts, ClaimFails(c) PROVE SessionInv'
    <3>0. FreshEffect(c) BY <2>6, FreshWrites
    <3>1. Begun'
      BY <2>6, <3>0 DEF ClaimFails, Begun, Holds, Over, Return, Told, Refused,
         FreshEffect
    <3>2. Reusing'
      BY <2>6, <3>0 DEF ClaimFails, Reusing, Return, Told, Refused, FreshEffect
    <3>3. Answered'
      BY <2>6, <3>0 DEF ClaimFails, Answered, Return, Told, Refused, FreshEffect
    <3>4. Asking'
      BY <2>6, <3>0 DEF ClaimFails, Asking, Holds, Aimed, Return, Told, Refused,
         FreshEffect
    <3>5. Dispatched'
      BY <2>6, <3>0 DEF ClaimFails, Dispatched, Over, Return, Told, Refused, Begun,
         Holds, FreshEffect
    <3>6. \A t \in Starts : Reported(t)' /\ Settled(t)'
      BY <2>6, <3>0 DEF ClaimFails, Reported, Settled, NeverRan, Return, Told,
         Refused, Terminal, FreshEffect
    <3>. QED
      BY <2>6, <3>0, <3>1, <3>2, <3>3, <3>4, <3>5, <3>6, KeyFrames DEF ClaimFails,
         Goto, Return, Observed
  <2>7. ASSUME NEW c \in Starts, Detach(c) PROVE SessionInv'
    <3>1. Begun' BY <2>7 DEF Detach, Begun, Holds, Over, Goto
    <3>2. Reusing' BY <2>7 DEF Detach, Reusing, Goto
    <3>3. Asking' BY <2>7 DEF Detach, Asking, Holds, Aimed, Goto
    <3>4. Dispatched' BY <2>7 DEF Detach, Dispatched, Over, Goto, Begun, Holds
    <3>5. \A t \in Starts : Reported(t)' /\ Settled(t)'
      BY <2>7 DEF Detach, Reported, Settled, NeverRan, Goto
    <3>. QED
      BY <2>7, <3>1, <3>2, <3>3, <3>4, <3>5, KeyFrames DEF Detach, Goto, Return,
         Observed
  <2>8. ASSUME NEW c \in Starts, DetachFails(c) PROVE SessionInv'
    <3>0. FailEffect(c) BY <2>8, FailWrites
    <3>1. Begun'
      BY <2>8, <3>0 DEF DetachFails, Begun, Holds, Over, Return, Told, Refused,
         FailEffect
    <3>2. Reusing'
      BY <2>8, <3>0 DEF DetachFails, Reusing, Return, Told, Refused, FailEffect
    <3>3. Answered'
      BY <2>8, <3>0 DEF DetachFails, Answered, Return, Told, Refused, Begun, Holds,
         FailEffect
    <3>4. Asking'
      BY <2>8, <3>0 DEF DetachFails, Asking, Holds, Aimed, Return, Told, Refused,
         FailEffect
    <3>5. Dispatched'
      BY <2>8, <3>0 DEF DetachFails, Dispatched, Over, Return, Told, Refused, FailEffect
    <3>6. \A t \in Starts : Reported(t)' /\ Settled(t)'
      BY <2>8, <3>0 DEF DetachFails, Reported, Settled, NeverRan, Return, Told,
         Refused, Dispatched, FailEffect
    <3>. QED
      BY <2>8, <3>0, <3>1, <3>2, <3>3, <3>4, <3>5, <3>6, KeyFrames DEF DetachFails,
         Goto, Return, Observed
  <2>9. ASSUME NEW c \in Starts, Stamp(c) PROVE SessionInv'
    <3>0. SameEffect(c) BY <2>9, SameWrites
    <3>1. Begun'
      BY <2>9, <3>0 DEF Stamp, Begun, Holds, Over, Return, Told, Refused, SameEffect
    <3>2. Reusing' BY <2>9, <3>0 DEF Stamp, Reusing, Return, Told, Refused, SameEffect
    <3>3. Answered'
      BY <2>9, <3>0 DEF Stamp, Answered, Return, Told, Refused, Begun, Holds, SameEffect
    <3>4. Asking'
      BY <2>9, <3>0 DEF Stamp, Asking, Holds, Aimed, Return, Told, Refused, SameEffect
    <3>5. Dispatched'
      BY <2>9, <3>0 DEF Stamp, Dispatched, Over, Return, Told, Refused, SameEffect
    <3>6. \A t \in Starts : Reported(t)' /\ Settled(t)'
      BY <2>9, <3>0 DEF Stamp, Reported, Settled, NeverRan, Return, Told, Refused,
         SameEffect
    <3>. QED
      BY <2>9, <3>0, <3>1, <3>2, <3>3, <3>4, <3>5, <3>6, KeyFrames DEF Stamp, Goto,
         Return, Observed
  <2>10. ASSUME NEW c \in Starts, StampFails(c) PROVE SessionInv'
    <3>1. Begun' BY <2>10 DEF StampFails, Begun, Holds, Over, Return, Told, Refused
    <3>2. Reusing' BY <2>10 DEF StampFails, Reusing, Return, Told, Refused
    <3>3. Answered' BY <2>10 DEF StampFails, Answered, Return, Told, Refused
    <3>4. Asking' BY <2>10 DEF StampFails, Asking, Holds, Aimed, Return, Told, Refused
    <3>5. Dispatched' BY <2>10 DEF StampFails, Dispatched, Over, Return, Told, Refused
    <3>. QED
      BY <2>10, <3>1, <3>2, <3>3, <3>4, <3>5, KeyFrames DEF StampFails, Goto, Return,
         Observed
  <2>11. ASSUME NEW c \in Starts, Reuse(c) PROVE SessionInv'
    <3>1. Begun' BY <2>11 DEF Reuse, Begun, Holds, Over, Return, Told, Refused, Goto
    <3>2. Reusing' BY <2>11 DEF Reuse, Reusing, Return, Told, Refused, Goto
    <3>3. Answered' BY <2>11 DEF Reuse, Answered, Return, Told, Refused, Goto, Reusing
    <3>4. Asking' BY <2>11 DEF Reuse, Asking, Holds, Aimed, Return, Told, Refused, Goto
    <3>5. Dispatched' BY <2>11 DEF Reuse, Dispatched, Over, Return, Told, Refused, Goto
    <3>. QED
      BY <2>11, <3>1, <3>2, <3>3, <3>4, <3>5, KeyFrames DEF Reuse, Goto, Return,
         Observed
  <2>12. ASSUME NEW c \in Starts, ServerEnds(c) PROVE SessionInv'
    <3>1. Begun' BY <2>12 DEF ServerEnds, Begun, Holds, Over, Goto
    <3>2. Reusing' BY <2>12 DEF ServerEnds, Reusing, Goto
    <3>3. Asking' BY <2>12 DEF ServerEnds, Asking, Holds, Aimed, Goto
    <3>4. Dispatched' BY <2>12 DEF ServerEnds, Dispatched, Over, Goto
    <3>. QED
      BY <2>12, <3>1, <3>2, <3>3, <3>4, KeyFrames DEF ServerEnds, Goto, Return, Observed
  <2>13. ASSUME NEW c \in Starts, ServerKilled(c) PROVE SessionInv'
    <3>1. Begun' BY <2>13 DEF ServerKilled, Begun, Holds, Over, Goto
    <3>2. Reusing' BY <2>13 DEF ServerKilled, Reusing, Goto
    <3>3. Asking' BY <2>13 DEF ServerKilled, Asking, Holds, Aimed, Goto
    <3>4. Dispatched' BY <2>13 DEF ServerKilled, Dispatched, Over, Goto
    <3>. QED
      BY <2>13, <3>1, <3>2, <3>3, <3>4, KeyFrames DEF ServerKilled, Goto, Return,
         Observed
  <2>14. ASSUME NEW p \in Calls, CheckOwner(p) PROVE SessionInv'
    <3>1. Begun'
      BY <2>14 DEF CheckOwner, Begun, Holds, Over, Return, Told, Refused, Goto, Observed
    <3>2. Reusing'
      BY <2>14 DEF CheckOwner, Reusing, Return, Told, Refused, Goto, Observed, Aimed
    <3>3. Answered'
      BY <2>14 DEF CheckOwner, Answered, Return, Told, Refused, Goto, Observed,
         Reusing, Aimed
    <3>4. Asking'
      BY <2>14 DEF CheckOwner, Asking, Holds, Aimed, Return, Told, Refused, Goto,
         Observed
    <3>5. Dispatched'
      BY <2>14 DEF CheckOwner, Dispatched, Over, Return, Told, Refused, Goto, Observed
    <3>. QED
      BY <2>14, <3>1, <3>2, <3>3, <3>4, <3>5, KeyFrames DEF CheckOwner, Goto, Return,
         Observed
  <2>15. ASSUME NEW p \in Calls, Reread(p) PROVE SessionInv'
    <3>1. Begun'
      BY <2>15 DEF Reread, Begun, Holds, Over, Return, Told, Refused, Goto, Observed
    <3>2. Reusing'
      BY <2>15 DEF Reread, Reusing, Return, Told, Refused, Goto, Observed, Aimed
    <3>3. Answered'
      BY <2>15 DEF Reread, Answered, Return, Told, Refused, Goto, Observed, Reusing,
         Aimed
    <3>4. Asking'
      BY <2>15 DEF Reread, Asking, Holds, Aimed, Return, Told, Refused, Goto, Observed
    <3>5. Dispatched'
      BY <2>15 DEF Reread, Dispatched, Over, Return, Told, Refused, Goto, Observed
    <3>. QED
      BY <2>15, <3>1, <3>2, <3>3, <3>4, <3>5, KeyFrames DEF Reread, Goto, Return,
         Observed
  <2>16. ASSUME NEW p \in Asks, NEW s \in Starts, AskStatus(p, s) PROVE SessionInv'
    <3>1. Begun' BY <2>16 DEF AskStatus, Begun, Holds, Over, Ask, Goto
    <3>2. Reusing' BY <2>16 DEF AskStatus, Reusing, Ask, Goto
    <3>3. Answered' BY <2>16 DEF AskStatus, Answered, Ask, Goto
    <3>4. Asking'
      BY <2>16 DEF AskStatus, Asking, Holds, Aimed, Ask, Goto, Handed, Answered, Named
    <3>5. Dispatched' BY <2>16 DEF AskStatus, Dispatched, Over, Ask, Goto
    <3>. QED
      BY <2>16, <3>1, <3>2, <3>3, <3>4, <3>5, KeyFrames DEF AskStatus, Ask, Goto,
         Return, Observed
  <2>17. ASSUME NEW p \in Asks, NEW s \in Starts, AskResult(p, s) PROVE SessionInv'
    <3>1. Begun'
      BY <2>17 DEF AskResult, Begun, Holds, Over, Ask, Goto, Return, Told, Refused
    <3>2. Reusing' BY <2>17 DEF AskResult, Reusing, Ask, Goto, Return, Told, Refused
    <3>3. Answered' BY <2>17 DEF AskResult, Answered, Ask, Goto, Return, Told, Refused
    <3>4. Asking'
      BY <2>17 DEF AskResult, Asking, Holds, Aimed, Ask, Goto, Return, Told, Refused,
         Handed, Answered, Named
    <3>5. Dispatched'
      BY <2>17 DEF AskResult, Dispatched, Over, Ask, Goto, Return, Told, Refused
    <3>. QED
      BY <2>17, <3>1, <3>2, <3>3, <3>4, <3>5, KeyFrames DEF AskResult, Ask, Goto,
         Return, Observed
  <2>18. ASSUME NEW p \in Asks, NEW s \in Starts, AskStop(p, s) PROVE SessionInv'
    <3>1. Begun' BY <2>18 DEF AskStop, Begun, Holds, Over, Ask, Goto
    <3>2. Reusing' BY <2>18 DEF AskStop, Reusing, Ask, Goto
    <3>3. Answered' BY <2>18 DEF AskStop, Answered, Ask, Goto
    <3>4. Asking'
      BY <2>18 DEF AskStop, Asking, Holds, Aimed, Ask, Goto, Handed, Answered, Named
    <3>5. Dispatched' BY <2>18 DEF AskStop, Dispatched, Over, Ask, Goto
    <3>. QED
      BY <2>18, <3>1, <3>2, <3>3, <3>4, <3>5, KeyFrames DEF AskStop, Ask, Goto,
         Return, Observed
  <2>19. ASSUME NEW p \in Asks, Mark(p) PROVE SessionInv'
    <3>0. MarkEffect(p) BY <2>19, MarkWrites
    <3>1. Begun'
      BY <2>19, <3>0 DEF Mark, Begun, Holds, Over, Return, Told, Refused, Goto,
         MarkEffect
    <3>2. Reusing'
      BY <2>19, <3>0 DEF Mark, Reusing, Return, Told, Refused, Goto, MarkEffect
    <3>3. Answered'
      BY <2>19, <3>0 DEF Mark, Answered, Return, Told, Refused, Goto, MarkEffect
    <3>4. Asking'
      BY <2>19, <3>0 DEF Mark, Asking, Holds, Aimed, Return, Told, Refused, Goto,
         MarkEffect
    <3>5. Dispatched'
      BY <2>19, <3>0 DEF Mark, Dispatched, Over, Return, Told, Refused, Goto, Aimed,
         Asking, Terminal, MarkEffect
    <3>6. \A t \in Starts : Reported(t)' /\ Settled(t)'
      BY <2>19, <3>0 DEF Mark, Reported, Settled, NeverRan, Return, Told, Refused,
         Goto, MarkEffect
    <3>. QED
      BY <2>19, <3>0, <3>1, <3>2, <3>3, <3>4, <3>5, <3>6, KeyFrames DEF Mark, Goto,
         Return, Observed
  <2>20. ASSUME NEW p \in Asks, Confirm(p) PROVE SessionInv'
    <3>0. ConfirmEffect(p) BY <2>20, ConfirmWrites
    <3>1. Begun'
      BY <2>20, <3>0 DEF Confirm, Begun, Holds, Over, Return, Told, Refused, Goto,
         ConfirmEffect
    <3>2. Reusing'
      BY <2>20, <3>0 DEF Confirm, Reusing, Return, Told, Refused, Goto, ConfirmEffect
    <3>3. Answered'
      BY <2>20, <3>0 DEF Confirm, Answered, Return, Told, Refused, Goto, ConfirmEffect
    <3>4. Asking'
      BY <2>20, <3>0 DEF Confirm, Asking, Holds, Aimed, Return, Told, Refused, Goto,
         ConfirmEffect
    <3>5. Dispatched'
      <4>1. UNCHANGED <<owner, agent>> /\ \A s \in Starts : pc'[s] = pc[s]
        BY <2>20 DEF Confirm, Return
      <4>. QED BY ZenonT(60), <3>0, <4>1 DEF ConfirmEffect, Dispatched, Over, Terminal
    <3>6. \A t \in Starts : Reported(t)' /\ Settled(t)'
      BY <2>20, <3>0 DEF Confirm, Reported, Settled, NeverRan, Return, Told, Refused,
         Goto, ConfirmEffect
    <3>. QED
      BY <2>20, <3>0, <3>1, <3>2, <3>3, <3>4, <3>5, <3>6, KeyFrames DEF Confirm, Goto,
         Return, Observed
  <2>21. ASSUME NEW p \in Asks, MarkFails(p) PROVE SessionInv'
    <3>1. Begun' BY <2>21 DEF MarkFails, Begun, Holds, Over, Return, Told, Refused, Goto
    <3>2. Reusing' BY <2>21 DEF MarkFails, Reusing, Return, Told, Refused, Goto
    <3>3. Answered' BY <2>21 DEF MarkFails, Answered, Return, Told, Refused, Goto
    <3>4. Asking'
      BY <2>21 DEF MarkFails, Asking, Holds, Aimed, Return, Told, Refused, Goto
    <3>5. Dispatched'
      BY <2>21 DEF MarkFails, Dispatched, Over, Return, Told, Refused, Goto
    <3>. QED
      BY <2>21, <3>1, <3>2, <3>3, <3>4, <3>5, KeyFrames DEF MarkFails, Goto, Return,
         Observed
  <2>22. ASSUME NEW p \in Asks, TellRebound(p) PROVE SessionInv'
    <3>1. Begun' BY <2>22 DEF TellRebound, Begun, Holds, Over, Return, Told, Refused, Goto
    <3>2. Reusing' BY <2>22 DEF TellRebound, Reusing, Return, Told, Refused, Goto
    <3>3. Answered' BY <2>22 DEF TellRebound, Answered, Return, Told, Refused, Goto
    <3>4. Asking'
      BY <2>22 DEF TellRebound, Asking, Holds, Aimed, Return, Told, Refused, Goto
    <3>5. Dispatched'
      BY <2>22 DEF TellRebound, Dispatched, Over, Return, Told, Refused, Goto
    <3>. QED
      BY <2>22, <3>1, <3>2, <3>3, <3>4, <3>5, KeyFrames DEF TellRebound, Goto, Return,
         Observed
  <2>23. ASSUME NEW p \in Asks, Tell(p) PROVE SessionInv'
    <3>1. Begun'
      BY <2>23 DEF Tell, Begun, Holds, Over, Return, Told, Refused, Goto, Asking, Aimed
    <3>2. Reusing' BY <2>23 DEF Tell, Reusing, Return, Told, Refused, Goto
    <3>3. Answered' BY <2>23 DEF Tell, Answered, Return, Told, Refused, Goto
    <3>4. Asking' BY <2>23 DEF Tell, Asking, Holds, Aimed, Return, Told, Refused, Goto
    <3>5. Dispatched'
      BY <2>23 DEF Tell, Dispatched, Over, Return, Told, Refused, Goto, Asking, Aimed,
         Stopped
    <3>6. \A t \in Starts : Reported(t)' /\ Settled(t)'
      BY <2>23 DEF Tell, Reported, Settled, NeverRan, Return, Told, Refused, Goto,
         Stopped
    <3>. QED
      BY <2>23, <3>1, <3>2, <3>3, <3>4, <3>5, <3>6, KeyFrames DEF Tell, Goto, Return,
         Observed
  <2>24. ASSUME NEW p \in Asks, TellFails(p) PROVE SessionInv'
    <3>1. Begun'
      BY <2>24 DEF TellFails, Begun, Holds, Over, Return, Told, Refused, Goto, Asking,
         Aimed
    <3>2. Reusing' BY <2>24 DEF TellFails, Reusing, Return, Told, Refused, Goto
    <3>3. Answered' BY <2>24 DEF TellFails, Answered, Return, Told, Refused, Goto
    <3>4. Asking'
      BY <2>24 DEF TellFails, Asking, Holds, Aimed, Return, Told, Refused, Goto
    <3>5. Dispatched'
      BY <2>24 DEF TellFails, Dispatched, Over, Return, Told, Refused, Goto, Asking,
         Aimed, Stopped
    <3>6. \A t \in Starts : Reported(t)' /\ Settled(t)'
      BY <2>24 DEF TellFails, Reported, Settled, NeverRan, Return, Told, Refused,
         Goto, Stopped
    <3>. QED
      BY <2>24, <3>1, <3>2, <3>3, <3>4, <3>5, <3>6, KeyFrames DEF TellFails, Goto,
         Return, Observed
  <2>25. ASSUME NEW p \in Asks, ConfirmFails(p) PROVE SessionInv'
    <3>1. Begun'
      BY <2>25 DEF ConfirmFails, Begun, Holds, Over, Return, Told, Refused, Goto
    <3>2. Reusing' BY <2>25 DEF ConfirmFails, Reusing, Return, Told, Refused, Goto
    <3>3. Answered' BY <2>25 DEF ConfirmFails, Answered, Return, Told, Refused, Goto
    <3>4. Asking'
      BY <2>25 DEF ConfirmFails, Asking, Holds, Aimed, Return, Told, Refused, Goto
    <3>5. Dispatched'
      BY <2>25 DEF ConfirmFails, Dispatched, Over, Return, Told, Refused, Goto
    <3>. QED
      BY <2>25, <3>1, <3>2, <3>3, <3>4, <3>5, KeyFrames DEF ConfirmFails, Goto,
         Return, Observed
  <2>26. ASSUME NEW p \in Asks, AskEnds(p) PROVE SessionInv'
    <3>1. Begun' BY <2>26 DEF AskEnds, Begun, Holds, Over, Goto
    <3>2. Reusing' BY <2>26 DEF AskEnds, Reusing, Goto
    <3>3. Asking' BY <2>26 DEF AskEnds, Asking, Holds, Aimed, Goto
    <3>4. Dispatched' BY <2>26 DEF AskEnds, Dispatched, Over, Goto
    <3>. QED
      BY <2>26, <3>1, <3>2, <3>3, <3>4, KeyFrames DEF AskEnds, Goto, Return, Observed
  <2>27. ASSUME NEW s \in Starts, Begin(s) PROVE SessionInv'
    <3>0. BeginEffect(s) BY <2>27, BeginWrites
    <3>1. Begun' BY <2>27, <3>0 DEF Begin, Begun, Holds, Over, Terminal, BeginEffect
    <3>2. Asking' BY <2>27, <3>0 DEF Begin, Asking, Holds, Aimed, BeginEffect
    <3>3. Dispatched' BY <2>27, <3>0 DEF Begin, Dispatched, Over, Terminal, BeginEffect
    <3>4. \A t \in Starts : Reported(t)' /\ Settled(t)'
      BY <2>27, <3>0 DEF Begin, Reported, Settled, NeverRan, Dispatched, BeginEffect
    <3>. QED BY <2>27, <3>0, <3>1, <3>2, <3>3, <3>4, KeyFrames DEF Begin
  <2>28. ASSUME NEW s \in Starts, BeginFails(s) PROVE SessionInv'
    <3>1. Begun' BY <2>28 DEF BeginFails, Begun, Holds, Over
    <3>2. Dispatched' BY <2>28 DEF BeginFails, Dispatched, Over
    <3>3. \A t \in Starts : Reported(t)' /\ Settled(t)'
      BY <2>28 DEF BeginFails, Reported, Settled, NeverRan
    <3>. QED BY <2>28, <3>1, <3>2, <3>3, KeyFrames DEF BeginFails
  <2>29. ASSUME NEW s \in Starts, GiveUp(s) PROVE SessionInv'
    <3>0. FailEffect(s) BY <2>29, FailWrites
    <3>1. Begun' BY <2>29, <3>0 DEF GiveUp, Begun, Holds, Over, FailEffect
    <3>2. Asking' BY <2>29, <3>0 DEF GiveUp, Asking, Holds, Aimed, FailEffect
    <3>3. Dispatched' BY <2>29, <3>0 DEF GiveUp, Dispatched, Over, Terminal, FailEffect
    <3>4. \A t \in Starts : Reported(t)' /\ Settled(t)'
      BY <2>29, <3>0 DEF GiveUp, Reported, Settled, NeverRan, Dispatched, FailEffect
    <3>. QED BY <2>29, <3>0, <3>1, <3>2, <3>3, <3>4, KeyFrames DEF GiveUp
  <2>30. ASSUME NEW s \in Starts, Send(s) PROVE SessionInv'
    <3>1. Begun' BY <2>30 DEF Send, Begun, Holds, Over
    <3>2. Dispatched' BY <2>30 DEF Send, Dispatched, Over
    <3>3. \A t \in Starts : Reported(t)' /\ Settled(t)'
      BY <2>30 DEF Send, Reported, Settled, NeverRan, Dispatched, Over, Terminal
    <3>. QED BY <2>30, <3>1, <3>2, <3>3, KeyFrames DEF Send
  <2>31. ASSUME NEW s \in Starts, NotSent(s) PROVE SessionInv'
    <3>1. Begun' BY <2>31 DEF NotSent, Begun, Holds, Over
    <3>2. Dispatched' BY <2>31 DEF NotSent, Dispatched, Over
    <3>3. \A t \in Starts : Reported(t)' /\ Settled(t)'
      BY <2>31 DEF NotSent, Reported, Settled, NeverRan, Dispatched
    <3>. QED BY <2>31, <3>1, <3>2, <3>3, KeyFrames DEF NotSent
  <2>32. ASSUME NEW s \in Starts, Hear(s) PROVE SessionInv'
    <3>1. Begun' BY <2>32 DEF Hear, Begun, Holds, Over
    <3>2. Dispatched' BY <2>32 DEF Hear, Dispatched, Over
    <3>3. \A t \in Starts : Reported(t)' /\ Settled(t)'
      BY <2>32 DEF Hear, Reported, Settled, NeverRan
    <3>. QED BY <2>32, <3>1, <3>2, <3>3, KeyFrames DEF Hear
  <2>33. ASSUME NEW s \in Starts, Lose(s) PROVE SessionInv'
    <3>1. Begun' BY <2>33 DEF Lose, Begun, Holds, Over
    <3>2. Dispatched' BY <2>33 DEF Lose, Dispatched, Over
    <3>3. \A t \in Starts : Reported(t)' /\ Settled(t)'
      BY <2>33 DEF Lose, Reported, Settled, NeverRan
    <3>. QED BY <2>33, <3>1, <3>2, <3>3, KeyFrames DEF Lose
  <2>34. ASSUME NEW s \in Starts, Report(s) PROVE SessionInv'
    <3>0. ReportEffect(s) BY <2>34, ReportWrites
    <3>1. Begun' BY <2>34, <3>0 DEF Report, Begun, Holds, Over, ReportEffect
    <3>2. Asking' BY <2>34, <3>0 DEF Report, Asking, Holds, Aimed, ReportEffect
    <3>3. Dispatched' BY <2>34, <3>0 DEF Report, Dispatched, Over, Terminal, ReportEffect
    <3>4. \A t \in Starts : Reported(t)' /\ Settled(t)'
      BY <2>34, <3>0 DEF Report, Reported, Settled, NeverRan, Dispatched, Verdict,
         Over, Terminal, ReportEffect
    <3>. QED BY <2>34, <3>0, <3>1, <3>2, <3>3, <3>4, KeyFrames DEF Report
  <2>35. ASSUME NEW s \in Starts, OwnerKilled(s) PROVE SessionInv'
    <3>1. Begun' BY <2>35 DEF OwnerKilled, Begun, Holds, Over
    <3>2. Dispatched' BY <2>35 DEF OwnerKilled, Dispatched, Over
    <3>3. \A t \in Starts : Reported(t)' /\ Settled(t)'
      BY <2>35 DEF OwnerKilled, Reported, Settled, NeverRan
    <3>. QED BY <2>35, <3>1, <3>2, <3>3, KeyFrames DEF OwnerKilled
  <2>36. ASSUME NEW s \in Starts, AgentStarts(s) PROVE SessionInv'
    <3>1. Begun' BY <2>36 DEF AgentStarts, Begun, Holds, Over, AgentMoves
    <3>2. Dispatched' BY <2>36 DEF AgentStarts, Dispatched, Over, AgentMoves
    <3>3. \A t \in Starts : Reported(t)' /\ Settled(t)'
      BY <2>36 DEF AgentStarts, Reported, Settled, NeverRan, AgentMoves
    <3>. QED BY <2>36, <3>1, <3>2, <3>3, KeyFrames DEF AgentStarts, AgentMoves
  <2>37. ASSUME NEW s \in Starts, AgentRefuses(s) PROVE SessionInv'
    <3>1. Begun' BY <2>37 DEF AgentRefuses, Begun, Holds, Over, AgentMoves
    <3>2. Dispatched' BY <2>37 DEF AgentRefuses, Dispatched, Over, AgentMoves
    <3>3. \A t \in Starts : Reported(t)' /\ Settled(t)'
      BY <2>37 DEF AgentRefuses, Reported, Settled, NeverRan, AgentMoves
    <3>. QED BY <2>37, <3>1, <3>2, <3>3, KeyFrames DEF AgentRefuses, AgentMoves
  <2>38. ASSUME NEW s \in Starts, AgentEnds(s) PROVE SessionInv'
    <3>1. Begun' BY <2>38 DEF AgentEnds, Begun, Holds, Over, AgentMoves
    <3>2. Dispatched' BY <2>38 DEF AgentEnds, Dispatched, Over, AgentMoves
    <3>3. \A t \in Starts : Reported(t)' /\ Settled(t)'
      BY <2>38 DEF AgentEnds, Reported, Settled, NeverRan, AgentMoves
    <3>. QED BY <2>38, <3>1, <3>2, <3>3, KeyFrames DEF AgentEnds, AgentMoves
  <2>39. ASSUME NEW s \in Starts, AgentStops(s) PROVE SessionInv'
    <3>1. Begun' BY <2>39 DEF AgentStops, Begun, Holds, Over, AgentMoves
    <3>2. Dispatched' BY <2>39 DEF AgentStops, Dispatched, Over, AgentMoves
    <3>3. \A t \in Starts : Reported(t)' /\ Settled(t)'
      BY <2>39 DEF AgentStops, Reported, Settled, NeverRan, AgentMoves
    <3>. QED BY <2>39, <3>1, <3>2, <3>3, KeyFrames DEF AgentStops, AgentMoves
  <2>40. ASSUME NEW s \in Starts, Clean(s) PROVE SessionInv'
    <3>0. SameEffect(s) BY <2>40, SameWrites
    <3>1. Begun' BY <2>40, <3>0 DEF Clean, Begun, Holds, Over, SameEffect
    <3>2. Asking' BY <2>40, <3>0 DEF Clean, Asking, Holds, Aimed, SameEffect
    <3>3. Dispatched' BY <2>40, <3>0 DEF Clean, Dispatched, Over, SameEffect
    <3>4. \A t \in Starts : Reported(t)' /\ Settled(t)'
      BY <2>40, <3>0 DEF Clean, Reported, Settled, NeverRan, SameEffect
    <3>. QED BY <2>40, <3>0, <3>1, <3>2, <3>3, <3>4, KeyFrames DEF Clean
  <2>41. CASE Rebind BY <2>41, KeyFrames DEF Rebind
  <2>42. CASE UNCHANGED vars BY <2>42, KeyFrames DEF vars
  <2>. QED
    BY <2>1, <2>2, <2>3, <2>4, <2>5, <2>6, <2>7, <2>8, <2>9, <2>10, <2>11, <2>12,
       <2>13, <2>14, <2>15, <2>16, <2>17, <2>18, <2>19, <2>20, <2>21, <2>22, <2>23,
       <2>24, <2>25, <2>26, <2>27, <2>28, <2>29, <2>30, <2>31, <2>32, <2>33, <2>34,
       <2>35, <2>36, <2>37, <2>38, <2>39, <2>40, <2>41, <2>42 DEF Next, StartStep,
       AskStep, OwnerStep, AgentStep
<1>3. QED BY <1>1, <1>2, Typing, PTL DEF Spec

\* One record whose parts agree.
Agrees(r) ==
    /\ r.state \in Terminal <=> r.finish # "none"
    /\ r.state = "completed" => r.finish = "exit"
    /\ r.state = "unknown" => r.finish = "error"
    /\ r.state = "running" \/ r.finish = "exit" => r.sent
    /\ r.state = "stopping" => r.stop
    /\ r.cleaned => r.state \in Terminal

\* A record that is new, ends, is stopped, is sent or is cleaned away agrees
\* with itself if it did before.
LEMMA Agreeing ==
    ASSUME NEW r \in Records, Agrees(r)
    PROVE  /\ Agrees(Absent)
           /\ \A stamped, node :
                Agrees([Absent EXCEPT !.state = "starting", !.stamped = stamped, !.node = node])
           /\ \A by, stamped : Agrees([r EXCEPT !.by = by, !.stamped = stamped])
           /\ Agrees([r EXCEPT !.state = "failed", !.finish = "error"])
           /\ \A what : r.sent =>
                Agrees([r EXCEPT !.state = Verdict(what).state, !.finish = Verdict(what).finish])
           /\ r.state \notin Terminal =>
                /\ Agrees([r EXCEPT !.state = "running", !.sent = TRUE])
                /\ Agrees([r EXCEPT !.stop = TRUE, !.state = "stopping"])
                /\ Agrees([[r EXCEPT !.stop = TRUE] EXCEPT !.state = "stopping"])
           /\ Agrees([r EXCEPT !.stop = TRUE])
           /\ Agrees([r EXCEPT !.stop = TRUE, !.state = r.state])
           /\ r.state \in Terminal => Agrees([r EXCEPT !.cleaned = TRUE])
<1> USE DEF Agrees, Records, Terminal
<1>1. /\ Agrees(Absent)
      /\ \A stamped, node :
           Agrees([Absent EXCEPT !.state = "starting", !.stamped = stamped, !.node = node])
  BY DEF Absent
<1>2. \A by, stamped : Agrees([r EXCEPT !.by = by, !.stamped = stamped])
  OBVIOUS
<1>3. Agrees([r EXCEPT !.state = "failed", !.finish = "error"])
  OBVIOUS
<1>4. ASSUME NEW what, r.sent
      PROVE  Agrees([r EXCEPT !.state = Verdict(what).state, !.finish = Verdict(what).finish])
  BY <1>4 DEF Verdict
<1>5. r.state \notin Terminal =>
        /\ Agrees([r EXCEPT !.state = "running", !.sent = TRUE])
        /\ Agrees([r EXCEPT !.stop = TRUE, !.state = "stopping"])
        /\ Agrees([[r EXCEPT !.stop = TRUE] EXCEPT !.state = "stopping"])
  OBVIOUS
<1>6. /\ Agrees([r EXCEPT !.stop = TRUE])
      /\ Agrees([r EXCEPT !.stop = TRUE, !.state = r.state])
      /\ r.state \in Terminal => Agrees([r EXCEPT !.cleaned = TRUE])
  OBVIOUS
<1>. QED BY <1>1, <1>2, <1>3, <1>4, <1>5, <1>6

\* No record contradicts itself, whichever of the processes that rewrite it
\* did so last.
LEMMA RecordsAgree == Spec => []Coherent
<1> USE DEF Coherent, Over
<1>1. Init => Coherent
  <2>1. Init => \A s \in Starts : record[s] = Absent BY DEF Init
  <2>2. /\ Absent.state = "absent" /\ Absent.finish = "none" /\ ~Absent.cleaned
        /\ "absent" \notin Terminal
    BY DEF Absent, Terminal
  <2>. QED BY <2>1, <2>2
<1>2. Typed /\ SessionInv /\ Coherent /\ [Next]_vars => Coherent'
  <2> SUFFICES ASSUME Typed, SessionInv, Coherent, [Next]_vars PROVE Coherent'
    OBVIOUS
  <2>0. /\ record \in [Starts -> Records]
        /\ \A s \in Starts : Agrees(record[s])
    BY DEF Typed, Types, DiskOK, Agrees
  <2>00. \A s \in Starts : \A r :
            /\ Agrees(r)
            /\ Written(s, r) \/ record' = [record EXCEPT ![s] = r]
            => Coherent'
    BY <2>0 DEF Agrees, Written
  <2>01. UNCHANGED record => Coherent' OBVIOUS
  <2>1. ASSUME NEW c \in Starts, Create(c) \/ ClaimHeld(c) \/ ClaimFails(c) PROVE Coherent'
    BY ZenonT(60), <2>0, <2>00, <2>1, Agreeing DEF Create, ClaimHeld, ClaimFails
  <2>2. ASSUME NEW c \in Starts, DetachFails(c) PROVE Coherent'
    BY <2>0, <2>00, <2>01, <2>2, Agreeing DEF DetachFails
  <2>3. ASSUME NEW c \in Starts, Stamp(c) PROVE Coherent'
    <3>1. PICK stamped \in Stamps :
            record' = [record EXCEPT ![c].by = "process", ![c].stamped = stamped]
      BY <2>3 DEF Stamp
    <3>2. record' = [record EXCEPT ![c] =
                        [record[c] EXCEPT !.by = "process", !.stamped = stamped]]
      BY <2>0, <3>1
    <3>. QED BY <2>0, <2>00, <3>2, Agreeing
  <2>4. ASSUME NEW p \in Asks, Mark(p) PROVE Coherent'
    <3> DEFINE s == target[p]
    <3>1. s \in Starts BY <2>4 DEF Mark, SessionInv, Aimed, Calls
    <3>2. CASE Over(s) BY <2>01, <2>4, <3>2 DEF Mark
    <3>3. CASE ~Over(s) /\ record[s].sent
      BY <2>0, <2>00, <2>4, <3>1, <3>3, Agreeing DEF Mark
    <3>4. CASE ~Over(s) /\ ~record[s].sent
      <4>1. record' = [record EXCEPT ![s] =
                [[record[s] EXCEPT !.stop = TRUE] EXCEPT !.state = "stopping"]]
        BY <2>4, <3>4 DEF Mark
      <4>. QED BY <2>0, <2>00, <3>1, <3>4, <4>1, Agreeing
    <3>. QED BY <3>2, <3>3, <3>4
  <2>5. ASSUME NEW p \in Asks, Confirm(p) PROVE Coherent'
    <3> DEFINE s == target[p]
    <3>1. s \in Starts BY <2>5 DEF Confirm, SessionInv, Aimed, Calls
    <3>2. PICK st : /\ st = IF Over(s) THEN record[s].state ELSE "stopping"
                    /\ record' = [record EXCEPT ![s].stop = TRUE, ![s].state = st]
      BY <2>5 DEF Confirm
    <3>3. record' = [record EXCEPT ![s] = [record[s] EXCEPT !.stop = TRUE, !.state = st]]
      BY <2>0, <3>1, <3>2
    <3>4. Agrees([record[s] EXCEPT !.stop = TRUE, !.state = st])
      BY <2>0, <3>1, <3>2, Agreeing
    <3>. QED BY <2>00, <3>1, <3>3, <3>4
  <2>6. ASSUME NEW s \in Starts, Begin(s) PROVE Coherent'
    <3>1. CASE Over(s) BY <2>0, <2>6, <3>1 DEF Begin, Agrees
    <3>2. CASE ~Over(s) BY <2>0, <2>00, <2>6, <3>2, Agreeing DEF Begin
    <3>. QED BY <3>1, <3>2
  <2>7. ASSUME NEW s \in Starts, GiveUp(s) PROVE Coherent'
    BY <2>0, <2>00, <2>01, <2>7, Agreeing DEF GiveUp
  <2>8. ASSUME NEW s \in Starts, Report(s) PROVE Coherent'
    <3>1. record[s].sent BY <2>8 DEF Report, SessionInv, Dispatched
    <3>2. Agrees([record[s] EXCEPT !.state = Verdict(heard[s]).state,
                                   !.finish = Verdict(heard[s]).finish])
      BY <2>0, <3>1, Agreeing
    <3>. QED BY <2>00, <2>01, <2>8, <3>2 DEF Report
  <2>9. ASSUME NEW s \in Starts, Clean(s) PROVE Coherent'
    <3>1. record' = [record EXCEPT ![s] = [record[s] EXCEPT !.cleaned = TRUE]]
      BY <2>0, <2>9 DEF Clean
    <3>2. record[s].state \in Terminal BY <2>9 DEF Clean, Terminal
    <3>. QED BY <2>0, <2>00, <3>1, <3>2, Agreeing
  <2>10. ASSUME NEW c \in Starts,
               \/ FindKey(c) \/ RefuseStart(c) \/ ClaimKey(c) \/ Detach(c)
               \/ StampFails(c) \/ Reuse(c) \/ ServerEnds(c) \/ ServerKilled(c)
         PROVE Coherent'
    BY <2>01, <2>10 DEF FindKey, RefuseStart, ClaimKey, Detach, StampFails, Reuse,
       ServerEnds, ServerKilled, disk
  <2>11. ASSUME NEW p \in Calls, CheckOwner(p) \/ Reread(p) PROVE Coherent'
    BY <2>01, <2>11 DEF CheckOwner, Reread, disk
  <2>12. ASSUME NEW p \in Asks, NEW s \in Starts,
               AskStatus(p, s) \/ AskResult(p, s) \/ AskStop(p, s)
         PROVE Coherent'
    BY <2>01, <2>12 DEF AskStatus, AskResult, AskStop, Ask, disk
  <2>13. ASSUME NEW p \in Asks,
               \/ MarkFails(p) \/ Tell(p) \/ TellRebound(p) \/ TellFails(p)
               \/ ConfirmFails(p) \/ AskEnds(p)
         PROVE Coherent'
    BY <2>01, <2>13 DEF MarkFails, Tell, TellRebound, TellFails, ConfirmFails, AskEnds,
       disk
  <2>14. ASSUME NEW s \in Starts,
               \/ BeginFails(s) \/ Send(s) \/ NotSent(s) \/ Hear(s) \/ Lose(s)
               \/ OwnerKilled(s)
         PROVE Coherent'
    BY <2>01, <2>14 DEF BeginFails, Send, NotSent, Hear, Lose, OwnerKilled, disk
  <2>15. ASSUME NEW s \in Starts, AgentStep(s) PROVE Coherent'
    BY <2>01, <2>15 DEF AgentStep, AgentStarts, AgentRefuses, AgentEnds, AgentStops,
       AgentMoves, disk
  <2>16. CASE Rebind \/ UNCHANGED vars BY <2>01, <2>16 DEF Rebind, vars, disk
  <2>. QED
    BY <2>1, <2>2, <2>3, <2>4, <2>5, <2>6, <2>7, <2>8, <2>9, <2>10, <2>11, <2>12,
       <2>13, <2>14, <2>15, <2>16 DEF Next, StartStep, AskStep, OwnerStep
<1>3. QED BY <1>1, <1>2, Typing, SessionsKept, PTL DEF Spec

\* Every variable keeps its type, and no record contradicts itself, whatever
\* faults are met.
THEOREM SessionTyping == Spec => []TypeOK
<1>1. Typed /\ Coherent => TypeOK BY DEF Typed, TypeOK
<1>. QED BY <1>1, Typing, RecordsAgree, PTL

\* However many starts are made with one start_key, at once, after a crash or a
\* failed write, the Agent has at most one of their sessions.
THEOREM OneRun == Spec => []OneRunPerKey
<1>1. SessionInv => OneRunPerKey BY DEF SessionInv, Begun, Holds, OneRunPerKey
<1>. QED BY <1>1, SessionsKept, PTL

\* Every answer to a start with one start_key, be it an error, names the same
\* session.
THEOREM AnswersNameOne == Spec => []AnswersAgree
<1>1. SessionInv => AnswersAgree BY DEF SessionInv, Answered, AnswersAgree
<1>. QED BY <1>1, SessionsKept, PTL

\* "completed" and "failed" are on record only of a session that has nothing
\* running or on its way on the Agent.
THEOREM SettledForGood == Spec => []SettledIsTrue
<1>1. SessionInv => SettledIsTrue BY DEF SessionInv, Settled, NeverRan, SettledIsTrue
<1>. QED BY <1>1, SessionsKept, PTL

-----------------------------------------------------------------------------
\* The steps that change a record, a key or what the Agent does.
LEMMA Movers ==
    ASSUME [Next]_vars
    PROVE  \/ UNCHANGED <<record, holder, agent>>
           \/ \E s \in Starts :
                \/ Create(s) \/ ClaimHeld(s) \/ ClaimFails(s) \/ ClaimKey(s)
                \/ DetachFails(s) \/ GiveUp(s) \/ Stamp(s) \/ Clean(s)
                \/ Begin(s) \/ Send(s) \/ Report(s) \/ AgentStep(s)
           \/ \E p \in Asks : Mark(p) \/ Tell(p) \/ TellFails(p) \/ Confirm(p)
<1> USE DEF disk, runVars
<1>1. ASSUME NEW c \in Starts, StartStep(c)
      PROVE  \/ UNCHANGED <<record, holder, agent>>
             \/ Create(c) \/ ClaimHeld(c) \/ ClaimFails(c) \/ ClaimKey(c)
             \/ DetachFails(c) \/ Stamp(c)
  BY <1>1 DEF StartStep, FindKey, RefuseStart, Detach, StampFails, Reuse, ServerEnds,
              ServerKilled
<1>2. ASSUME NEW p \in Calls, CheckOwner(p) \/ Reread(p)
      PROVE  UNCHANGED <<record, holder, agent>>
  BY <1>2 DEF CheckOwner, Reread
<1>3. ASSUME NEW p \in Asks, AskStep(p)
      PROVE  \/ UNCHANGED <<record, holder, agent>>
             \/ Mark(p) \/ Tell(p) \/ TellFails(p) \/ Confirm(p)
  BY <1>3 DEF AskStep, AskStatus, AskResult, AskStop, Ask, MarkFails, TellRebound,
              ConfirmFails, AskEnds
<1>4. ASSUME NEW s \in Starts, OwnerStep(s)
      PROVE  \/ UNCHANGED <<record, holder, agent>>
             \/ Begin(s) \/ GiveUp(s) \/ Send(s) \/ Report(s)
  BY <1>4 DEF OwnerStep, BeginFails, NotSent, Hear, Lose, OwnerKilled
<1>5. Rebind \/ UNCHANGED vars => UNCHANGED <<record, holder, agent>> BY DEF Rebind, vars
<1>. QED BY <1>1, <1>2, <1>3, <1>4, <1>5 DEF Next

\* What a record says of an end, a stop and a dispatch stays.
Kept(s) ==
    /\ Over(s) => /\ record'[s].state = record[s].state
                  /\ record'[s].finish = record[s].finish
    /\ record[s].stop => record'[s].stop
    /\ record[s].sent => record'[s].sent

\* No step takes back what is on record, and only the owner that begins a run
\* records that it was sent.
LEMMA NeverBack ==
    ASSUME Typed, SessionInv, [Next]_vars
    PROVE  \A s \in Starts : Kept(s) /\ (record'[s].sent => record[s].sent \/ Begin(s))
<1> USE DEF Kept
<1>1. CASE \/ UNCHANGED <<record, holder, agent>>
          \/ \E s \in Starts : ClaimKey(s) \/ Send(s) \/ AgentStep(s)
          \/ \E p \in Asks : Tell(p) \/ TellFails(p)
  BY <1>1 DEF Over, ClaimKey, Send, AgentStep, AgentStarts, AgentRefuses, AgentEnds,
              AgentStops, AgentMoves, Tell, TellFails, disk
<1>2. ASSUME NEW c \in Starts, Create(c) \/ ClaimHeld(c) \/ ClaimFails(c)
      PROVE  \A s \in Starts : Kept(s) /\ (record'[s].sent => record[s].sent)
  BY <1>2, FreshWrites DEF FreshEffect, Over
<1>3. ASSUME NEW s \in Starts, DetachFails(s) \/ GiveUp(s)
      PROVE  \A t \in Starts : Kept(t) /\ (record'[t].sent => record[t].sent)
  BY <1>3, FailWrites DEF FailEffect, Over
<1>4. ASSUME NEW s \in Starts, Stamp(s) \/ Clean(s)
      PROVE  \A t \in Starts : Kept(t) /\ (record'[t].sent => record[t].sent)
  BY <1>4, SameWrites DEF SameEffect, Over
<1>5. ASSUME NEW p \in Asks, Mark(p)
      PROVE  \A s \in Starts : Kept(s) /\ (record'[s].sent => record[s].sent)
  BY <1>5, MarkWrites DEF MarkEffect, Over
<1>6. ASSUME NEW p \in Asks, Confirm(p)
      PROVE  \A s \in Starts : Kept(s) /\ (record'[s].sent => record[s].sent)
  BY <1>6, ConfirmWrites DEF ConfirmEffect, Over
<1>7. ASSUME NEW s \in Starts, Begin(s)
      PROVE  \A t \in Starts : Kept(t) /\ (record'[t].sent => record[t].sent \/ Begin(t))
  BY <1>7, BeginWrites DEF BeginEffect, Over
<1>8. ASSUME NEW s \in Starts, Report(s)
      PROVE  \A t \in Starts : Kept(t) /\ (record'[t].sent => record[t].sent)
  BY <1>8, ReportWrites DEF ReportEffect, Over
<1>. QED BY <1>1, <1>2, <1>3, <1>4, <1>5, <1>6, <1>7, <1>8, Movers

\* An end, a stop and a dispatch that are on record stay there, whichever process
\* rewrites the record next.
THEOREM NothingTakenBack == Spec => NothingIsTakenBack
<1>1. Typed /\ SessionInv /\ [Next]_vars => \A s \in Starts : Kept(s) BY NeverBack
<1>. QED BY <1>1, Typing, SessionsKept, PTL DEF Spec, NothingIsTakenBack, Kept

-----------------------------------------------------------------------------
\* The other sessions stay where they are; what becomes of this one.
Elsewhere(s) == \A t \in Starts \ {s} :
    Stage(t)' = Stage(t) /\ Work(t)' = Work(t) /\ Said(t)' = Said(t)

Still(s) == Stage(s)' = Stage(s) /\ Work(s)' = Work(s) /\ Said(s)' = Said(s)

SendStep(s) == /\ Stage(s) = "idle" /\ Holds(s) /\ Stage(s)' = "sent"
               /\ Work(s)' = Work(s) /\ Said(s)' = Said(s)
BarStep(s) == /\ Stage(s) = "idle" /\ Stage(s)' = "barred"
              /\ Work(s)' = Work(s) /\ Said(s)' = Said(s)
BeginStep(s) == /\ Stage(s) = "sent" /\ Work(s) = "none" /\ Said(s) # "settled"
                /\ Work(s)' = "going" /\ Stage(s)' = Stage(s) /\ Said(s)' = Said(s)
CeaseStep(s) == /\ Work(s) = "going" /\ Work(s)' = "over"
                /\ Stage(s)' = Stage(s) /\ Said(s)' = Said(s)
SettleStep(s) == /\ Said(s) = "open" /\ Work(s) # "going" /\ Said(s)' = "settled"
                 /\ Stage(s)' = (IF Stage(s) = "idle" THEN "barred" ELSE Stage(s))
                 /\ Work(s)' = Work(s)
LoseStep(s) == /\ Said(s) = "open" /\ Stage(s) = "sent" /\ Said(s)' = "unknown"
               /\ Stage(s)' = Stage(s) /\ Work(s)' = Work(s)

\* A step that moves one session, as the promise lets it move, is a step of
\* the promise.
LEMMA OneSession ==
    ASSUME NEW s \in Starts, Elsewhere(s), UNCHANGED holder,
           \/ Still(s) \/ SendStep(s) \/ BarStep(s) \/ BeginStep(s) \/ CeaseStep(s)
           \/ SettleStep(s) \/ LoseStep(s)
    PROVE  [Promise!Next]_(Promise!promised)
<1> DEFINE St == [t \in Starts |-> Stage(t)]
           Wo == [t \in Starts |-> Work(t)]
           Ve == [t \in Starts |-> Said(t)]
<1>1. /\ St' = [St EXCEPT ![s] = Stage(s)']
      /\ Wo' = [Wo EXCEPT ![s] = Work(s)']
      /\ Ve' = [Ve EXCEPT ![s] = Said(s)']
  BY DEF Elsewhere
<1>2. /\ Stage(s)' = Stage(s) => UNCHANGED St
      /\ Work(s)' = Work(s) => UNCHANGED Wo
      /\ Said(s)' = Said(s) => UNCHANGED Ve
  BY <1>1
<1>3. St[s] = Stage(s) /\ Wo[s] = Work(s) /\ Ve[s] = Said(s)
  OBVIOUS
<1> HIDE DEF St, Wo, Ve
<1>4. CASE Still(s) BY <1>2, <1>4 DEF Still, Promise!promised, St, Wo, Ve
<1>5. CASE SendStep(s)
  <2>1. Promise!Send(s)
    BY <1>1, <1>2, <1>3, <1>5 DEF SendStep, Promise!Send, Holds, St, Wo, Ve
  <2>. QED BY <2>1 DEF Promise!Next
<1>6. CASE BarStep(s)
  <2>1. Promise!Bar(s) BY <1>1, <1>2, <1>3, <1>6 DEF BarStep, Promise!Bar, St, Wo, Ve
  <2>. QED BY <2>1 DEF Promise!Next
<1>7. CASE BeginStep(s)
  <2>1. Promise!Begin(s)
    BY <1>1, <1>2, <1>3, <1>7 DEF BeginStep, Promise!Begin, St, Wo, Ve
  <2>. QED BY <2>1 DEF Promise!Next
<1>8. CASE CeaseStep(s)
  <2>1. Promise!Cease(s)
    BY <1>1, <1>2, <1>3, <1>8 DEF CeaseStep, Promise!Cease, St, Wo, Ve
  <2>. QED BY <2>1 DEF Promise!Next
<1>9. CASE SettleStep(s)
  <2>1. Promise!Settle(s)
    BY <1>1, <1>2, <1>3, <1>9 DEF SettleStep, Promise!Settle, St, Wo, Ve
  <2>. QED BY <2>1 DEF Promise!Next
<1>10. CASE LoseStep(s)
  <2>1. Promise!LoseTrack(s)
    BY <1>1, <1>2, <1>3, <1>10 DEF LoseStep, Promise!LoseTrack, St, Wo, Ve
  <2>. QED BY <2>1 DEF Promise!Next
<1>. QED BY <1>4, <1>5, <1>6, <1>7, <1>8, <1>9, <1>10


\* The records, keys, owners and calls keep what SessionPromise promises: every
\* step is one of its steps or a stutter.
THEOREM SessionsKeepPromise == Spec => KeepsPromise
<1> USE StartsAssumption, KeysAssumption DEF Stage, Work, Said
<1>1. Init => Promise!Init BY DEF Init, Promise!Init, Absent, Over, Terminal
<1>2. Typed /\ SessionInv /\ [Next]_vars => [Promise!Next]_(Promise!promised)
  <2> SUFFICES ASSUME Typed, SessionInv, [Next]_vars
               PROVE  [Promise!Next]_(Promise!promised)
    OBVIOUS
  <2>0. /\ Aimed /\ Begun /\ Asking /\ Dispatched
        /\ \A s \in Starts : Reported(s) /\ Settled(s)
        /\ record \in [Starts -> Records] /\ RunsOK
        /\ holder \in [Keys -> Starts \cup {NoSession}]
    BY DEF Typed, Types, DiskOK, SessionInv
  <2>1. CASE UNCHANGED <<record, holder, agent>> BY <2>1 DEF Promise!promised, Over
  <2>2. ASSUME NEW s \in Starts, Create(s) \/ ClaimHeld(s) \/ ClaimFails(s)
        PROVE  [Promise!Next]_(Promise!promised)
    <3>1. FreshEffect(s) /\ UNCHANGED <<holder, agent>>
      BY <2>2, FreshWrites DEF Create, ClaimHeld, ClaimFails, runVars
    <3>2. Elsewhere(s) /\ Still(s)
      BY <3>1 DEF FreshEffect, Elsewhere, Still, Over, Terminal
    <3>. QED BY <3>1, <3>2, OneSession
  <2>3. ASSUME NEW s \in Starts, ClaimKey(s)
        PROVE  [Promise!Next]_(Promise!promised)
    <3>1. Promise!Name(s) BY <2>3 DEF ClaimKey, runVars, Promise!Name, Over
    <3>. QED BY <3>1 DEF Promise!Next
  <2>4. ASSUME NEW s \in Starts, DetachFails(s) \/ GiveUp(s)
        PROVE  [Promise!Next]_(Promise!promised)
    <3>1. FailEffect(s) /\ UNCHANGED <<holder, agent>>
      BY <2>4, FailWrites DEF DetachFails, GiveUp, runVars
    <3>2. ~record[s].sent /\ agent[s] = "none"
      BY <2>0, <2>4 DEF DetachFails, GiveUp, Dispatched
    <3>3. Elsewhere(s) /\ (Still(s) \/ SettleStep(s))
      BY <3>1, <3>2 DEF FailEffect, Elsewhere, Still, SettleStep, Over, Terminal
    <3>. QED BY <3>1, <3>3, OneSession
  <2>5. ASSUME NEW s \in Starts, Stamp(s) \/ Clean(s)
        PROVE  [Promise!Next]_(Promise!promised)
    <3>1. SameEffect(s) /\ UNCHANGED <<holder, agent>>
      BY <2>5, SameWrites DEF Stamp, Clean, runVars
    <3>2. Elsewhere(s) /\ Still(s) BY <3>1 DEF SameEffect, Elsewhere, Still, Over
    <3>. QED BY <3>1, <3>2, OneSession
  <2>6. ASSUME NEW p \in Asks, Mark(p)
        PROVE  [Promise!Next]_(Promise!promised)
    <3>1. MarkEffect(p) /\ UNCHANGED <<holder, agent>>
      BY <2>6, MarkWrites DEF Mark, runVars
    <3>2. PICK s \in Starts : s = target[p] BY <3>1 DEF MarkEffect
    <3>3. Elsewhere(s) /\ (Still(s) \/ BarStep(s))
      BY <3>1, <3>2 DEF MarkEffect, Elsewhere, Still, BarStep, Over, Terminal
    <3>. QED BY <3>1, <3>3, OneSession
  <2>7. ASSUME NEW p \in Asks, Confirm(p)
        PROVE  [Promise!Next]_(Promise!promised)
    <3>1. ConfirmEffect(p) /\ UNCHANGED <<holder, agent>>
      BY <2>7, ConfirmWrites DEF Confirm, runVars
    <3>2. PICK s \in Starts : s = target[p] BY <3>1 DEF ConfirmEffect
    <3>3. Elsewhere(s) /\ Still(s)
      BY <3>1, <3>2 DEF ConfirmEffect, Elsewhere, Still, Over, Terminal
    <3>. QED BY <3>1, <3>3, OneSession
  <2>8. ASSUME NEW s \in Starts, Begin(s)
        PROVE  [Promise!Next]_(Promise!promised)
    <3>1. BeginEffect(s) /\ UNCHANGED <<holder, agent>> BY <2>8, BeginWrites DEF Begin
    <3>2. ~record[s].sent /\ agent[s] = "none" /\ Holds(s)
      BY <2>0, <2>8 DEF Begin, Dispatched, Begun
    <3>3. Elsewhere(s) /\ (Still(s) \/ SettleStep(s) \/ SendStep(s))
      BY <3>1, <3>2 DEF BeginEffect, Elsewhere, Still, SettleStep, SendStep, Over,
         Terminal
    <3>. QED BY <3>1, <3>3, OneSession
  <2>9. ASSUME NEW s \in Starts, Report(s)
        PROVE  [Promise!Next]_(Promise!promised)
    <3>1. ReportEffect(s) /\ UNCHANGED <<holder, agent>> BY <2>9, ReportWrites DEF Report
    <3>2. /\ record[s].sent /\ Reported(s) /\ owner[s] = "reporting"
      BY <2>0, <2>9 DEF Report, Dispatched
    <3>3. Elsewhere(s) /\ (Still(s) \/ SettleStep(s) \/ LoseStep(s))
      BY <3>1, <3>2 DEF ReportEffect, Reported, NeverRan, Verdict, Elsewhere, Still,
                        SettleStep, LoseStep, Over, Terminal
    <3>. QED BY <3>1, <3>3, OneSession
  <2>10. ASSUME NEW s \in Starts, Send(s) \/ AgentStep(s)
         PROVE  [Promise!Next]_(Promise!promised)
    <3>1. UNCHANGED <<record, holder>> /\ \A t \in Starts \ {s} : agent'[t] = agent[t]
      BY <2>0, <2>10 DEF RunsOK, Send, AgentStep, AgentStarts, AgentRefuses,
         AgentEnds, AgentStops,
                   AgentMoves, disk
    <3>2. Elsewhere(s) BY <3>1 DEF Elsewhere, Over
    <3>3. CASE Send(s)
      <4>1. agent[s] \in {"none", "fenced"} /\ agent'[s] \in {"asked", "fenced"}
        BY <2>0, <3>3 DEF Send, Dispatched, RunsOK
      <4>. QED BY <3>1, <3>2, <4>1, OneSession DEF Still, Over
    <3>4. CASE AgentStarts(s)
      <4>1. agent[s] = "asked" /\ agent'[s] = "running"
        BY <2>0, <3>4 DEF AgentStarts, AgentMoves, RunsOK
      <4>2. record[s].sent /\ record[s].state \notin {"completed", "failed"}
        BY <2>0, <4>1 DEF Dispatched, Settled, NeverRan
      <4>. QED BY <3>1, <3>2, <4>1, <4>2, OneSession DEF BeginStep, Over
    <3>5. CASE AgentRefuses(s) \/ AgentEnds(s) \/ AgentStops(s)
      <4>1. \/ agent[s] = "asked" /\ agent'[s] = "refused"
            \/ agent[s] \in {"running", "stopping"} /\ agent'[s] = "over"
        BY <2>0, <3>5 DEF AgentRefuses, AgentEnds, AgentStops, AgentMoves, RunsOK
      <4>. QED BY <3>1, <3>2, <4>1, OneSession DEF Still, CeaseStep, Over
    <3>. QED BY <2>10, <3>3, <3>4, <3>5 DEF AgentStep
  <2>11. ASSUME NEW p \in Asks, Tell(p) \/ TellFails(p)
         PROVE  [Promise!Next]_(Promise!promised)
    <3>1. PICK s \in Starts : s = target[p]
      BY <2>0, <2>11 DEF Tell, TellFails, Aimed, Calls
    <3>2. PICK now \in Stopped(s) \cup {agent[s]} : agent' = [agent EXCEPT ![s] = now]
      BY <2>0, <2>11, <3>1 DEF Tell, TellFails, RunsOK
    <3>3. UNCHANGED <<record, holder>> BY <2>11 DEF Tell, TellFails, disk
    <3>4. /\ \A t \in Starts \ {s} : agent'[t] = agent[t]
          /\ \/ agent'[s] = agent[s]
             \/ agent[s] \in {"none", "asked"} /\ agent'[s] = "fenced"
             \/ agent[s] = "running" /\ agent'[s] \in {"stopping", "over"}
      BY <2>0, <3>1, <3>2 DEF Stopped, RunsOK
    <3>5. Elsewhere(s) /\ (Still(s) \/ CeaseStep(s))
      BY <3>3, <3>4 DEF Elsewhere, Still, CeaseStep, Over
    <3>. QED BY <3>3, <3>5, OneSession
  <2>. QED BY <2>1, <2>2, <2>3, <2>4, <2>5, <2>6, <2>7, <2>8, <2>9, <2>10, <2>11, Movers
<1>. QED BY <1>1, <1>2, Typing, SessionsKept, PTL DEF Spec, KeepsPromise, Promise!Spec
=============================================================================
