-------------------------- MODULE RpcAnswerProofs --------------------------
(***************************************************************************)
(* Proofs that what RpcSession answered stays true: a stop that was        *)
(* answered has taken, and a session that was called "unknown" for want of *)
(* its process has not ended after all.  What has to be shown inductive    *)
(* looks at the Agent, at the record, and at what a call has read of it,   *)
(* and no step of any process takes it back.  The lemmas before say who    *)
(* moves what.                                                             *)
(***************************************************************************)
EXTENDS RpcSessionProofs


\* What a write leaves alone: where the session is bound, and whose it is.
SameOwner(r, q) == q.node = r.node /\ q.by = r.by /\ q.stamped = r.stamped

\* The fields of an updated record that are neither its state nor its stop.
LEMMA OtherFields ==
    ASSUME NEW r \in Records
    PROVE  /\ \A st, fin : SameOwner(r, [r EXCEPT !.state = st, !.finish = fin])
           /\ SameOwner(r, [r EXCEPT !.stop = TRUE])
           /\ \A st : SameOwner(r, [r EXCEPT !.stop = TRUE, !.state = st])
           /\ SameOwner(r, [[r EXCEPT !.stop = TRUE] EXCEPT !.state = "stopping"])
           /\ SameOwner(r, [r EXCEPT !.state = "running", !.sent = TRUE])
           /\ SameOwner(r, [r EXCEPT !.cleaned = TRUE])
           /\ \A b : LET q == [r EXCEPT !.by = "process", !.stamped = b]
                     IN  q.node = r.node /\ q.by = "process" /\ q.stamped = b
  BY DEF Records, SameOwner

\* Only the start writes whose a session is, and never again once its key is its
\* own but for the pid of the owner it started.
LEMMA OwnersKept ==
    ASSUME Typed, SessionInv, [Next]_vars, NEW s \in Starts
    PROVE  \/ SameOwner(record[s], record'[s])
           \/ /\ Create(s) \/ ClaimHeld(s) \/ ClaimFails(s)
              /\ record'[s].by = "server"
           \/ /\ Stamp(s)
              /\ record'[s].node = record[s].node /\ record'[s].by = "process"
              /\ record'[s].stamped \in Stamps
<1> USE DEF Typed, Types, DiskOK, RunsOK, Calls
<1>1. \A t \in Starts : record[t] \in Records /\ SameOwner(record[t], record[t])
  BY DEF SameOwner
<1>2. CASE UNCHANGED <<record, holder, agent>>
  BY <1>1, <1>2
<1>3. ASSUME NEW t \in Starts, ClaimKey(t) \/ Send(t) \/ AgentStep(t)
      PROVE  SameOwner(record[s], record'[s])
  BY <1>1, <1>3 DEF ClaimKey, Send, AgentStep, AgentStarts, AgentRefuses, AgentEnds,
     AgentStops, AgentMoves, disk
<1>4. ASSUME NEW p \in Asks, Tell(p) \/ TellFails(p)
      PROVE  SameOwner(record[s], record'[s])
  BY <1>1, <1>4 DEF Tell, TellFails, disk
<1>5. ASSUME NEW t \in Starts, Create(t)
      PROVE  SameOwner(record[s], record'[s]) \/ (Create(s) /\ record'[s].by = "server")
  <2>1. CASE s = t
    BY <1>1, <1>5, <2>1 DEF Create, Absent
  <2>2. CASE s # t
    BY <1>1, <1>5, <2>2 DEF Create
  <2>. QED
    BY <2>1, <2>2
<1>6. ASSUME NEW t \in Starts, ClaimHeld(t) \/ ClaimFails(t)
      PROVE  \/ SameOwner(record[s], record'[s])
             \/ (ClaimHeld(s) \/ ClaimFails(s)) /\ record'[s].by = "server"
  BY <1>1, <1>6 DEF ClaimHeld, ClaimFails, Written, Absent
<1>7. ASSUME NEW t \in Starts, DetachFails(t) \/ GiveUp(t)
      PROVE  SameOwner(record[s], record'[s])
  <2> DEFINE new == [record[t] EXCEPT !.state = "failed", !.finish = "error"]
  <2>1. record'[s] \in {record[s], new} /\ (s # t => record'[s] = record[s])
    BY <1>7 DEF DetachFails, GiveUp, Written
  <2>2. SameOwner(record[t], new)
    BY <1>1, OtherFields
  <2> HIDE DEF new
  <2>. QED
    BY <1>1, <2>1, <2>2
<1>8. ASSUME NEW t \in Starts, Clean(t)
      PROVE  SameOwner(record[s], record'[s])
  BY <1>1, <1>8, OtherFields DEF Clean
<1>9. ASSUME NEW t \in Starts, Stamp(t)
      PROVE  \/ SameOwner(record[s], record'[s])
             \/ /\ Stamp(s)
                /\ record'[s].node = record[s].node /\ record'[s].by = "process"
                /\ record'[s].stamped \in Stamps
  <2> DEFINE new(b) == [record[t] EXCEPT !.by = "process", !.stamped = b]
  <2>1. PICK b \in Stamps : record' = [record EXCEPT ![t] = new(b)]
    BY <1>1, <1>9 DEF Stamp
  <2>2. new(b).node = record[t].node /\ new(b).by = "process" /\ new(b).stamped = b
    BY <1>1, OtherFields
  <2> HIDE DEF new
  <2>. QED
    BY <1>1, <1>9, <2>1, <2>2
<1>10. ASSUME NEW t \in Starts, Begin(t)
       PROVE  SameOwner(record[s], record'[s])
  <2> DEFINE unsent == [record[t] EXCEPT !.state = "failed", !.finish = "error"]
             sent == [record[t] EXCEPT !.state = "running", !.sent = TRUE]
  <2>1. record'[s] \in {record[s], unsent, sent} /\ (s # t => record'[s] = record[s])
    BY <1>10 DEF Begin
  <2>2. SameOwner(record[t], unsent) /\ SameOwner(record[t], sent)
    BY <1>1, OtherFields
  <2> HIDE DEF unsent, sent
  <2>. QED
    BY <1>1, <2>1, <2>2
<1>11. ASSUME NEW t \in Starts, Report(t)
       PROVE  SameOwner(record[s], record'[s])
  <2> DEFINE end == Verdict(heard[t])
             new == [record[t] EXCEPT !.state = end.state, !.finish = end.finish]
  <2>1. record'[s] \in {record[s], new} /\ (s # t => record'[s] = record[s])
    BY <1>11 DEF Report, Written
  <2>2. SameOwner(record[t], new)
    BY <1>1, OtherFields
  <2> HIDE DEF new
  <2>. QED
    BY <1>1, <2>1, <2>2
<1>12. ASSUME NEW p \in Asks, Mark(p) \/ Confirm(p)
       PROVE  SameOwner(record[s], record'[s])
  <2>0. target[p] \in Starts
    BY <1>12 DEF Mark, Confirm, Aimed
  <2> DEFINE t == target[p]
             st == IF Over(t) THEN record[t].state ELSE "stopping"
             marked == [record[t] EXCEPT !.stop = TRUE]
             barred == [marked EXCEPT !.state = "stopping"]
             new == [record[t] EXCEPT !.stop = TRUE, !.state = st]
  <2>1. /\ record'[s] \in {record[s], marked, barred, new}
        /\ s # t => record'[s] = record[s]
    BY <1>12, <2>0 DEF Mark, Confirm
  <2>2. /\ SameOwner(record[t], marked) /\ SameOwner(record[t], barred)
        /\ SameOwner(record[t], new)
    BY <1>1, <2>0, OtherFields
  <2> HIDE DEF marked, barred, new
  <2>. QED
    BY <1>1, <2>1, <2>2
<1>. QED
  BY <1>2, <1>3, <1>4, <1>5, <1>6, <1>7, <1>8, <1>9, <1>10, <1>11, <1>12, Movers

\* A key is held for good.
LEMMA HeldForGood ==
    ASSUME Typed, SessionInv, [Next]_vars, NEW s \in Starts, Holds(s)
    PROVE  Holds(s)'
<1> USE DEF Typed, Types, DiskOK, disk, Holds
<1>1. ASSUME NEW c \in Starts, ClaimKey(c) PROVE Holds(s)'
  BY <1>1, StartsAssumption, KeysAssumption DEF ClaimKey
<1>2. CASE UNCHANGED holder
  BY <1>2
<1>3. UNCHANGED holder \/ \E c \in Starts : ClaimKey(c)
  BY Movers DEF Create, ClaimHeld, ClaimFails, DetachFails, GiveUp, Stamp, Clean, Begin,
     Send, Report, AgentStep, AgentStarts, AgentRefuses, AgentEnds, AgentStops,
     AgentMoves, Mark, Tell, TellFails, Confirm
<1>. QED
  BY <1>1, <1>2, <1>3

\* The steps that move the owner of a run, and where it has sent it.
LEMMA OwnerMoves ==
    ASSUME Typed, SessionInv, [Next]_vars, NEW s \in Starts
    PROVE  \/ UNCHANGED <<owner[s], ranOn[s]>>
           \/ Detach(s) /\ owner'[s] = "begun" /\ UNCHANGED ranOn[s]
           \/ /\ OwnerStep(s) /\ ~Send(s)
              /\ owner[s] \notin {"none", "ended"}
              /\ owner'[s] \in {"unsent", "sending", "reporting", "ended"}
              /\ owner'[s] \in {"unsent", "sending"} => owner[s] = "begun"
              /\ UNCHANGED ranOn[s]
           \/ Send(s) /\ owner'[s] = "waiting"
<1> USE DEF Typed, Types, RunsOK, runVars
<1>1. ASSUME NEW c \in Starts, StartStep(c)
      PROVE  \/ UNCHANGED <<owner[s], ranOn[s]>>
             \/ Detach(s) /\ owner'[s] = "begun" /\ UNCHANGED ranOn[s]
  BY <1>1 DEF StartStep, FindKey, RefuseStart, Create, ClaimKey, ClaimHeld, ClaimFails,
     Detach, DetachFails, Stamp, StampFails, Reuse, ServerEnds, ServerKilled
<1>2. ASSUME NEW p \in Calls, CheckOwner(p) \/ Reread(p)
      PROVE  UNCHANGED <<owner[s], ranOn[s]>>
  BY <1>2 DEF CheckOwner, Reread
<1>3. ASSUME NEW p \in Asks, AskStep(p)
      PROVE  UNCHANGED <<owner[s], ranOn[s]>>
  BY <1>3 DEF AskStep, AskStatus, AskResult, AskStop, Ask, Mark, MarkFails, Tell,
     TellRebound, TellFails, Confirm, ConfirmFails, AskEnds
<1>4. ASSUME NEW t \in Starts, OwnerStep(t)
      PROVE  \/ UNCHANGED <<owner[s], ranOn[s]>>
             \/ /\ OwnerStep(s) /\ ~Send(s)
                /\ owner[s] \notin {"none", "ended"}
                /\ owner'[s] \in {"unsent", "sending", "reporting", "ended"}
                /\ owner'[s] \in {"unsent", "sending"} => owner[s] = "begun"
                /\ UNCHANGED ranOn[s]
             \/ Send(s) /\ owner'[s] = "waiting"
  <2>1. CASE s # t
    BY <1>4, <2>1 DEF OwnerStep, Begin, BeginFails, GiveUp, Send, NotSent, Hear, Lose,
       Report, OwnerKilled
  <2>2. CASE s = t /\ Send(s)
    BY <2>2 DEF Send
  <2>3. CASE s = t /\ ~Send(s)
    <3>1. owner'[s] \in {"unsent", "sending", "reporting", "ended"} /\ UNCHANGED ranOn[s]
      BY <1>4, <2>3 DEF OwnerStep, Begin, BeginFails, GiveUp, NotSent, Hear, Lose,
         Report, OwnerKilled
    <3>2. owner[s] \notin {"none", "ended"} /\ (owner'[s] \in {"unsent", "sending"} => owner[s] = "begun")
      BY <1>4, <2>3 DEF OwnerStep, Begin, BeginFails, GiveUp, NotSent, Hear, Lose,
         Report, OwnerKilled
    <3>. QED
      BY <1>4, <2>3, <3>1, <3>2
  <2>. QED
    BY <2>1, <2>2, <2>3
<1>5. ASSUME NEW t \in Starts, AgentStep(t) \/ Clean(t)
      PROVE  UNCHANGED <<owner[s], ranOn[s]>>
  BY <1>5 DEF AgentStep, AgentStarts, AgentRefuses, AgentEnds, AgentStops, AgentMoves,
     Clean
<1>6. Rebind \/ UNCHANGED vars => UNCHANGED <<owner[s], ranOn[s]>>
  BY DEF Rebind, vars
<1>. QED
  BY <1>1, <1>2, <1>3, <1>4, <1>5, <1>6 DEF Next

\* The steps of a client's own call.
LEMMA AskMoves ==
    ASSUME Typed, [Next]_vars, NEW p \in Asks
    PROVE  \/ UNCHANGED <<pc[p], target[p], answer[p]>>
           \/ AskStep(p) \/ CheckOwner(p) \/ Reread(p)
<1> USE StartsAssumption DEF Typed, Types, CallsOK, Calls, callVars
<1>1. ASSUME NEW c \in Starts, StartStep(c) PROVE UNCHANGED <<pc[p], target[p], answer[p]>>
  BY ZenonT(60), <1>1 DEF StartStep, FindKey, RefuseStart, Create, ClaimKey, ClaimHeld, ClaimFails,
     Detach, DetachFails, Stamp, StampFails, Reuse, ServerEnds, ServerKilled, Goto,
     Return
<1>2. ASSUME NEW q \in Calls, q # p, CheckOwner(q) \/ Reread(q)
      PROVE  UNCHANGED <<pc[p], target[p], answer[p]>>
  BY <1>2 DEF CheckOwner, Reread, Observed, Goto, Return
<1>3. ASSUME NEW q \in Asks, q # p, AskStep(q)
      PROVE  UNCHANGED <<pc[p], target[p], answer[p]>>
  BY <1>3 DEF AskStep, AskStatus, AskResult, AskStop, Ask, Mark, MarkFails, Tell,
     TellRebound, TellFails, Confirm, ConfirmFails, AskEnds, Goto, Return
<1>4. ASSUME NEW t \in Starts, OwnerStep(t) \/ AgentStep(t) \/ Clean(t)
      PROVE  UNCHANGED <<pc[p], target[p], answer[p]>>
  BY <1>4 DEF OwnerStep, Begin, BeginFails, GiveUp, Send, NotSent, Hear, Lose, Report,
     OwnerKilled, AgentStep, AgentStarts, AgentRefuses, AgentEnds, AgentStops,
     AgentMoves, Clean
<1>5. Rebind \/ UNCHANGED vars => UNCHANGED <<pc[p], target[p], answer[p]>>
  BY DEF Rebind, vars
<1>. QED
  BY SMTT(30), <1>1, <1>2, <1>3, <1>4, <1>5 DEF Next

-----------------------------------------------------------------------------
\* The session was sent to a node that its stops do not reach.
OutOfReach(s) == ranOn[s] \notin {NoNode, record[s].node}

\* Nothing of the session runs, or will, within reach of a stop.
Barred(s) ==
    \/ OutOfReach(s)
    \/ /\ agent[s] \notin {"asked", "running"}
       /\ agent[s] = "none" => ~record[s].sent /\ (record[s].stop \/ Over(s))

\* Where a client's call is about to answer that the stop has taken, and where
\* it did, the session is barred; and a run is sent once.
Stopping(p) ==
    /\ pc[p] = "confirm" => Barred(target[p])
    /\ answer[p].kind = "stop" =>
          /\ answer[p].of \in Starts /\ Holds(answer[p].of)
          /\ answer[p].state = "stopping" => Barred(answer[p].of)

SentOnce ==
    \A s \in Starts : owner[s] \in {"none", "begun", "unsent", "sending"} => ranOn[s] = NoNode

StopInv == SentOnce /\ \A p \in Asks : Stopping(p)

\* An exact stop leaves nothing within its reach that runs, or will.
LEMMA StopsReach ==
    ASSUME Typed, NEW s \in Starts, NEW now \in Stopped(s), ~OutOfReach(s)
    PROVE  now \in {"fenced", "stopping", "over", "refused"}
  BY DEF Typed, Types, RunsOK, Stopped, OutOfReach

\* What becomes of a run that is not under way, when it is not sent.
LEMMA AgentQuiet ==
    ASSUME Typed, [Next]_vars, NEW s \in Starts, agent[s] \notin {"asked", "running"},
           ~Send(s)
    PROVE  agent'[s] = agent[s] \/ agent'[s] \in {"fenced", "over"}
<1> USE DEF Typed, Types, RunsOK
<1>1. CASE UNCHANGED agent
  BY <1>1
<1>2. ASSUME NEW t \in Starts, Send(t) PROVE agent'[s] = agent[s]
  BY <1>2 DEF Send
<1>3. ASSUME NEW t \in Starts, AgentStep(t)
      PROVE  agent'[s] = agent[s] \/ agent'[s] = "over"
  BY <1>3 DEF AgentStep, AgentStarts, AgentRefuses, AgentEnds, AgentStops, AgentMoves
<1>4. ASSUME NEW p \in Asks, NEW now \in Stopped(target[p]) \cup {agent[target[p]]},
             agent' = [agent EXCEPT ![target[p]] = now]
      PROVE  agent'[s] = agent[s] \/ agent'[s] \in {"fenced", "over"}
  <2>1. CASE s # target[p]
    BY <1>4, <2>1
  <2>2. CASE s = target[p]
    BY <1>4, <2>2 DEF Stopped
  <2>. QED
    BY <2>1, <2>2
<1>5. \/ UNCHANGED agent
      \/ \E t \in Starts : Send(t) \/ AgentStep(t)
      \/ \E p \in Asks : \E now \in Stopped(target[p]) \cup {agent[target[p]]} :
            agent' = [agent EXCEPT ![target[p]] = now]
  BY Movers DEF Create, ClaimHeld, ClaimFails, ClaimKey, DetachFails, GiveUp, Stamp,
     Clean, Begin, Report, Mark, Tell, TellFails, Confirm, runVars
<1>. QED
  BY <1>1, <1>2, <1>3, <1>4, <1>5

\* What bars a session goes on barring it.
LEMMA BarredStays ==
    ASSUME Typed, SessionInv, [Next]_vars, SentOnce, NEW s \in Starts, Holds(s), Barred(s)
    PROVE  Barred(s)'
<1> USE NodesAssumption DEF Typed, Types, DiskOK, RunsOK, WorldOK
<1>0. /\ Over(s) => Over(s)'
      /\ record[s].stop => record'[s].stop
      /\ record'[s].node = record[s].node
  <2>1. pc[s] \notin {"create", "claim"}
    BY DEF SessionInv, Begun
  <2>. QED
    BY <2>1, NeverBack, OwnersKept DEF Kept, Over, SameOwner, Create, ClaimHeld, ClaimFails
<1>1. CASE Send(s)
  <2>1. /\ owner[s] = "sending" /\ record[s].sent /\ ranOn[s] = NoNode
        /\ agent[s] = "fenced"
    BY <1>1 DEF Send, SentOnce, SessionInv, Dispatched, Barred, OutOfReach
  <2>2. ranOn'[s] = bound /\ bound \in Nodes
    BY <1>1 DEF Send
  <2>3. CASE bound = record[s].node
    <3>1. agent'[s] = "fenced"
      BY <1>1, <2>1, <2>3 DEF Send
    <3>. QED
      BY <3>1 DEF Barred
  <2>4. CASE bound # record[s].node
    BY <1>0, <2>2, <2>4 DEF Barred, OutOfReach
  <2>. QED
    BY <2>3, <2>4
<1>2. CASE ~Send(s)
  <2>1. ranOn'[s] = ranOn[s]
    BY <1>2, OwnerMoves
  <2>2. CASE OutOfReach(s)
    BY <1>0, <2>1, <2>2 DEF Barred, OutOfReach
  <2>3. CASE ~OutOfReach(s)
    <3>1. agent'[s] = agent[s] \/ agent'[s] \in {"fenced", "over"}
      BY <1>2, <2>3, AgentQuiet DEF Barred
    <3>2. agent[s] = "none" => ~record'[s].sent
      <4>1. CASE Begin(s)
        BY <2>3, <4>1, BeginWrites DEF Barred, BeginEffect
      <4>2. CASE ~Begin(s)
        BY <2>3, <4>2, NeverBack DEF Barred
      <4>. QED
        BY <4>1, <4>2
    <3>. QED
      BY <1>0, <2>3, <3>1, <3>2 DEF Barred
  <2>. QED
    BY <2>2, <2>3
<1>. QED
  BY <1>1, <1>2

\* Every stop that was answered, or is about to be, bars its session.
LEMMA StopsBar == Spec => []StopInv
<1>1. Init => StopInv
  BY DEF Init, StopInv, SentOnce, Stopping, NoAnswer, Calls
<1>2. Typed /\ SessionInv /\ StopInv /\ [Next]_vars => StopInv'
  <2> SUFFICES ASSUME Typed, SessionInv, StopInv, [Next]_vars PROVE StopInv'
    OBVIOUS
  <2>1. SentOnce'
    <3> SUFFICES ASSUME NEW s \in Starts,
                        owner'[s] \in {"none", "begun", "unsent", "sending"}
                 PROVE  ranOn'[s] = NoNode
      BY DEF SentOnce
    <3>1. CASE Detach(s)
      BY <3>1 DEF Detach, SessionInv, Dispatched, Begun, StopInv, SentOnce
    <3>. QED
      BY <3>1, OwnerMoves DEF StopInv, SentOnce
  <2>2. ASSUME NEW p \in Asks PROVE Stopping(p)'
    <3> DEFINE s == target[p]
    <3>0. /\ \A t \in Starts : Holds(t) => Holds(t)'
          /\ \A t \in Starts : Holds(t) /\ Barred(t) => Barred(t)'
          /\ pc[p] \in {"check", "reread", "mark", "tell", "confirm"} =>
                s \in Starts /\ Holds(s)
          /\ Stopping(p)
      BY HeldForGood, BarredStays DEF StopInv, SessionInv, Aimed, Asking, Calls
    <3>1. CASE UNCHANGED <<pc[p], target[p], answer[p]>>
      BY <3>0, <3>1 DEF Stopping
    <3>2. CASE CheckOwner(p) \/ Reread(p)
      <4>1. PICK st \in States \cup {"absent"} :
              Observed(p, st) \/ (pc'[p] = "reread" /\ UNCHANGED answer)
        <5> USE DEF Calls, Typed, Types, CallsOK
        <5>1. CASE CheckOwner(p)
          <6>1. seen[p].state \in States \cup {"absent"}
            BY DEF Glances
          <6>2. Observed(p, seen[p].state) \/ (pc'[p] = "reread" /\ UNCHANGED answer)
            BY <5>1 DEF CheckOwner, Goto
          <6>. QED
            BY <6>1, <6>2
        <5>2. CASE Reread(p)
          <6> DEFINE now == IF Over(s) THEN record[s].state ELSE "unknown"
          <6>1. now \in States \cup {"absent"}
            BY DEF Over, States, Terminal
          <6>2. Observed(p, now)
            BY <5>2 DEF Reread
          <6> HIDE DEF now
          <6>. QED
            BY <6>1, <6>2
        <5>. QED
          BY <3>2, <5>1, <5>2
      <4>2. UNCHANGED <<target, wants>>
        BY <3>2 DEF CheckOwner, Reread
      <4>3. CASE pc'[p] \notin {"confirm"} /\ UNCHANGED answer
        BY <3>0, <4>2, <4>3 DEF Stopping
      <4>4. CASE Observed(p, st) /\ wants[p] = "stop" /\ st \notin Terminal
        BY <4>3, <4>4 DEF Observed, Goto, Calls, Typed, Types, CallsOK
      <4>5. CASE Observed(p, st) /\ ~(wants[p] = "stop" /\ st \notin Terminal)
        <5> DEFINE kind == IF wants[p] = "start" THEN "reused" ELSE wants[p]
        <5>1. Return(p, Told(kind, s, st)) /\ (kind = "stop" => st # "stopping")
          BY <4>5 DEF Observed, Terminal
        <5>2. s \in Starts /\ Holds(s)
          BY <3>0, <3>2 DEF CheckOwner, Reread
        <5>3. /\ pc'[p] = "idle" /\ answer'[p] = Told(kind, s, st)
          BY <5>1, StartsAssumption DEF Return, Calls, Typed, Types, CallsOK
        <5>. QED
          BY <3>0, <5>1, <5>2, <5>3 DEF Stopping, Told
      <4>. QED
        BY <4>1, <4>3, <4>4, <4>5
    <3>3. CASE AskStep(p)
      <4> USE StartsAssumption DEF Calls, Typed, Types, CallsOK
      <4>1. CASE \E t \in Starts : AskStatus(p, t) \/ AskResult(p, t) \/ AskStop(p, t)
        <5>1. answer'[p].kind # "stop" /\ pc'[p] # "confirm"
          BY <4>1 DEF AskStatus, AskResult, AskStop, Ask, Goto, Return, Refused, NoAnswer
        <5>. QED
          BY <5>1 DEF Stopping
      <4>2. CASE MarkFails(p) \/ TellRebound(p) \/ TellFails(p) \/ ConfirmFails(p)
        <5>1. answer'[p].kind # "stop" /\ pc'[p] # "confirm"
          BY <4>2 DEF MarkFails, TellRebound, TellFails, ConfirmFails, Return, Refused
        <5>. QED
          BY <5>1 DEF Stopping
      <4>3. CASE AskEnds(p)
        BY <3>0, <4>3 DEF AskEnds, Goto, Stopping
      <4>4. CASE Mark(p)
        <5>0. s \in Starts /\ Holds(s) /\ Holds(s)' /\ UNCHANGED target
          BY <3>0, <4>4 DEF Mark
        <5>1. CASE Over(s)
          <6>1. /\ answer'[p] = Told("stop", s, record[s].state) /\ pc'[p] = "idle"
                /\ record[s].state # "stopping"
            BY <4>4, <5>1 DEF Mark, Return, Over, Terminal
          <6>. QED
            BY <5>0, <6>1 DEF Stopping, Told
        <5>2. CASE ~Over(s) /\ record[s].sent
          <6>1. pc'[p] = "tell" /\ UNCHANGED answer
            BY <4>4, <5>2 DEF Mark, Goto
          <6>. QED
            BY <3>0, <6>1 DEF Stopping
        <5>3. CASE ~Over(s) /\ ~record[s].sent
          <6>1. answer'[p] = Told("stop", s, "stopping") /\ pc'[p] = "idle"
            BY <4>4, <5>3 DEF Mark, Return
          <6>2. agent[s] = "none" /\ UNCHANGED agent
            BY <4>4, <5>0, <5>3 DEF Mark, runVars, SessionInv, Dispatched
          <6>3. ~record'[s].sent /\ record'[s].stop
            <7>1. record[s] \in Records
              BY <5>0 DEF DiskOK
            <7>2. record'[s] = [[record[s] EXCEPT !.stop = TRUE] EXCEPT !.state = "stopping"]
              BY <4>4, <5>0, <5>3 DEF Mark, DiskOK
            <7>. QED
              BY <5>3, <7>1, <7>2 DEF Records
          <6>4. Barred(s)'
            BY <5>0, <6>2, <6>3 DEF Barred
          <6>. QED
            BY <5>0, <6>1, <6>4 DEF Stopping, Told
        <5>. QED
          BY <5>1, <5>2, <5>3
      <4>5. CASE Tell(p)
        <5>0. s \in Starts /\ UNCHANGED <<target, answer, record, ranOn>>
          BY <3>0, <4>5 DEF Tell, disk
        <5>1. PICK now \in Stopped(s) : agent' = [agent EXCEPT ![s] = now]
          BY <4>5 DEF Tell
        <5>2. Barred(s)'
          <6>1. CASE OutOfReach(s)
            BY <5>0, <6>1 DEF OutOfReach, Barred
          <6>2. CASE ~OutOfReach(s)
            <7>1. agent'[s] \in {"fenced", "stopping", "over", "refused"}
              BY <5>0, <5>1, <6>2, StopsReach DEF RunsOK
            <7>. QED
              BY <5>0, <7>1 DEF Barred
          <6>. QED
            BY <6>1, <6>2
        <5>. QED
          BY <3>0, <5>0, <5>2 DEF Stopping
      <4>6. CASE Confirm(p)
        <5> DEFINE st == IF Over(s) THEN record[s].state ELSE "stopping"
        <5>0. /\ s \in Starts /\ Holds(s) /\ Holds(s)' /\ UNCHANGED target
              /\ Barred(s) /\ Barred(s)'
          BY <3>0, <4>6 DEF Confirm, Stopping
        <5>1. answer'[p] = Told("stop", s, st) /\ pc'[p] = "idle"
          BY <4>6 DEF Confirm, Return
        <5>. QED
          BY <5>0, <5>1 DEF Stopping, Told
      <4>. QED
        BY <3>3, <4>1, <4>2, <4>3, <4>4, <4>5, <4>6 DEF AskStep
    <3>. QED
      BY <3>1, <3>2, <3>3, AskMoves
  <2>. QED
    BY <2>1, <2>2 DEF StopInv
<1>. QED
  BY <1>1, <1>2, Typing, SessionsKept, PTL DEF Spec

\* A stop that was answered with "stopping" has taken, whatever the owner of the
\* run, the Agent, cleanup and other clients did before and do afterwards: the
\* run is stopped, is being stopped, or never begins.
THEOREM StopTaken == Spec => []StopHasTaken
<1>1. SessionInv /\ StopInv => StopHasTaken
  BY DEF SessionInv, Dispatched, StopInv, Stopping, Barred, OutOfReach, StopHasTaken
<1>. QED
  BY <1>1, SessionsKept, StopsBar, PTL

-----------------------------------------------------------------------------
(* A session that was called "unknown".  The invariant follows what a call *)
(* read of the record until it has asked ps and looked at it again.        *)


\* The process on record was started, and can be told from others unless ps was
\* not there to say when it began; a session is recorded as unknown by the
\* process that owned it, at its end.
Owned(s) ==
    /\ pc[s] = "stamp" => owner[s] # "none"
    /\ record[s].by = "process" =>
          owner[s] # "none" /\ ("ps" \notin Faults => record[s].stamped)
    /\ record[s].state = "unknown" => owner[s] = "ended"
    /\ "process" \in told[s] /\ "ps" \notin Faults =>
          owner[s] = "ended" /\ record[s].state \notin {"completed", "failed"}

\* What a call read of the record is still so, and was enough to see whether the
\* process runs; when it reads again, the process has ended.
Looked(p) ==
    /\ seen[p].by = "process" =>
          /\ record[target[p]].by = "process"
          /\ "ps" \notin Faults => seen[p].stamped
          /\ pc[p] = "reread" /\ "ps" \notin Faults => owner[target[p]] = "ended"
    /\ seen[p].state = "unknown" => record[target[p]].state = "unknown"

\* A call that observes nothing keeps nothing of what it read.
Glanced(p) ==
    IF pc[p] \in {"check", "reread"} THEN Looked(p) ELSE seen[p].by = "server"

UnknownInv == (\A s \in Starts : Owned(s)) /\ (\A p \in Calls : Glanced(p))

\* The setting is for good.
LEMMA SameSetting == [Next]_vars => UNCHANGED setting
  BY ZenonT(60) DEF Next, StartStep, FindKey, RefuseStart, Create, ClaimKey, ClaimHeld,
     ClaimFails, Detach, DetachFails, Stamp, StampFails, Reuse, ServerEnds,
     ServerKilled, CheckOwner, Reread, AskStep, AskStatus, AskResult, AskStop, Ask,
     Mark, MarkFails, Tell, TellRebound, TellFails, Confirm, ConfirmFails, AskEnds,
     OwnerStep, Begin, BeginFails, GiveUp, Send, NotSent, Hear, Lose, Report,
     OwnerKilled, AgentStep, AgentStarts, AgentRefuses, AgentEnds, AgentStops,
     AgentMoves, Clean, Rebind, world, vars

\* The steps of a call are its own.
LEMMA CallMoves ==
    ASSUME Typed, [Next]_vars, NEW p \in Calls
    PROVE  \/ UNCHANGED <<pc[p], target[p], seen[p]>>
           \/ CheckOwner(p) \/ Reread(p)
           \/ p \in Starts /\ StartStep(p)
           \/ p \in Asks /\ AskStep(p)
<1> USE StartsAssumption DEF Typed, Types, CallsOK, Calls, callVars
<1>1. ASSUME NEW c \in Starts, c # p, StartStep(c)
      PROVE  UNCHANGED <<pc[p], target[p], seen[p]>>
  BY <1>1 DEF StartStep, FindKey, RefuseStart, Create, ClaimKey, ClaimHeld, ClaimFails,
     Detach, DetachFails, Stamp, StampFails, Reuse, ServerEnds, ServerKilled, Goto,
     Return
<1>2. ASSUME NEW q \in Calls, q # p, CheckOwner(q) \/ Reread(q)
      PROVE  UNCHANGED <<pc[p], target[p], seen[p]>>
  BY <1>2 DEF CheckOwner, Reread, Observed, Goto, Return
<1>3. ASSUME NEW q \in Asks, q # p, AskStep(q)
      PROVE  UNCHANGED <<pc[p], target[p], seen[p]>>
  BY <1>3 DEF AskStep, AskStatus, AskResult, AskStop, Ask, Mark, MarkFails, Tell,
     TellRebound, TellFails, Confirm, ConfirmFails, AskEnds, Goto, Return
<1>4. ASSUME NEW t \in Starts, OwnerStep(t) \/ AgentStep(t) \/ Clean(t)
      PROVE  UNCHANGED <<pc[p], target[p], seen[p]>>
  BY <1>4 DEF OwnerStep, Begin, BeginFails, GiveUp, Send, NotSent, Hear, Lose, Report,
     OwnerKilled, AgentStep, AgentStarts, AgentRefuses, AgentEnds, AgentStops,
     AgentMoves, Clean
<1>5. Rebind \/ UNCHANGED vars => UNCHANGED <<pc[p], target[p], seen[p]>>
  BY DEF Rebind, vars
<1>. QED
  BY <1>1, <1>2, <1>3, <1>4, <1>5 DEF Next

\* Of a session that does not exist no process is on record.
LEMMA AbsentIsServer == Glance(Absent).by = "server"
  BY DEF Glance, Absent

\* A call that observes nothing tells nobody about a process.
LEMMA ReturnTells ==
    ASSUME Typed, NEW p \in Calls, NEW a \in Answers, Return(p, a), seen[p].by = "server",
           NEW s \in Starts, "process" \in told'[s]
    PROVE  "process" \in told[s]
  BY DEF Typed, Types, CallsOK, Return, Answers

\* Who is told that a session is unknown for want of its process is told by a
\* call that observed it.
LEMMA ToldBy ==
    ASSUME Typed, \A p \in Calls : Glanced(p), [Next]_vars,
           NEW s \in Starts, "process" \in told'[s], "process" \notin told[s]
    PROVE  \E p \in Calls :
              /\ target[p] = s /\ seen[p].by = "process" /\ UNCHANGED <<record, owner>>
              /\ \/ pc[p] = "check" /\ seen[p].state = "unknown"
                 \/ pc[p] = "reread" /\ (Over(s) => record[s].state = "unknown")
<1> USE DEF Calls
<1>1. ASSUME NEW p \in Calls, NEW a \in Answers, Return(p, a),
             pc[p] \notin {"check", "reread"}
      PROVE  FALSE
  BY <1>1, ReturnTells DEF Glanced
<1>2. ~UNCHANGED told
  OBVIOUS
<1>3. PICK p \in Calls : \/ p \in Starts /\ StartStep(p)
                         \/ p \in Asks /\ AskStep(p)
                         \/ CheckOwner(p) \/ Reread(p)
  BY <1>2 DEF Next, OwnerStep, Begin, BeginFails, GiveUp, Send, NotSent, Hear, Lose,
     Report, OwnerKilled, AgentStep, AgentStarts, AgentRefuses, AgentEnds, AgentStops,
     AgentMoves, Clean, Rebind, vars
<1>4. ASSUME p \in Starts, StartStep(p) PROVE FALSE
  <2>1. UNCHANGED told \/ \E a \in Answers : Return(p, a)
    <3>1. RefuseStart(p) \/ StampFails(p) \/ ClaimFails(p) => Return(p, Refused(NoSession, "none"))
      BY DEF RefuseStart, StampFails, ClaimFails
    <3>2. DetachFails(p) => Return(p, Refused(p, "none"))
      BY DEF DetachFails
    <3>3. Stamp(p) => Return(p, Told("started", p, "starting"))
      BY DEF Stamp
    <3>4. Reuse(p) => \/ UNCHANGED told
                      \/ \E e \in {"none", "unknown"} : Return(p, Refused(target[p], e))
      BY DEF Reuse
    <3>5. \/ UNCHANGED told
          \/ RefuseStart(p) \/ StampFails(p) \/ ClaimFails(p) \/ DetachFails(p)
          \/ Stamp(p) \/ Reuse(p)
      BY <1>4 DEF StartStep, FindKey, Create, ClaimKey, ClaimHeld, Detach, ServerEnds,
         ServerKilled
    <3>6. target[p] \in Starts \cup {NoSession} /\ p \in Starts
      BY <1>4 DEF Typed, Types, CallsOK
    <3>. QED
      BY <3>1, <3>2, <3>3, <3>4, <3>5, <3>6, Answering DEF States
  <2>2. pc[p] \notin {"check", "reread"} \/ UNCHANGED told
    BY <1>4 DEF StartStep, FindKey, RefuseStart, Create, ClaimKey, ClaimHeld,
       ClaimFails, Detach, DetachFails, Stamp, StampFails, Reuse, ServerEnds,
       ServerKilled
  <2>. QED
    BY <1>1, <1>2, <2>1, <2>2
<1>5. ASSUME p \in Asks, AskStep(p) PROVE FALSE
  <2>1. UNCHANGED told \/ \E a \in Answers : Return(p, a)
    <3>1. ASSUME NEW t \in Starts, AskStatus(p, t) \/ AskResult(p, t) \/ AskStop(p, t)
          PROVE  UNCHANGED told \/ Return(p, Refused(t, "none"))
      BY <3>1 DEF AskStatus, AskResult, AskStop, Ask
    <3>2. MarkFails(p) \/ TellRebound(p) \/ ConfirmFails(p) => Return(p, Refused(target[p], "none"))
      BY DEF MarkFails, TellRebound, ConfirmFails
    <3>3. TellFails(p) =>
            \E e \in {"none", "unknown"} : Return(p, Refused(target[p], e))
      BY DEF TellFails
    <3>4. Mark(p) \/ Confirm(p) =>
            \/ UNCHANGED told
            \/ \E st \in States \cup {"absent"} : Return(p, Told("stop", target[p], st))
      BY DEF Mark, Confirm, Over, Terminal, States
    <3>5. \/ UNCHANGED told
          \/ \E t \in Starts : AskStatus(p, t) \/ AskResult(p, t) \/ AskStop(p, t)
          \/ MarkFails(p) \/ TellRebound(p) \/ ConfirmFails(p) \/ TellFails(p)
          \/ Mark(p) \/ Confirm(p)
      BY <1>5 DEF AskStep, Tell, AskEnds
    <3>6. target[p] \in Starts \cup {NoSession}
      BY <1>5 DEF Typed, Types, CallsOK
    <3>. QED
      BY <3>1, <3>2, <3>3, <3>4, <3>5, <3>6, Answering
  <2>2. pc[p] \notin {"check", "reread"} \/ UNCHANGED told
    BY <1>5 DEF AskStep, AskStatus, AskResult, AskStop, Ask, Mark, MarkFails, Tell,
       TellRebound, TellFails, Confirm, ConfirmFails, AskEnds
  <2>. QED
    BY <1>1, <1>2, <2>1, <2>2
<1>6. CASE CheckOwner(p) \/ Reread(p)
  <2> DEFINE kind == IF wants[p] = "start" THEN "reused" ELSE wants[p]
             st == IF pc[p] = "check" THEN seen[p].state
                   ELSE IF Over(target[p]) THEN record[target[p]].state ELSE "unknown"
  <2>1. Return(p, Told(kind, target[p], st)) /\ UNCHANGED <<record, owner>>
    BY <1>2, <1>6 DEF CheckOwner, Reread, Observed, disk, runVars
  <2>2. pc[p] \in {"check", "reread"}
    BY <1>6 DEF CheckOwner, Reread
  <2>3. /\ Told(kind, target[p], st).of = target[p]
        /\ Told(kind, target[p], st).state = st
    BY SMTT(30) DEF Told
  <2> HIDE DEF kind
  <2>4. /\ st = "unknown"
        /\ told' = [told EXCEPT ![target[p]] = @ \cup {seen[p].by}]
    BY <1>2, <2>1, <2>3 DEF Return
  <2>5. target[p] = s /\ seen[p].by = "process"
    BY <2>4 DEF Typed, Types, CallsOK
  <2>. QED
    BY <2>1, <2>2, <2>4, <2>5
<1>. QED
  BY <1>3, <1>4, <1>5, <1>6
\* An owner that has begun goes on having begun, and one that has ended is gone.
LEMMA OwnersEnd ==
    ASSUME Typed, SessionInv, [Next]_vars, NEW s \in Starts
    PROVE  /\ owner[s] # "none" => owner'[s] # "none"
           /\ owner[s] = "ended" => owner'[s] = "ended"
<1>1. Detach(s) => owner[s] = "none"
  BY DEF Detach, SessionInv, Dispatched
<1>2. Send(s) => owner[s] = "sending"
  BY DEF Send
<1>. QED
  BY <1>1, <1>2, OwnerMoves

\* "completed" and "failed" are not recorded of a session whose owner has ended,
\* and "unknown" is recorded by an owner at its end.
LEMMA EndedIsOver ==
    ASSUME Typed, SessionInv, [Next]_vars, NEW s \in Starts
    PROVE  /\ owner[s] = "ended" /\ record[s].state \notin {"completed", "failed"} =>
                record'[s].state \notin {"completed", "failed"}
           /\ record[s].state # "unknown" /\ record'[s].state = "unknown" =>
                owner'[s] = "ended"
<1>1. CASE \/ UNCHANGED <<record, holder, agent>>
          \/ \E t \in Starts : ClaimKey(t) \/ Send(t) \/ AgentStep(t)
          \/ \E p \in Asks : Tell(p) \/ TellFails(p)
  BY <1>1 DEF ClaimKey, Send, AgentStep, AgentStarts, AgentRefuses, AgentEnds,
     AgentStops, AgentMoves, Tell, TellFails, disk
<1>2. ASSUME NEW t \in Starts, Create(t) \/ ClaimHeld(t) \/ ClaimFails(t)
      PROVE  record'[s] = record[s] \/ record'[s].state \notin Terminal
  BY <1>2, FreshWrites DEF FreshEffect
<1>3. ASSUME NEW t \in Starts, DetachFails(t) \/ GiveUp(t)
      PROVE  \/ record'[s].state = record[s].state
             \/ owner[s] # "ended" /\ record'[s].state = "failed"
  BY <1>3, FailWrites DEF FailEffect, DetachFails, GiveUp, SessionInv, Dispatched
<1>4. ASSUME NEW t \in Starts, Stamp(t) \/ Clean(t)
      PROVE  record'[s].state = record[s].state
  BY <1>4, SameWrites DEF SameEffect
<1>5. ASSUME NEW p \in Asks, Mark(p) \/ Confirm(p)
      PROVE  record'[s].state \in {record[s].state, "stopping"}
  BY <1>5, MarkWrites, ConfirmWrites DEF MarkEffect, ConfirmEffect
<1>6. ASSUME NEW t \in Starts, Begin(t)
      PROVE  \/ record'[s].state = record[s].state
             \/ owner[s] # "ended" /\ record'[s].state \in {"failed", "running"}
  BY <1>6, BeginWrites DEF BeginEffect, Begin
<1>7. ASSUME NEW t \in Starts, Report(t)
      PROVE  \/ record'[s].state = record[s].state
             \/ owner[s] # "ended" /\ owner'[s] = "ended"
  <2>1. CASE t = s
    BY <1>7, <2>1 DEF Report, Typed, Types, RunsOK
  <2>2. CASE t # s
    BY <1>7, <2>2, ReportWrites DEF ReportEffect
  <2>. QED
    BY <2>1, <2>2
<1>. QED
  BY <1>1, <1>2, <1>3, <1>4, <1>5, <1>6, <1>7, Movers DEF Terminal

\* Whose process is on record stays so once the session holds its key.
LEMMA ProcessStays ==
    ASSUME Typed, SessionInv, [Next]_vars, NEW s \in Starts, Holds(s),
           record[s].by = "process"
    PROVE  record'[s].by = "process"
<1>1. ~Create(s) /\ ~ClaimHeld(s) /\ ~ClaimFails(s)
  BY DEF SessionInv, Begun, Create, ClaimHeld, ClaimFails
<1>. QED
  BY <1>1, OwnersKept DEF SameOwner

\* What a call observes is a session that holds its key.
LEMMA Observes ==
    ASSUME Typed, SessionInv, NEW p \in Calls, pc[p] \in {"check", "reread"}
    PROVE  target[p] \in Starts /\ Holds(target[p])
<1>1. target[p] \in Starts
  BY DEF Typed, Aimed
<1>2. CASE p \in Starts
  <2>1. KeyOf[p] \in Keys /\ target[p] = holder[KeyOf[p]] /\ target[p] # NoSession
    BY <1>1, <1>2, StartsAssumption, KeysAssumption DEF SessionInv, Reusing
  <2>. QED
    BY <1>1, <2>1 DEF SessionInv, Named, Holds
<1>3. CASE p \in Asks
  BY <1>1, <1>3 DEF SessionInv, Asking
<1>. QED
  BY <1>1, <1>2, <1>3 DEF Calls

\* UnknownInv holds in every reachable state.
LEMMA UnknownsKept == Spec => []UnknownInv
<1>1. Init => UnknownInv
  <2> SUFFICES ASSUME Init PROVE UnknownInv
    OBVIOUS
  <2>1. ASSUME NEW s \in Starts PROVE Owned(s)
    BY DEF Init, Owned, Absent, Calls
  <2>2. ASSUME NEW p \in Calls PROVE Glanced(p)
    BY DEF Init, Glanced, Absent, Glance
  <2>. QED
    BY <2>1, <2>2 DEF UnknownInv
<1>2. Typed /\ SessionInv /\ UnknownInv /\ [Next]_vars => UnknownInv'
  <2> SUFFICES ASSUME Typed, SessionInv, UnknownInv, [Next]_vars PROVE UnknownInv'
    OBVIOUS
  <2>0. /\ (\A s \in Starts : Owned(s)) /\ (\A p \in Calls : Glanced(p))
        /\ Faults' = Faults
    BY SameSetting DEF UnknownInv, Faults
  <2>1. ASSUME NEW s \in Starts PROVE Owned(s)'
    <3>1. pc'[s] = "stamp" => owner'[s] # "none"
      <4> USE StartsAssumption DEF Typed, Types, CallsOK, Calls
      <4>1. CASE pc'[s] = pc[s]
        BY <2>0, <4>1, OwnersEnd DEF Owned
      <4>2. CASE CheckOwner(s) \/ Reread(s)
        BY <4>2 DEF CheckOwner, Reread, Observed, Goto, Return
      <4>3. CASE StartStep(s) /\ ~Detach(s)
        BY <4>3 DEF StartStep, FindKey, RefuseStart, Create, ClaimKey, ClaimHeld,
           ClaimFails, DetachFails, Stamp, StampFails, Reuse, ServerEnds, ServerKilled,
           Goto, Return
      <4>4. CASE Detach(s)
        BY <4>4 DEF Detach, RunsOK
      <4>. QED
        BY <4>1, <4>2, <4>3, <4>4, CallMoves
    <3>2. record'[s].by = "process" =>
             owner'[s] # "none" /\ ("ps" \notin Faults => record'[s].stamped)
      <4>1. CASE SameOwner(record[s], record'[s])
        BY <2>0, <4>1, OwnersEnd DEF SameOwner, Owned
      <4>2. CASE Stamp(s) /\ record'[s].stamped \in Stamps
        <5>1. owner[s] # "none"
          BY <2>0, <4>2 DEF Owned, Stamp
        <5>. QED
          BY <4>2, <5>1, OwnersEnd DEF Stamps
      <4>. QED
        BY <4>1, <4>2, OwnersKept
    <3>3. record'[s].state = "unknown" => owner'[s] = "ended"
      BY <2>0, EndedIsOver, OwnersEnd DEF Owned
    <3>4. ASSUME "process" \in told'[s], "ps" \notin Faults
          PROVE  owner'[s] = "ended" /\ record'[s].state \notin {"completed", "failed"}
      <4>1. CASE "process" \in told[s]
        BY <2>0, <3>4, <4>1, OwnersEnd, EndedIsOver DEF Owned
      <4>2. CASE "process" \notin told[s]
        <5>1. PICK p \in Calls :
                /\ target[p] = s /\ seen[p].by = "process" /\ UNCHANGED <<record, owner>>
                /\ \/ pc[p] = "check" /\ seen[p].state = "unknown"
                   \/ pc[p] = "reread" /\ (Over(s) => record[s].state = "unknown")
          BY <2>0, <3>4, <4>2, ToldBy
        <5>. QED
          BY <2>0, <3>4, <5>1 DEF Glanced, Looked, Owned, Over, Terminal
      <4>. QED
        BY <4>1, <4>2
    <3>. QED
      BY <2>0, <3>1, <3>2, <3>3, <3>4 DEF Owned
  <2>2. ASSUME NEW p \in Calls PROVE Glanced(p)'
    <3> USE StartsAssumption DEF Typed, Types, CallsOK, Calls
    <3>1. CASE UNCHANGED <<pc[p], target[p], seen[p]>>
      <4>1. CASE pc[p] \notin {"check", "reread"}
        BY <2>0, <3>1, <4>1 DEF Glanced
      <4>2. CASE pc[p] \in {"check", "reread"}
        <5>1. target[p] \in Starts /\ Holds(target[p])
          BY <4>2, Observes
        <5>2. Looked(p) /\ Kept(target[p])
          BY <2>0, <4>2, <5>1, NeverBack DEF Glanced
        <5>3. record'[target[p]].by = "process" \/ record[target[p]].by # "process"
          BY <5>1, ProcessStays
        <5>4. owner[target[p]] = "ended" => owner'[target[p]] = "ended"
          BY <5>1, OwnersEnd
        <5>. QED
          BY <2>0, <3>1, <4>2, <5>2, <5>3, <5>4 DEF Glanced, Looked, Kept, Over, Terminal
      <4>. QED
        BY <4>1, <4>2
    <3>2. ASSUME NEW st, Observed(p, st) PROVE Glanced(p)'
      <4>1. pc'[p] \notin {"check", "reread"} /\ seen'[p] = Glance(Absent)
        BY <3>2 DEF Observed, Goto, Return
      <4>. QED
        BY <4>1, AbsentIsServer DEF Glanced
    <3>3. CASE CheckOwner(p)
      <4>1. CASE Observed(p, seen[p].state)
        BY <3>2, <4>1
      <4>2. CASE ~Observed(p, seen[p].state)
        <5> DEFINE s == target[p]
        <5>1. /\ pc[p] = "check" /\ pc'[p] = "reread"
              /\ UNCHANGED <<seen, target, record, owner>>
              /\ ~OwnerAlive(s, seen[p]) \/ "ps" \in Faults
          BY <3>3, <4>2 DEF CheckOwner, Goto, disk, runVars
        <5>2. s \in Starts /\ Owned(s) /\ Looked(p)
          BY <2>0, <5>1, Observes DEF Glanced
        <5>3. ASSUME seen[p].by = "process", "ps" \notin Faults
              PROVE  owner[s] = "ended"
          BY <5>1, <5>2, <5>3 DEF OwnerAlive, Owned, Looked
        <5>. QED
          BY <2>0, <5>1, <5>2, <5>3 DEF Glanced, Looked
      <4>. QED
        BY <4>1, <4>2
    <3>4. CASE Reread(p)
      BY <3>2, <3>4 DEF Reread
    <3>5. ASSUME pc'[p] \notin {"check", "reread"},
                 \/ seen'[p] = Glance(Absent)
                 \/ seen'[p] = seen[p] /\ pc[p] \notin {"check", "reread"}
          PROVE  Glanced(p)'
      BY <2>0, <3>5, AbsentIsServer DEF Glanced
    <3>6. ASSUME NEW s \in Starts, pc'[p] = "check", target'[p] = s,
                 seen'[p] = Glance(record[s]), UNCHANGED record
          PROVE  Glanced(p)'
      <4>1. /\ seen'[p].by = record'[s].by /\ seen'[p].stamped = record'[s].stamped
            /\ seen'[p].state = record'[s].state
        BY <3>6 DEF Glance
      <4>2. record'[s].by = "process" => ("ps" \notin Faults => record'[s].stamped)
        BY <2>0, <3>6 DEF Owned
      <4>. QED
        BY <2>0, <3>6, <4>1, <4>2 DEF Glanced, Looked
    <3>7. CASE p \in Starts /\ StartStep(p)
      <4>1. CASE Reuse(p) /\ pc'[p] = "check"
        <5>1. target[p] \in Starts
          BY <4>1 DEF Reuse, Aimed
        <5>. QED
          BY <3>6, <4>1, <5>1 DEF Reuse, Return, disk
      <4>2. CASE Reuse(p) /\ pc'[p] # "check"
        BY SMTT(30), <3>5, <4>2 DEF Reuse, Return, Goto
      <4>3. CASE ~Reuse(p)
        BY <3>5, <3>7, <4>3 DEF StartStep, FindKey, RefuseStart, Create, ClaimKey,
           ClaimHeld, ClaimFails, Detach, DetachFails, Stamp, StampFails, ServerEnds,
           ServerKilled, Goto, Return
      <4>. QED
        BY <4>1, <4>2, <4>3
    <3>8. CASE p \in Asks /\ AskStep(p)
      <4>1. ASSUME NEW t \in Starts, NEW what, Ask(p, t, what) PROVE Glanced(p)'
        BY <3>6, <4>1 DEF Ask, Goto, disk
      <4>2. ASSUME NEW t \in Starts, AskStatus(p, t) \/ AskResult(p, t) \/ AskStop(p, t)
            PROVE  Glanced(p)'
        <5>1. CASE \E what : Ask(p, t, what)
          BY <4>1, <5>1
        <5>2. CASE ~\E what : Ask(p, t, what)
          BY <3>5, <4>2, <5>2 DEF AskStatus, AskResult, AskStop, Return
        <5>. QED
          BY <5>1, <5>2
      <4>3. CASE \/ Mark(p) \/ MarkFails(p) \/ Tell(p) \/ TellRebound(p) \/ TellFails(p)
                 \/ Confirm(p) \/ ConfirmFails(p) \/ AskEnds(p)
        BY <3>5, <4>3 DEF Mark, MarkFails, Tell, TellRebound, TellFails, Confirm,
           ConfirmFails, AskEnds, Goto, Return
      <4>. QED
        BY <3>8, <4>2, <4>3 DEF AskStep
    <3>. QED
      BY <3>1, <3>3, <3>4, <3>7, <3>8, CallMoves
  <2>. QED
    BY <2>1, <2>2 DEF UnknownInv
<1>. QED
  BY <1>1, <1>2, Typing, SessionsKept, PTL DEF Spec

\* A session that a client was told is "unknown", for ps did not show its own
\* process any more, has not ended after all, nor will it be recorded to have.
THEOREM UnknownForGood == Spec => []UnknownIsFinal
<1>1. UnknownInv => UnknownIsFinal
  BY DEF UnknownInv, Owned, UnknownIsFinal
<1>. QED
  BY <1>1, UnknownsKept, PTL
=============================================================================
