--------------------------- MODULE CleanupProofs ---------------------------
(***************************************************************************)
(* Proofs about Cleanup, for any sessions, Operators and faults.           *)
(*                                                                         *)
(* A call takes long, and what it goes by was seen before.  The argument   *)
(* is that a session that ended stays so: no step wakes it (Settles), so   *)
(* what each end of a call has seen of it is true whenever it is used      *)
(* (Talk), however much else moved since.  A purge knows of every session  *)
(* of the Agent it asks but of those that started since it looked          *)
(* (Purging).                                                              *)
(***************************************************************************)
EXTENDS Cleanup, TLAPS

\* What a listing is of: any set of sessions.
Listings ==
    UNION {[S -> [version : 0 .. Versions, remove : BOOLEAN]] : S \in SUBSET SessionIds}
Marks == UNION {[S -> BOOLEAN] : S \in SUBSET SessionIds}
Findings == UNION {[S -> {"live", "ended", "lost"}] : S \in SUBSET SessionIds}
Workdirs == {"none", "keep", "remove", "gone"}
Seen == SessionIds \cup {Nobody, "unclear"}

ItemSets ==
    [told : BOOLEAN, asked : BOOLEAN, workdir : Workdirs, records : Marks,
     outputs : Listings]

OpsOK ==
    op \in [Ops -> [pc : {"idle", "begins", "asks", "previewed", "asksAgain", "applies",
                          "waits", "done", "forgets", "over"},
                    purge : BOOLEAN, agent : Agents \cup {Unresolved}, items : ItemSets]]

CallsOK ==
    call \in [Ops -> [pc : {"none", "found", "removes"},
                      agent : Agents \cup {Unresolved}, asked : ItemSets,
                      found : Findings, workdir : Workdirs, items : ItemSets,
                      seen : Seen, gone : SUBSET SessionIds,
                      todo : SUBSET SessionIds, done : SUBSET SessionIds]]

FarsOK ==
    far \in [Ops -> [pc : {"none", "asked", "observed", "scanned", "removes"},
                     seen : Seen, live : SUBSET SessionIds, listing : Listings,
                     todo : SUBSET SessionIds, done : SUBSET SessionIds]]

\* What is done, or to be done, was asked for.
Asked(o) ==
    /\ call[o].todo \subseteq {s \in DOMAIN call[o].asked.records :
                                  call[o].asked.records[s]}
    /\ call[o].done \subseteq DOMAIN call[o].asked.records
    /\ far[o].todo \subseteq DOMAIN call[o].asked.outputs
    /\ far[o].done \subseteq DOMAIN call[o].asked.outputs

WorldOK ==
    /\ configured \in BOOLEAN /\ last \in Agents
    /\ at \in [SessionIds -> Agents] /\ workdir \in [Agents -> BOOLEAN]
    /\ record \in [SessionIds -> {"none", "live", "ended", "lost", "gone"}]
    /\ output \in [SessionIds -> [kept : BOOLEAN, version : 0 .. Versions]]
    /\ server \in [SessionIds -> {"none", "serving", "running"}]
    /\ guard \in [by : SessionIds \cup {Nobody}, clear : BOOLEAN]
    /\ missed \in [Ops -> SUBSET SessionIds]

\* One process of many changes.
LEMMA OneChanged ==
    ASSUME NEW S, NEW f \in [Ops -> S], NEW o \in Ops, NEW r \in S
    PROVE  [f EXCEPT ![o] = r] \in [Ops -> S]
  OBVIOUS

Typed == WorldOK /\ OpsOK /\ CallsOK /\ FarsOK /\ \A o \in Ops : Asked(o)

\* Nothing at all is a listing, and so are what the Runtime and the Agent list.
LEMMA Nothing ==
    /\ NoItems.outputs \in Listings /\ NoItems \in ItemSets
    /\ NoCall.found \in Findings
  <1>1. NoItems.outputs \in Listings
    <2>1. NoItems.outputs \in [{} -> [version : 0 .. Versions, remove : BOOLEAN]]
      BY DEF NoItems
    <2>. QED BY <2>1 DEF Listings
  <1>2. NoItems.records \in Marks
    <2>1. NoItems.records \in [{} -> BOOLEAN] BY DEF NoItems
    <2>. QED BY <2>1 DEF Marks
  <1>3. NoCall.found \in Findings
    <2>1. NoCall.found \in [{} -> {"live", "ended", "lost"}] BY DEF NoCall
    <2>. QED BY <2>1 DEF Findings
  <1>. QED BY <1>1, <1>2, <1>3 DEF NoItems, ItemSets, Workdirs

\* Nobody has asked anything yet, or no longer.
LEMMA NothingCalled ==
    /\ Idle \in [pc : {"idle"}, purge : {FALSE}, agent : Agents, items : {NoItems}]
    /\ NoCall \in [pc : {"none"}, agent : Agents, asked : ItemSets,
                      found : Findings, workdir : Workdirs, items : ItemSets,
                      seen : Seen, gone : SUBSET SessionIds,
                      todo : SUBSET SessionIds, done : SUBSET SessionIds]
    /\ NoFar \in [pc : {"none"},
                     seen : Seen, live : SUBSET SessionIds, listing : Listings,
                     todo : SUBSET SessionIds, done : SUBSET SessionIds]
    /\ NoCall.todo = {} /\ NoCall.done = {} /\ NoFar.todo = {} /\ NoFar.done = {}
  BY Nothing, AgentsAssumption DEF Idle, NoCall, NoFar, Workdirs, Seen, Nobody

\* The Operator's process, and the Runtime's end, keep their types.
OpStates ==
    [pc : {"idle", "begins", "asks", "previewed", "asksAgain", "applies",
           "waits", "done", "forgets", "over"},
     purge : BOOLEAN, agent : Agents \cup {Unresolved}, items : ItemSets]

LEMMA OpChanged ==
    ASSUME OpsOK, NEW o \in Ops, NEW r \in OpStates, op' = [op EXCEPT ![o] = r]
    PROVE  OpsOK'
  <1>1. op \in [Ops -> OpStates] BY DEF OpsOK, OpStates
  <1>2. op' \in [Ops -> OpStates] BY <1>1, OneChanged
  <1>. QED BY <1>2 DEF OpsOK, OpStates

LEMMA IdleTyped ==
    ASSUME OpsOK, NEW o \in Ops, op' = [op EXCEPT ![o] = Idle]
    PROVE  OpsOK'
  <1>1. Idle \in OpStates BY NothingCalled, Nothing DEF OpStates
  <1>. QED BY <1>1, OpChanged

FarStates ==
    [pc : {"none", "asked", "observed", "scanned", "removes"},
     seen : Seen, live : SUBSET SessionIds, listing : Listings,
     todo : SUBSET SessionIds, done : SUBSET SessionIds]

LEMMA FarChanged ==
    ASSUME FarsOK, NEW o \in Ops, NEW r \in FarStates, far' = [far EXCEPT ![o] = r]
    PROVE  FarsOK'
  <1>1. far \in [Ops -> FarStates] BY DEF FarsOK, FarStates
  <1>2. far' \in [Ops -> FarStates] BY <1>1, OneChanged
  <1>. QED BY <1>2 DEF FarsOK, FarStates

\* What the Agent finds is of sessions.
LEMMA FoundOK == ASSUME Typed, NEW a PROVE Found(a) \in Findings
  <1>1. Found(a) \in [{s \in SessionIds : Recorded(s) /\ at[s] = a} ->
                         {"live", "ended", "lost"}]
    BY DEF Found, Recorded, Typed, WorldOK
  <1>. QED BY <1>1 DEF Findings

\* The same of its answer.
LEMMA ItemsOK ==
    ASSUME Typed, NEW o \in Ops, NEW asked \in BOOLEAN, NEW seen \in Seen,
           NEW outputs \in Listings
    PROVE  Items(o, asked, seen, outputs) \in ItemSets
  <1>. DEFINE marks == [s \in DOMAIN call[o].found |->
                    /\ call[o].found[s] = "ended"
                    /\ asked
                    /\ ~Guarded(seen, s)
                    /\ s \in DOMAIN outputs => outputs[s].remove]
  <1>1. DOMAIN call[o].found \subseteq SessionIds
    BY DEF Typed, CallsOK, Findings
  <1>2. \A s \in DOMAIN outputs : outputs[s].remove \in BOOLEAN
    BY DEF Listings
  <1>3. marks \in [DOMAIN call[o].found -> BOOLEAN]
    BY <1>2
  <1>4. marks \in Marks BY <1>1, <1>3 DEF Marks
  <1>5. call[o].workdir \in Workdirs BY DEF Typed, CallsOK
  <1>. QED BY <1>4, <1>5 DEF Items, ItemSets

\* A step of one conversation leaves the others alone.
LEMMA OthersAsked ==
    ASSUME Typed, NEW o \in Ops,
           \A p \in Ops \ {o} : call'[p] = call[p] /\ far'[p] = far[p],
           Asked(o)'
    PROVE  \A p \in Ops : Asked(p)'
  BY DEF Typed, Asked

\* The far end of a call that only looks changes nothing else.
LEMMA OnlyLooked ==
    ASSUME WorldOK, AtFar
    PROVE  WorldOK' /\ UNCHANGED <<op, call>>
  BY DEF AtFar, world, WorldOK

\* The far end of a call goes on.
LEMMA FarTyped ==
    ASSUME Typed, NEW o \in Ops, FarsOK',
           \A p \in Ops \ {o} : far'[p] = far[p],
           far'[o].todo \subseteq DOMAIN call[o].asked.outputs,
           far'[o].done \subseteq DOMAIN call[o].asked.outputs,
           UNCHANGED <<op, call>>, WorldOK'
    PROVE  Typed'
  <1>1. Asked(o)' BY DEF Typed, Asked
  <1>2. \A p \in Ops : Asked(p)' BY <1>1, OthersAsked
  <1>. QED BY <1>2 DEF Typed, OpsOK, CallsOK

\* The Agent's end of a call goes on.
LEMMA CallTyped ==
    ASSUME Typed, NEW o \in Ops, CallsOK', FarsOK',
           \A p \in Ops \ {o} : call'[p] = call[p] /\ far'[p] = far[p],
           Asked(o)', UNCHANGED op, WorldOK'
    PROVE  Typed'
  <1>1. \A p \in Ops : Asked(p)' BY OthersAsked
  <1>. QED BY <1>1 DEF Typed, OpsOK

\* The Agent hears of the Runtime, or gives up.
LEMMA HeardTyped ==
    ASSUME Typed, NEW o \in Ops, NEW asked \in BOOLEAN, NEW seen \in Seen,
           NEW outputs \in Listings, NEW gone \in SUBSET SessionIds,
           Heard(o, asked, seen, outputs, gone)
    PROVE  Typed'
  <1>1. RecordsToGo(o) \subseteq SessionIds
    BY DEF RecordsToGo, Typed, CallsOK, ItemSets, Marks
  <1>2. PICK items \in ItemSets, todo \in SUBSET SessionIds :
           /\ todo = RecordsToGo(o)
           /\ call' = [call EXCEPT ![o].items = items, ![o].seen = seen, ![o].gone = gone,
                                   ![o].todo = todo, ![o].pc = "removes"]
    <2>1. Items(o, asked, seen, outputs) \in ItemSets BY ItemsOK
    <2>2. (IF Applies(o) THEN NoItems ELSE Items(o, asked, seen, outputs)) \in ItemSets
      BY <2>1, Nothing
    <2>. QED BY <1>1, <2>2 DEF Heard
  <1>3. CallsOK /\ FarsOK BY DEF Typed
  <1>4. CallsOK'
    <2>1. \A p \in Ops \ {o} : call'[p] = call[p] BY <1>2, <1>3 DEF CallsOK
    <2>2. call'[o] = [call[o] EXCEPT !.items = items, !.seen = seen, !.gone = gone,
                                     !.todo = todo, !.pc = "removes"]
      BY <1>2, <1>3 DEF CallsOK
    <2>3. call[o] \in [pc : {"none", "found", "removes"},
                       agent : Agents \cup {Unresolved}, asked : ItemSets,
                       found : Findings, workdir : Workdirs, items : ItemSets,
                       seen : Seen, gone : SUBSET SessionIds,
                       todo : SUBSET SessionIds, done : SUBSET SessionIds]
      BY <1>3 DEF CallsOK
    <2>4. call'[o] = [pc |-> "removes", agent |-> call[o].agent, asked |-> call[o].asked,
                      found |-> call[o].found, workdir |-> call[o].workdir,
                      items |-> items, seen |-> seen, gone |-> gone, todo |-> todo,
                      done |-> call[o].done]
      BY <2>2, <2>3
    <2>5. call'[o] \in [pc : {"none", "found", "removes"},
                        agent : Agents \cup {Unresolved}, asked : ItemSets,
                        found : Findings, workdir : Workdirs, items : ItemSets,
                        seen : Seen, gone : SUBSET SessionIds,
                        todo : SUBSET SessionIds, done : SUBSET SessionIds]
      BY <2>3, <2>4
    <2>6. call' = [p \in Ops |-> call'[p]] BY <1>2, <1>3 DEF CallsOK
    <2>. QED BY <2>1, <2>5, <2>6, <1>3 DEF CallsOK
  <1>5. far' = far \/ far' = [far EXCEPT ![o] = NoFar] BY DEF Heard
  <1>6. FarsOK' BY <1>3, <1>5, NothingCalled DEF FarsOK
  <1>7. \A p \in Ops \ {o} : call'[p] = call[p] /\ far'[p] = far[p]
    BY <1>2, <1>3, <1>5 DEF CallsOK, FarsOK
  <1>8. /\ call'[o].asked = call[o].asked /\ call'[o].todo = RecordsToGo(o)
        /\ call'[o].done = call[o].done
    BY <1>2, <1>3 DEF CallsOK
  <1>9. far'[o].todo \subseteq far[o].todo /\ far'[o].done \subseteq far[o].done
    BY <1>3, <1>5, NothingCalled DEF FarsOK
  <1>10. Asked(o)' BY <1>8, <1>9 DEF Typed, Asked, RecordsToGo
  <1>11. WorldOK' /\ UNCHANGED op BY DEF Heard, world, Typed, WorldOK
  <1>. QED BY <1>4, <1>6, <1>7, <1>10, <1>11, CallTyped

\* The Agent is asked what could go, and for what was shown to go.
LEMMA AsksTyped ==
    ASSUME Typed, NEW o \in Ops, NEW items \in ItemSets,
           NEW pc \in {"asks", "asksAgain", "waits"},
           Asks(o, pc, items), UNCHANGED world, missed' \in [Ops -> SUBSET SessionIds]
    PROVE  Typed'
  <1>. OpsOK /\ CallsOK /\ FarsOK BY DEF Typed
  <1>1. FoundWorkdir(o) \in Workdirs BY DEF FoundWorkdir, Workdirs
  <1>2. OpsOK' BY DEF Asks, OpsOK
  <1>3. PICK agent \in Agents \cup {Unresolved}, found \in Findings, dir \in Workdirs :
           call' = [call EXCEPT ![o] = [NoCall EXCEPT !.pc = "found", !.agent = agent,
                                                      !.asked = items,
                                                      !.found = found, !.workdir = dir]]
    <2>1. op[o].agent \in Agents \cup {Unresolved} BY DEF OpsOK
    <2>2. Found(op[o].agent) \in Findings BY FoundOK
    <2>. QED BY <1>1, <2>1, <2>2 DEF Asks
  <1>4. CallsOK' BY <1>3, NothingCalled DEF CallsOK
  <1>5. far' = [far EXCEPT ![o] = [NoFar EXCEPT !.pc = "asked"]] BY DEF Asks
  <1>6. FarsOK' BY <1>5, NothingCalled DEF FarsOK
  <1>7. \A p \in Ops \ {o} : call'[p] = call[p] /\ far'[p] = far[p]
    BY <1>3, <1>5 DEF CallsOK, FarsOK
  <1>8. call'[o].todo = {} /\ call'[o].done = {} BY <1>3, NothingCalled DEF CallsOK
  <1>9. far'[o].todo = {} /\ far'[o].done = {} BY <1>5, NothingCalled DEF FarsOK
  <1>10. Asked(o)' BY <1>8, <1>9 DEF Asked
  <1>11. \A p \in Ops : Asked(p)' BY <1>7, <1>10, OthersAsked
  <1>12. WorldOK' BY DEF world, Typed, WorldOK
  <1>. QED BY <1>2, <1>4, <1>6, <1>11, <1>12 DEF Typed

\* The Operator has its answer.
LEMMA CallOverTyped ==
    ASSUME Typed, NEW o \in Ops, OpsOK', CallOver(o)
    PROVE  Typed'
  <1>. CallsOK /\ FarsOK BY DEF Typed
  <1>1. CallsOK' BY NothingCalled DEF CallOver, CallsOK
  <1>2. FarsOK' BY NothingCalled DEF CallOver, FarsOK
  <1>3. \A p \in Ops \ {o} : call'[p] = call[p] /\ far'[p] = far[p]
    BY DEF CallOver, CallsOK, FarsOK
  <1>4. call'[o].todo = {} /\ call'[o].done = {} /\ far'[o].todo = {} /\ far'[o].done = {}
    BY NothingCalled DEF CallOver, CallsOK, FarsOK
  <1>5. Asked(o)' BY <1>4 DEF Asked
  <1>6. \A p \in Ops : Asked(p)' BY <1>3, <1>5, OthersAsked
  <1>7. WorldOK' BY DEF CallOver, world, Typed, WorldOK
  <1>. QED BY <1>1, <1>2, <1>6, <1>7 DEF Typed

\* What the world does leaves every conversation alone, and what only the
\* Operator does the rest.
LEMMA WorldTyped ==
    ASSUME Typed, WorldOK', OpsOK', UNCHANGED <<call, far>>
    PROVE  Typed'
  BY DEF Typed, CallsOK, FarsOK, Asked

-----------------------------------------------------------------------------
\* Every step keeps the types.
LEMMA NextTyped == Typed /\ [Next]_cleanup => Typed'
<1>. SUFFICES ASSUME Typed, [Next]_cleanup PROVE Typed'
  OBVIOUS
<1>. WorldOK /\ OpsOK /\ CallsOK /\ FarsOK BY DEF Typed
<1>1. ASSUME NEW s \in SessionIds, SessionStep(s) PROVE Typed'
  <2>. UNCHANGED <<op, call, far>>
    BY <1>1 DEF SessionStep, Start, SessionEnds, Serve, Command, CommandEnds, Acquire,
                Leave, Kill, OnRuntime
  <2>1. CASE Start(s) BY <2>1, WorldTyped DEF Start, WorldOK, OpsOK
  <2>2. CASE SessionEnds(s) BY <2>2, WorldTyped DEF SessionEnds, WorldOK, OpsOK
  <2>3. CASE Serve(s) BY <2>3, WorldTyped DEF Serve, OnRuntime, WorldOK, OpsOK
  <2>4. CASE Command(s)
    BY <2>4, WorldTyped, VersionsAssumption DEF Command, OnRuntime, WorldOK, OpsOK
  <2>5. CASE CommandEnds(s)
    <3>1. output[s].version + 1 \in 0 .. Versions
      BY <2>5, VersionsAssumption DEF CommandEnds, WorldOK
    <3>2. PICK n \in 0 .. Versions : output' = [output EXCEPT ![s].version = n]
      BY <2>5, <3>1 DEF CommandEnds
    <3>3. output' \in [SessionIds -> [kept : BOOLEAN, version : 0 .. Versions]]
      BY <3>2 DEF WorldOK
    <3>. QED BY <2>5, <3>3, WorldTyped DEF CommandEnds, OnRuntime, WorldOK, OpsOK
  <2>6. CASE Acquire(s) BY <2>6, WorldTyped DEF Acquire, OnRuntime, WorldOK, OpsOK
  <2>7. CASE Leave(s) BY <2>7, WorldTyped DEF Leave, OnRuntime, Free, WorldOK, OpsOK
  <2>8. CASE Kill(s) BY <2>8, WorldTyped DEF Kill, OnRuntime, WorldOK, OpsOK
  <2>. QED BY <1>1, <2>1, <2>2, <2>3, <2>4, <2>5, <2>6, <2>7, <2>8 DEF SessionStep
<1>9. CASE Recover
  BY <1>9, WorldTyped DEF Recover, OnRuntime, Free, WorldOK, OpsOK
<1>25. CASE MakeWay
  BY <1>25, WorldTyped, AgentsAssumption DEF MakeWay, WorldOK, OpsOK
<1>10. ASSUME NEW o \in Ops, Observe(o) PROVE Typed'
  <2>1. PICK seen \in Seen :
           far' = [far EXCEPT ![o].pc = "observed", ![o].seen = seen]
    BY <1>10 DEF Observe, Sights, Seen, WorldOK
  <2>2. FarsOK'
    <3>. DEFINE r == [far[o] EXCEPT !.pc = "observed", !.seen = seen]
    <3>1. far' = [far EXCEPT ![o] = r] BY <2>1 DEF FarsOK
    <3>2. far[o] \in FarStates BY DEF FarsOK, FarStates
    <3>3. r \in FarStates BY <2>1, <3>2 DEF FarStates
    <3>. QED BY <3>1, <3>3, FarChanged
  <2>3. WorldOK' /\ UNCHANGED <<op, call>> BY <1>10, OnlyLooked DEF Observe
  <2>4. far'[o].todo = far[o].todo /\ far'[o].done = far[o].done
    BY <2>1 DEF FarsOK
  <2>5. \A p \in Ops \ {o} : far'[p] = far[p] BY <2>1 DEF FarsOK
  <2>. QED BY <2>2, <2>3, <2>4, <2>5, FarTyped DEF Typed, Asked
<1>11. ASSUME NEW o \in Ops, Scan(o) PROVE Typed'
  <2>1. PICK live \in SUBSET SessionIds :
           far' = [far EXCEPT ![o].pc = "scanned", ![o].live = live]
    BY <1>11 DEF Scan
  <2>2. FarsOK'
    <3>. DEFINE r == [far[o] EXCEPT !.pc = "scanned", !.live = live]
    <3>1. far' = [far EXCEPT ![o] = r] BY <2>1 DEF FarsOK
    <3>2. far[o] \in FarStates BY DEF FarsOK, FarStates
    <3>3. r \in FarStates BY <2>1, <3>2 DEF FarStates
    <3>. QED BY <3>1, <3>3, FarChanged
  <2>3. WorldOK' /\ UNCHANGED <<op, call>> BY <1>11, OnlyLooked DEF Scan
  <2>4. far'[o].todo = far[o].todo /\ far'[o].done = far[o].done
    BY <2>1 DEF FarsOK
  <2>5. \A p \in Ops \ {o} : far'[p] = far[p] BY <2>1 DEF FarsOK
  <2>. QED BY <2>2, <2>3, <2>4, <2>5, FarTyped DEF Typed, Asked
<1>12. ASSUME NEW o \in Ops, List(o) PROVE Typed'
  <2>1. DOMAIN call[o].found \subseteq SessionIds BY DEF CallsOK, Findings
  <2>2. DOMAIN call[o].asked.outputs \subseteq SessionIds
    BY SMTT(30) DEF CallsOK, ItemSets, Listings
  <2>3. PICK listing \in Listings, todo \in SUBSET DOMAIN call[o].asked.outputs :
           far' = [far EXCEPT ![o].listing = listing, ![o].todo = todo,
                              ![o].live = {}, ![o].pc = "removes"]
    <3>. DEFINE kept == {s \in DOMAIN call[o].found : output[s].kept}
                listing == [s \in kept |-> [version |-> output[s].version,
                                            remove |-> Removable(o, s)]]
    <3>1. \A s \in SessionIds : Removable(o, s) \in BOOLEAN BY DEF Removable, Guarded
    <3>2. \A s \in SessionIds : output[s].version \in 0 .. Versions BY DEF WorldOK
    <3>3. listing \in [kept -> [version : 0 .. Versions, remove : BOOLEAN]]
      BY <2>1, <3>1, <3>2
    <3>4. listing \in Listings BY <2>1, <3>3 DEF Listings
    <3>. QED BY <1>12, <3>4 DEF List
  <2>4. todo \in SUBSET SessionIds BY <2>2
  <2>5. far' = [far EXCEPT ![o] = [@ EXCEPT !.listing = listing, !.todo = todo,
                                             !.live = {}, !.pc = "removes"]]
    BY <2>3 DEF FarsOK
  <2>6. FarsOK'
    <3>. DEFINE r == [far[o] EXCEPT !.listing = listing, !.todo = todo,
                                     !.live = {}, !.pc = "removes"]
    <3>1. far' = [far EXCEPT ![o] = r] BY <2>4, <2>5 DEF FarsOK
    <3>2. far[o] \in FarStates BY DEF FarsOK, FarStates
    <3>3. r \in FarStates BY <2>4, <2>5, <3>2 DEF FarStates
    <3>. QED BY <3>1, <3>3, FarChanged
  <2>7. WorldOK' /\ UNCHANGED <<op, call>> BY <1>12, OnlyLooked DEF List
  <2>8. far'[o].todo = todo /\ far'[o].done = far[o].done
    BY <2>5 DEF FarsOK
  <2>9. \A p \in Ops \ {o} : far'[p] = far[p] BY <2>5 DEF FarsOK
  <2>. QED BY <2>6, <2>7, <2>8, <2>9, FarTyped DEF Typed, Asked
<1>13. ASSUME NEW o \in Ops, RemoveOutput(o) PROVE Typed'
  <2>1. PICK s \in far[o].todo :
           \/ /\ output' = [output EXCEPT ![s].kept = FALSE]
              /\ far' = [far EXCEPT ![o].todo = @ \ {s}, ![o].done = @ \cup {s}]
           \/ /\ far' = [far EXCEPT ![o].todo = @ \ {s}]
              /\ UNCHANGED output
    BY <1>13 DEF RemoveOutput
  <2>2. s \in SessionIds /\ s \in DOMAIN call[o].asked.outputs
    BY <2>1 DEF FarsOK, Typed, Asked
  <2>3. output' \in [SessionIds -> [kept : BOOLEAN, version : 0 .. Versions]]
    <3>1. CASE output' = [output EXCEPT ![s].kept = FALSE] BY <2>2, <3>1 DEF WorldOK
    <3>. QED BY <2>1, <3>1 DEF WorldOK
  <2>4. FarsOK' BY <2>1, <2>2 DEF FarsOK
  <2>5. WorldOK' /\ UNCHANGED <<op, call>> BY <1>13, <2>3 DEF RemoveOutput, WorldOK
  <2>. QED BY <2>1, <2>2, <2>4, <2>5, FarTyped DEF Typed, Asked, FarsOK
<1>14. ASSUME NEW o \in Ops, Hears(o) PROVE Typed'
  <2>1. /\ far[o].seen \in Seen /\ far[o].listing \in Listings
        /\ far[o].done \in SUBSET SessionIds
    BY DEF FarsOK
  <2>. QED BY <1>14, <2>1, HeardTyped DEF Hears
<1>15. ASSUME NEW o \in Ops, AgentGivesUp(o) PROVE Typed'
  <2>1. Nobody \in Seen BY DEF Seen
  <2>2. Heard(o, FALSE, Nobody, NoItems.outputs, {}) BY <1>15 DEF AgentGivesUp
  <2>3. NoItems.outputs \in Listings BY Nothing
  <2>4. {} \in SUBSET SessionIds /\ FALSE \in BOOLEAN OBVIOUS
  <2>. QED BY <2>1, <2>2, <2>3, <2>4, HeardTyped, Zenon
<1>16. ASSUME NEW o \in Ops, RemoveRecord(o) PROVE Typed'
  <2>1. PICK s \in call[o].todo :
           \/ /\ record' = [record EXCEPT ![s] = "gone"]
              /\ call' = [call EXCEPT ![o].todo = @ \ {s}, ![o].done = @ \cup {s}]
           \/ /\ call' = [call EXCEPT ![o].todo = @ \ {s}]
              /\ UNCHANGED record
    BY <1>16 DEF RemoveRecord
  <2>2. s \in SessionIds /\ s \in DOMAIN call[o].asked.records
    BY <2>1 DEF CallsOK, Typed, Asked
  <2>3. CallsOK' BY <2>1, <2>2 DEF CallsOK
  <2>4. WorldOK' /\ UNCHANGED <<op, far>> BY <1>16, <2>1, <2>2 DEF RemoveRecord, WorldOK
  <2>5. \A p \in Ops \ {o} : call'[p] = call[p] /\ far'[p] = far[p]
    BY <2>1, <2>4 DEF CallsOK
  <2>6. Asked(o)' BY <2>1, <2>2, <2>4 DEF Typed, Asked, CallsOK
  <2>7. FarsOK' BY <2>4 DEF FarsOK
  <2>. QED BY <2>3, <2>4, <2>5, <2>6, <2>7, CallTyped
<1>17. ASSUME NEW o \in Ops, RemoveWorkdir(o) PROVE Typed'
  <2>1. call' = [call EXCEPT ![o].workdir = "gone"] /\ UNCHANGED <<op, far>>
    BY <1>17 DEF RemoveWorkdir
  <2>2. CallsOK' BY <2>1 DEF CallsOK, Workdirs
  <2>3. WorldOK' BY <1>17 DEF RemoveWorkdir, WorldOK
  <2>4. \A p \in Ops \ {o} : call'[p] = call[p] /\ far'[p] = far[p]
    BY <2>1 DEF CallsOK
  <2>5. Asked(o)' BY <2>1 DEF Typed, Asked, CallsOK
  <2>6. FarsOK' BY <2>1 DEF FarsOK
  <2>. QED BY <2>1, <2>2, <2>3, <2>4, <2>5, <2>6, CallTyped
<1>18. ASSUME NEW o \in Ops, Preview(o) PROVE Typed'
  <2>1. OpsOK' BY <1>18 DEF Preview, OpsOK
  <2>. QED BY <1>18, <2>1, CallOverTyped DEF Preview
<1>19. ASSUME NEW o \in Ops, Collect(o) PROVE Typed'
  <2>1. missed' \in [Ops -> SUBSET SessionIds] BY <1>19 DEF Collect, WorldOK
  <2>. QED BY <1>19, <2>1, AsksTyped, Nothing DEF Collect
<1>20. ASSUME NEW o \in Ops, Told(o) PROVE Typed'
  <2>1. call[o].items \in ItemSets BY DEF CallsOK
  <2>2. PICK items \in ItemSets : Collected(o, items) BY <1>20, <2>1, Nothing DEF Told
  <2>3. OpsOK'
    <3>1. CASE op' = [op EXCEPT ![o] = Idle] BY <3>1, IdleTyped
    <3>2. ASSUME NEW pc \in {"previewed", "applies"},
                 op' = [op EXCEPT ![o] = [op[o] EXCEPT !.items = items, !.pc = pc]]
          PROVE  OpsOK'
      <4>1. op[o] \in OpStates BY DEF OpsOK, OpStates
      <4>2. [op[o] EXCEPT !.items = items, !.pc = pc] \in OpStates
        BY <4>1 DEF OpStates
      <4>. QED BY <3>2, <4>2, OpChanged
    <3>. QED BY <2>2, <3>1, <3>2 DEF Collected
  <2>. QED BY <1>20, <2>3, CallOverTyped DEF Told
<1>21. ASSUME NEW o \in Ops, CarryOut(o) PROVE Typed'
  <2>1. op[o].items \in ItemSets BY DEF OpsOK
  <2>2. CASE ToRemove(op[o].items)
    BY <1>21, <2>1, <2>2, AsksTyped DEF CarryOut, WorldOK
  <2>3. CASE ~ToRemove(op[o].items)
    <3>1. OpsOK' BY <1>21, <2>3 DEF CarryOut, OpsOK
    <3>. QED BY <1>21, <2>3, <3>1, WorldTyped DEF CarryOut, AtOperator, world, WorldOK
  <2>. QED BY <2>2, <2>3
<1>22. ASSUME NEW o \in Ops, Conclude(o) PROVE Typed'
  <2>1. ASSUME NEW complete, Concludes(o, complete) PROVE OpsOK'
    <3>1. CASE op' = [op EXCEPT ![o] = Idle] BY <3>1, IdleTyped
    <3>2. CASE op' = [op EXCEPT ![o] = [op[o] EXCEPT !.items = NoItems, !.pc = "forgets"]]
      <4>1. op[o] \in OpStates BY DEF OpsOK, OpStates
      <4>2. [op[o] EXCEPT !.items = NoItems, !.pc = "forgets"] \in OpStates
        BY <4>1, Nothing DEF OpStates
      <4>. QED BY <3>2, <4>2, OpChanged
    <3>. QED BY <2>1, <3>1, <3>2 DEF Concludes
  <2>2. OpsOK' BY <1>22, <2>1 DEF Conclude
  <2>3. CASE CallOver(o) BY <2>2, <2>3, CallOverTyped
  <2>4. CASE AtOperator BY <2>2, <2>4, WorldTyped DEF AtOperator, world, WorldOK
  <2>. QED BY <1>22, <2>3, <2>4 DEF Conclude
<1>23. ASSUME NEW o \in Ops, Forget(o) PROVE Typed'
  <2>1. OpsOK' BY <1>23 DEF Forget, OpsOK
  <2>. QED BY <1>23, <2>1, WorldTyped, AgentsAssumption DEF Forget, WorldOK
<1>24. CASE UNCHANGED cleanup
  BY <1>24, WorldTyped DEF cleanup, world, WorldOK, OpsOK
<1>. QED
  BY <1>1, <1>9, <1>10, <1>11, <1>12, <1>13, <1>14, <1>15, <1>16, <1>17, <1>18, <1>19,
     <1>20, <1>21, <1>22, <1>23, <1>24, <1>25
  DEF Next, FarStep, OperatorStep

-----------------------------------------------------------------------------
(* What stays so of a session *)

\* It ended.
Ended(s) == record[s] \in {"ended", "gone"}

\* And has not the guard, which it can no longer take, but for a late server; if
\* who looks at the guard is told who has it.
Asleep(s) == Ended(s) /\ ({"late", "unnamed"} \cap Faults = {} => guard.by # s)

\* And has no server, and so can have none again.
Unserved(s) == Ended(s) /\ server[s] = "none"
Dormant(s) == Asleep(s) /\ Unserved(s)

\* It left nothing on the Runtime, and no command is left that could.
Empty(s) == Ended(s) /\ ~output[s].kept

\* A step leaves all of that as it is.
Settled(s) ==
    /\ Ended(s) => Ended(s)'
    /\ record[s] = "gone" => record'[s] = "gone"
    /\ Asleep(s) => Asleep(s)'
    /\ Unserved(s) => Unserved(s)'
    /\ Dormant(s) => Dormant(s)'
    /\ Empty(s) => Empty(s)'

\* What a listing says may go.
ItemsTrue(items) ==
    \A s \in SessionIds :
        /\ s \in DOMAIN items.records /\ items.records[s] =>
              Asleep(s) /\ (s \in DOMAIN items.outputs \/ Empty(s))
        /\ s \in DOMAIN items.outputs /\ items.outputs[s].remove => Dormant(s)

\* The Agent found it ended, when it was asked.
FoundEnded(o, s) == s \in DOMAIN call[o].found /\ call[o].found[s] = "ended"

\* What each end of a call has seen is so for good, where it concerns a session
\* that the Agent found ended before the Runtime was asked.
Talk(o) ==
    /\ ItemsTrue(op[o].items)
    /\ ItemsTrue(call[o].asked)
    /\ ItemsTrue(call[o].items)
    /\ \A s \in SessionIds :
          /\ FoundEnded(o, s) => Ended(s)
          /\ /\ far[o].pc \in {"observed", "scanned", "removes"}
             /\ FoundEnded(o, s) /\ ~Guarded(far[o].seen, s)
             => Asleep(s)
          /\ far[o].pc = "scanned" /\ FoundEnded(o, s) /\ s \notin far[o].live =>
                Unserved(s)
          /\ far[o].pc = "removes" =>
                /\ s \in DOMAIN far[o].listing /\ far[o].listing[s].remove => Dormant(s)
                /\ FoundEnded(o, s) => s \in DOMAIN far[o].listing \/ Empty(s)
          /\ s \in call[o].gone \cup far[o].done => Empty(s)

\* A session that the purge has yet to see gone: it did not start since.
Yet(o, s) == s \notin missed[o] /\ Recorded(s) /\ at[s] = op[o].agent

\* A purge knows every session of its Agent that did not start since it looked.
Purging(o) ==
    /\ \A s \in call[o].done : record[s] = "gone"
    /\ call[o].items.told => DOMAIN call[o].items.records = DOMAIN call[o].found
    /\ op[o].purge => op[o].pc \notin {"previewed", "asksAgain"}
    /\ op[o].pc \in {"forgets", "over"} => op[o].purge
    /\ op[o].agent = Unresolved => "config" \in Faults
    /\ \A s \in SessionIds : Yet(o, s) =>
          /\ op[o].purge /\ op[o].pc = "asks" => s \in DOMAIN call[o].found
          /\ op[o].purge /\ op[o].pc \in {"applies", "waits", "done"} /\ op[o].items.told =>
                s \in DOMAIN op[o].items.records
          /\ op[o].pc # "forgets"

\* A command that runs has its output, and output its record.
Kept ==
    \A s \in SessionIds :
        /\ server[s] = "running" => output[s].kept
        /\ output[s].kept => Recorded(s)

\* Some purge has seen every record of its Agent go but of sessions it missed.
Forgotten ==
    ~configured => \E o \in Ops : op[o].pc = "over" /\ \A s \in SessionIds : ~Yet(o, s)

\* The inductive invariant.
CleanupInv == Kept /\ Forgotten /\ \A o \in Ops : Talk(o) /\ Purging(o)

\* No step of any process wakes a session that ended, or gives it output.
LEMMA Settles ==
    ASSUME Typed, [Next]_cleanup
    PROVE  \A s \in SessionIds : Settled(s)
<1>. USE DEF Settled, Ended, Asleep, Unserved, Dormant, Empty
<1>. WorldOK BY DEF Typed
<1>1. ASSUME NEW t \in SessionIds, SessionStep(t), NEW s \in SessionIds PROVE Settled(s)
  <2>1. CASE Start(t) BY <2>1 DEF Start, WorldOK
  <2>2. CASE SessionEnds(t) BY <2>2 DEF SessionEnds, WorldOK
  <2>3. CASE Serve(t) BY <2>3 DEF Serve, OnRuntime, WorldOK
  <2>4. CASE Command(t) BY <2>4 DEF Command, OnRuntime, WorldOK
  <2>5. CASE CommandEnds(t) BY <2>5 DEF CommandEnds, OnRuntime, WorldOK
  <2>6. CASE Acquire(t) BY <2>6 DEF Acquire, OnRuntime, WorldOK
  <2>7. CASE Leave(t) BY <2>7, NobodyAssumption DEF Leave, OnRuntime, Free, WorldOK
  <2>8. CASE Kill(t) BY <2>8 DEF Kill, OnRuntime, WorldOK
  <2>. QED BY <1>1, <2>1, <2>2, <2>3, <2>4, <2>5, <2>6, <2>7, <2>8 DEF SessionStep
<1>2. CASE Recover
  BY <1>2, NobodyAssumption DEF Recover, OnRuntime, Free, WorldOK
<1>3. ASSUME NEW o \in Ops, RemoveOutput(o), NEW s \in SessionIds PROVE Settled(s)
  <2>1. UNCHANGED <<record, guard, server>> BY <1>3 DEF RemoveOutput
  <2>2. PICK t \in far[o].todo :
           output' = [output EXCEPT ![t].kept = FALSE] \/ UNCHANGED output
    BY <1>3 DEF RemoveOutput
  <2>3. output'[s].kept => output[s].kept
    <3>1. CASE output' = [output EXCEPT ![t].kept = FALSE]
      BY <3>1 DEF WorldOK
    <3>. QED BY <2>2, <3>1
  <2>. QED BY <2>1, <2>3
<1>4. ASSUME NEW o \in Ops, RemoveRecord(o), NEW s \in SessionIds PROVE Settled(s)
  <2>1. UNCHANGED <<output, guard, server>> BY <1>4 DEF RemoveRecord
  <2>2. record'[s] = record[s] \/ record'[s] = "gone" BY <1>4 DEF RemoveRecord, WorldOK
  <2>. QED BY <2>1, <2>2
<1>5. ASSUME UNCHANGED <<record, output, server, guard>>, NEW s \in SessionIds
      PROVE  Settled(s)
  BY <1>5
<1>7. MakeWay => UNCHANGED <<record, output, server, guard>>
  BY DEF MakeWay
<1>6. ASSUME NEW o \in Ops, FarStep(o) \/ OperatorStep(o)
      PROVE  UNCHANGED <<record, output, server, guard>> \/ RemoveOutput(o) \/ RemoveRecord(o)
  BY <1>6 DEF FarStep, OperatorStep, Observe, Scan, List, Hears, AgentGivesUp, Heard,
              RemoveWorkdir, Preview, Collect, Told, CarryOut, Conclude, Forget, AtFar,
              AtOperator, CallOver, world
<1>. QED BY <1>1, <1>2, <1>3, <1>4, <1>5, <1>6, <1>7 DEF Next, cleanup, world

\* A session is recorded by its start, which every purge on its way misses, and
\* stays on its Agent.
LEMMA Recording ==
    ASSUME Typed, [Next]_cleanup
    PROVE  /\ UNCHANGED at
           /\ \A s \in SessionIds : Recorded(s)' =>
                Recorded(s) \/ (configured /\ \A o \in Ops : s \in missed'[o])
<1>. USE DEF Recorded
<1>. WorldOK BY DEF Typed
<1>1. ASSUME NEW s \in SessionIds, NEW t \in SessionIds, Start(t), Recorded(s)'
      PROVE  Recorded(s) \/ (configured /\ \A o \in Ops : s \in missed'[o])
  BY <1>1 DEF Start, WorldOK
<1>2. ASSUME NEW s \in SessionIds, NEW t \in SessionIds, SessionEnds(t), Recorded(s)'
      PROVE  Recorded(s)
  BY <1>2 DEF SessionEnds, WorldOK
<1>3. ASSUME NEW s \in SessionIds, NEW o \in Ops, RemoveRecord(o), Recorded(s)' PROVE Recorded(s)
  BY <1>3 DEF RemoveRecord, WorldOK
<1>4. ASSUME NEW t \in SessionIds, SessionStep(t)
      PROVE  UNCHANGED at /\ (UNCHANGED record \/ Start(t) \/ SessionEnds(t))
  BY <1>4 DEF SessionStep, Start, SessionEnds, Serve, Command, CommandEnds, Acquire, Leave,
              Kill, OnRuntime
<1>5. ASSUME NEW o \in Ops, FarStep(o) \/ OperatorStep(o)
      PROVE  UNCHANGED at /\ (UNCHANGED record \/ RemoveRecord(o))
  BY <1>5 DEF FarStep, OperatorStep, Observe, Scan, List, RemoveOutput, Hears,
              AgentGivesUp, Heard, RemoveRecord, RemoveWorkdir, Preview, Collect, Told,
              CarryOut, Conclude, Forget, AtFar, AtOperator, CallOver, world
<1>6. MakeWay \/ Recover \/ UNCHANGED cleanup => UNCHANGED <<at, record>>
  BY DEF MakeWay, Recover, OnRuntime, cleanup, world
<1>. QED BY <1>1, <1>2, <1>3, <1>4, <1>5, <1>6 DEF Next

\* A conversation that does not move keeps what it knows.
LEMMA Bystander ==
    ASSUME Typed, [Next]_cleanup, NEW o \in Ops, Talk(o), Purging(o),
           op'[o] = op[o], call'[o] = call[o], far'[o] = far[o], missed[o] \subseteq missed'[o]
    PROVE  Talk(o)' /\ Purging(o)'
<1>1. \A s \in SessionIds : Settled(s) BY Settles
<1>2. \A s \in SessionIds : Yet(o, s)' => Yet(o, s)
  BY Recording DEF Yet
<1>3. Talk(o)'
  BY <1>1 DEF Talk, ItemsTrue, FoundEnded, Guarded, Settled
<1>4. \A s \in call[o].done : record'[s] = "gone"
  <2>1. call[o].done \subseteq SessionIds BY DEF Typed, CallsOK
  <2>. QED BY <1>1, <2>1 DEF Purging, Settled
<1>5. Purging(o)'
  BY <1>2, <1>4 DEF Purging
<1>. QED BY <1>3, <1>5

-----------------------------------------------------------------------------
(* Every step keeps CleanupInv *)

\* What is kept on the Runtime: written by a session that is on record, and gone
\* before its record is.
LEMMA NextKept ==
    ASSUME Typed, CleanupInv, [Next]_cleanup
    PROVE  Kept'
<1>. USE DEF Kept, Recorded
<1>. WorldOK /\ Kept BY DEF Typed, CleanupInv
<1>1. ASSUME NEW t \in SessionIds, SessionStep(t) PROVE Kept'
  <2>1. CASE Start(t) BY <2>1 DEF Start, WorldOK
  <2>2. CASE SessionEnds(t) BY <2>2 DEF SessionEnds, WorldOK
  <2>3. CASE Serve(t) BY <2>3 DEF Serve, OnRuntime, WorldOK
  <2>4. CASE Command(t) BY <2>4 DEF Command, OnRuntime, WorldOK
  <2>5. CASE CommandEnds(t) BY <2>5 DEF CommandEnds, OnRuntime, WorldOK
  <2>6. CASE Acquire(t) BY <2>6 DEF Acquire, OnRuntime, WorldOK
  <2>7. CASE Leave(t) BY <2>7 DEF Leave, OnRuntime, WorldOK
  <2>8. CASE Kill(t) BY <2>8 DEF Kill, OnRuntime, WorldOK
  <2>. QED BY <1>1, <2>1, <2>2, <2>3, <2>4, <2>5, <2>6, <2>7, <2>8 DEF SessionStep
<1>2. ASSUME NEW o \in Ops, RemoveOutput(o) PROVE Kept'
  <2>1. UNCHANGED <<record, server>> BY <1>2 DEF RemoveOutput
  <2>2. PICK s \in far[o].todo :
           \/ StillSo(o, s) /\ output' = [output EXCEPT ![s].kept = FALSE]
           \/ UNCHANGED output
    BY <1>2 DEF RemoveOutput
  <2>3. s \in SessionIds BY DEF Typed, FarsOK
  <2>4. CASE StillSo(o, s) /\ output' = [output EXCEPT ![s].kept = FALSE]
    <3>1. Dormant(s) BY <1>2, <2>3, <2>4 DEF CleanupInv, Talk, StillSo, RemoveOutput
    <3>. QED BY <2>1, <2>3, <2>4, <3>1 DEF Dormant, Unserved, WorldOK
  <2>5. CASE UNCHANGED output BY <2>1, <2>5
  <2>. QED BY <2>2, <2>4, <2>5
<1>3. ASSUME NEW o \in Ops, RemoveRecord(o) PROVE Kept'
  <2>1. UNCHANGED <<output, server>> BY <1>3 DEF RemoveRecord
  <2>2. PICK s \in call[o].todo :
           \/ ~Pending(o, s) /\ record' = [record EXCEPT ![s] = "gone"]
           \/ UNCHANGED record
    BY <1>3 DEF RemoveRecord
  <2>3. s \in SessionIds /\ s \in DOMAIN call[o].asked.records /\ call[o].asked.records[s]
    BY DEF Typed, CallsOK, Asked
  <2>4. CASE ~Pending(o, s) /\ record' = [record EXCEPT ![s] = "gone"]
    <3>1. Empty(s) BY <2>3, <2>4 DEF CleanupInv, Talk, ItemsTrue, Pending
    <3>. QED BY <2>1, <2>3, <2>4, <3>1 DEF Empty, WorldOK
  <2>5. CASE UNCHANGED record BY <2>1, <2>5
  <2>. QED BY <2>2, <2>4, <2>5
<1>4. ASSUME NEW o \in Ops, FarStep(o) \/ OperatorStep(o)
      PROVE  UNCHANGED <<record, output, server>> \/ RemoveOutput(o) \/ RemoveRecord(o)
  BY <1>4 DEF FarStep, OperatorStep, Observe, Scan, List, Hears, AgentGivesUp, Heard,
              RemoveWorkdir, Preview, Collect, Told, CarryOut, Conclude, Forget, AtFar,
              AtOperator, CallOver, world
<1>5. MakeWay \/ Recover \/ UNCHANGED cleanup => UNCHANGED <<record, output, server>>
  BY DEF MakeWay, Recover, OnRuntime, cleanup, world
<1>. QED BY <1>1, <1>2, <1>3, <1>4, <1>5 DEF Next

\* Nothing was seen, and nothing is to go.
LEMMA NothingTrue ==
    /\ ItemsTrue(NoItems) /\ ~NoItems.told
    /\ DOMAIN NoItems.records = {} /\ DOMAIN NoItems.outputs = {}
    /\ NoCall.asked = NoItems /\ NoCall.items = NoItems /\ DOMAIN NoCall.found = {}
    /\ NoCall.gone = {} /\ NoCall.done = {} /\ NoFar.pc = "none" /\ NoFar.done = {}
  BY DEF ItemsTrue, NoItems, NoCall, NoFar

\* What the Agent hears of the Runtime is so, and what it makes of it.
LEMMA HeardTrue ==
    ASSUME Typed, NEW o \in Ops, Talk(o), Purging(o), NEW asked \in BOOLEAN,
           NEW seen, NEW outputs \in Listings, NEW gone \in SUBSET SessionIds,
           Heard(o, asked, seen, outputs, gone),
           \A s \in SessionIds : Settled(s),
           \A s \in gone : Empty(s),
           \A s \in SessionIds :
              /\ s \in DOMAIN outputs /\ outputs[s].remove => Dormant(s)
              /\ asked /\ FoundEnded(o, s) =>
                    /\ Guarded(seen, s) \/ Asleep(s)
                    /\ s \in DOMAIN outputs \/ Empty(s)
    PROVE  Talk(o)' /\ Purging(o)'
<1>. CallsOK /\ FarsOK BY DEF Typed
<1>. DEFINE items == IF Applies(o) THEN NoItems ELSE Items(o, asked, seen, outputs)
<1>1. /\ call'[o].asked = call[o].asked /\ call'[o].found = call[o].found
      /\ call'[o].gone = gone /\ call'[o].done = call[o].done /\ call'[o].items = items
  BY DEF Heard, CallsOK
<1>2. ItemsTrue(items) /\ (items.told => DOMAIN items.records = DOMAIN call[o].found)
  <2>1. CASE Applies(o) BY <2>1, NothingTrue
  <2>2. CASE ~Applies(o)
    <3>1. items = Items(o, asked, seen, outputs) BY <2>2
    <3>2. items.outputs = outputs /\ DOMAIN items.records = DOMAIN call[o].found
      BY <3>1 DEF Items
    <3>3. \A s \in DOMAIN items.records : items.records[s] =>
             FoundEnded(o, s) /\ asked /\ ~Guarded(seen, s)
      BY <3>1 DEF Items, FoundEnded
    <3>4. ItemsTrue(items) BY <3>2, <3>3 DEF ItemsTrue
    <3>. QED BY <3>2, <3>4
  <2>. QED BY <2>1, <2>2
<1>. HIDE DEF items
<1>3. far'[o] = far[o] \/ far'[o] = NoFar BY DEF Heard, FarsOK
<1>4. UNCHANGED <<op, missed, record, at>> BY DEF Heard, world
<1>5. UNCHANGED <<output, server, guard>> BY DEF Heard, world
<1>6. ItemsTrue(op[o].items)' /\ ItemsTrue(call[o].asked)' /\ ItemsTrue(call[o].items)'
  BY <1>1, <1>2, <1>4 DEF Talk, ItemsTrue, Settled
<1>7. Talk(o)'
  BY <1>1, <1>3, <1>6, NothingTrue DEF Talk, FoundEnded, Guarded, Settled
<1>8. Purging(o)' BY <1>1, <1>2, <1>4 DEF Purging, Yet, Recorded
<1>. QED BY <1>7, <1>8

\* A call begins with what the Agent finds.
LEMMA AsksTrue ==
    ASSUME Typed, NEW o \in Ops, NEW items, ItemsTrue(items), NEW pc, Asks(o, pc, items),
           ItemsTrue(op[o].items), UNCHANGED world
    PROVE  /\ Talk(o)'
           /\ call'[o].done = {} /\ ~call'[o].items.told
           /\ DOMAIN call'[o].found =
                 {s \in SessionIds : Recorded(s) /\ at[s] = op[o].agent}
           /\ op'[o] = [op[o] EXCEPT !.pc = pc]
<1>. OpsOK /\ CallsOK /\ FarsOK BY DEF Typed
<1>1. /\ call'[o].asked = items /\ call'[o].found = Found(op[o].agent) /\ call'[o].items = NoItems
      /\ call'[o].gone = {} /\ call'[o].done = {}
  BY NothingTrue DEF Asks, CallsOK, NoCall
<1>2. far'[o].pc = "asked" /\ far'[o].done = {} BY DEF Asks, FarsOK, NoFar
<1>3. op'[o] = [op[o] EXCEPT !.pc = pc] BY DEF Asks, OpsOK
<1>4. op'[o].items = op[o].items BY <1>3 DEF OpsOK
<1>5. \A s \in SessionIds : FoundEnded(o, s)' => Ended(s)'
  BY <1>1 DEF FoundEnded, Found, Ended, world
<1>6. ItemsTrue(op[o].items)' /\ ItemsTrue(call[o].asked)' /\ ItemsTrue(call[o].items)'
  BY <1>1, <1>4, NothingTrue DEF ItemsTrue, world, Asleep, Unserved, Dormant, Empty, Ended
<1>7. Talk(o)' BY <1>1, <1>2, <1>5, <1>6 DEF Talk
<1>8. DOMAIN Found(op[o].agent) = {s \in SessionIds : Recorded(s) /\ at[s] = op[o].agent}
  BY DEF Found
<1>. QED BY <1>1, <1>3, <1>7, <1>8, NothingTrue

\* A call that is over leaves nothing behind that anybody goes by.
LEMMA OverTrue ==
    ASSUME Typed, NEW o \in Ops, CallOver(o), ItemsTrue(op'[o].items)
    PROVE  Talk(o)' /\ call'[o].done = {} /\ ~call'[o].items.told
<1>. CallsOK /\ FarsOK BY DEF Typed
<1>1. call'[o] = NoCall /\ far'[o] = NoFar BY DEF CallOver, CallsOK, FarsOK
<1>2. ItemsTrue(op[o].items)' /\ ItemsTrue(call[o].asked)' /\ ItemsTrue(call[o].items)'
  BY <1>1, NothingTrue DEF CallOver, ItemsTrue, world, Asleep, Unserved, Dormant, Empty, Ended
<1>3. Talk(o)' BY <1>1, <1>2, NothingTrue DEF Talk, FoundEnded
<1>. QED BY <1>1, <1>3, NothingTrue

\* A step of one conversation leaves the others as they are.
LEMMA StepsApart ==
    ASSUME Typed, NEW o \in Ops, FarStep(o) \/ OperatorStep(o), NEW p \in Ops \ {o}
    PROVE  op'[p] = op[p] /\ call'[p] = call[p] /\ far'[p] = far[p] /\ missed'[p] = missed[p]
<1>. OpsOK /\ CallsOK /\ FarsOK /\ WorldOK BY DEF Typed
<1>1. CASE FarStep(o)
  <2>1. CASE Observe(o) \/ Scan(o) \/ List(o)
    BY <2>1 DEF Observe, Scan, List, AtFar, FarsOK
  <2>2. CASE RemoveOutput(o)
    BY <2>2 DEF RemoveOutput, FarsOK
  <2>3. CASE Hears(o) \/ AgentGivesUp(o)
    BY <2>3 DEF Hears, AgentGivesUp, Heard, CallsOK, FarsOK
  <2>4. CASE RemoveRecord(o)
    BY <2>4 DEF RemoveRecord, CallsOK
  <2>5. CASE RemoveWorkdir(o)
    BY <2>5 DEF RemoveWorkdir, CallsOK
  <2>. QED BY <1>1, <2>1, <2>2, <2>3, <2>4, <2>5 DEF FarStep
<1>2. CASE OperatorStep(o)
  <2>1. CASE Preview(o)
    BY <2>1 DEF Preview, CallOver, OpsOK, CallsOK, FarsOK
  <2>2. CASE Collect(o)
    BY <2>2 DEF Collect, Asks, OpsOK, CallsOK, FarsOK, WorldOK
  <2>3. CASE Told(o)
    BY <2>3 DEF Told, Collected, CallOver, OpsOK, CallsOK, FarsOK
  <2>4. CASE CarryOut(o)
    BY <2>4 DEF CarryOut, Asks, AtOperator, OpsOK, CallsOK, FarsOK
  <2>5. CASE Conclude(o)
    BY <2>5 DEF Conclude, Concludes, AtOperator, CallOver, OpsOK, CallsOK, FarsOK
  <2>6. CASE Forget(o)
    BY <2>6 DEF Forget, OpsOK
  <2>. QED BY <1>2, <2>1, <2>2, <2>3, <2>4, <2>5, <2>6 DEF OperatorStep
<1>. QED BY <1>1, <1>2

\* What the two far ends of a call do.
LEMMA FarKeeps ==
    ASSUME Typed, Kept, NEW o \in Ops, Talk(o), Purging(o), FarStep(o),
           \A s \in SessionIds : Settled(s)
    PROVE  Talk(o)' /\ Purging(o)'
<1>. OpsOK /\ CallsOK /\ FarsOK /\ WorldOK BY DEF Typed
<1>. UNCHANGED <<op, missed, configured, at>>
  <2>1. CASE Observe(o) \/ Scan(o) \/ List(o)
    BY <2>1 DEF Observe, Scan, List, AtFar, world
  <2>2. CASE Hears(o) \/ AgentGivesUp(o)
    BY <2>2 DEF Hears, AgentGivesUp, Heard, world
  <2>3. CASE RemoveOutput(o) \/ RemoveRecord(o) \/ RemoveWorkdir(o)
    BY <2>3 DEF RemoveOutput, RemoveRecord, RemoveWorkdir
  <2>. QED BY <2>1, <2>2, <2>3 DEF FarStep
<1>1. ASSUME UNCHANGED <<call, record>> PROVE Purging(o)'
  BY <1>1 DEF Purging, Yet, Recorded
<1>2. ASSUME UNCHANGED call
      PROVE  /\ ItemsTrue(op[o].items)' /\ ItemsTrue(call[o].asked)'
             /\ ItemsTrue(call[o].items)'
  BY <1>2 DEF Talk, ItemsTrue, Settled
<1>3. CASE Observe(o)
  <2>1. UNCHANGED <<call, record, output, server, guard>> BY <1>3 DEF Observe, AtFar, world
  <2>2. /\ far'[o].seen \in Sights
        /\ far'[o].pc = "observed" /\ far'[o].done = far[o].done
    BY <1>3 DEF Observe, FarsOK
  <2>3. \A s \in SessionIds : FoundEnded(o, s) /\ ~Guarded(far'[o].seen, s) => Asleep(s)
    BY <2>2 DEF Sights, Guarded, Asleep, Talk
  <2>4. Talk(o)' BY <1>2, <2>1, <2>2, <2>3 DEF Talk, FoundEnded, Guarded, Settled
  <2>. QED BY <1>1, <2>1, <2>4
<1>4. CASE Scan(o)
  <2>1. UNCHANGED <<call, record>> BY <1>4 DEF Scan, AtFar, world
  <2>2. /\ far[o].pc = "observed" /\ far'[o].pc = "scanned"
        /\ far'[o].seen = far[o].seen /\ far'[o].done = far[o].done
        /\ \A s \in SessionIds : s \notin far'[o].live => server[s] = "none"
    BY <1>4 DEF Scan, FarsOK
  <2>4. \A s \in SessionIds : FoundEnded(o, s) /\ s \notin far'[o].live => Unserved(s)'
    BY <1>4, <2>1, <2>2 DEF Talk, Unserved, Ended, Scan, AtFar, world
  <2>3. Talk(o)' BY <1>2, <2>1, <2>2, <2>4 DEF Talk, FoundEnded, Guarded, Settled
  <2>. QED BY <1>1, <2>1, <2>3
<1>5. CASE List(o)
  <2>1. UNCHANGED <<call, record, output, server>> BY <1>5 DEF List, AtFar, world
  <2>2. /\ far[o].pc = "scanned" /\ far'[o].pc = "removes"
        /\ far'[o].seen = far[o].seen /\ far'[o].done = far[o].done
        /\ far'[o].listing = [s \in {s \in DOMAIN call[o].found : output[s].kept} |->
                                [version |-> output[s].version, remove |-> Removable(o, s)]]
    BY ZenonT(60), <1>5 DEF List, FarsOK
  <2>3. \A s \in SessionIds : s \in DOMAIN far'[o].listing /\ far'[o].listing[s].remove =>
           Dormant(s)
    BY <2>2 DEF Removable, Dormant, Talk, FoundEnded
  <2>4. \A s \in SessionIds : FoundEnded(o, s) => s \in DOMAIN far'[o].listing \/ Empty(s)
    BY <2>2 DEF FoundEnded, Empty, Talk
  <2>5. Talk(o)'
    BY <1>2, <2>1, <2>2, <2>3, <2>4 DEF Talk, FoundEnded, Guarded, Settled
  <2>. QED BY <1>1, <2>1, <2>5
<1>6. CASE RemoveOutput(o)
  <2>1. UNCHANGED <<call, record, server, guard>> /\ far[o].pc = "removes"
    BY <1>6 DEF RemoveOutput
  <2>2. PICK s \in far[o].todo :
           \/ /\ StillSo(o, s)
              /\ output' = [output EXCEPT ![s].kept = FALSE]
              /\ far' = [far EXCEPT ![o].todo = @ \ {s}, ![o].done = @ \cup {s}]
           \/ far' = [far EXCEPT ![o].todo = @ \ {s}]
    BY <1>6 DEF RemoveOutput
  <2>3. s \in SessionIds BY DEF FarsOK
  <2>4. /\ far'[o].pc = far[o].pc /\ far'[o].seen = far[o].seen
        /\ far'[o].listing = far[o].listing
    BY <2>2 DEF FarsOK
  <2>5. \A t \in far'[o].done : t \in far[o].done \/ Empty(t)'
    <3>1. CASE /\ StillSo(o, s)
               /\ output' = [output EXCEPT ![s].kept = FALSE]
               /\ far' = [far EXCEPT ![o].todo = @ \ {s}, ![o].done = @ \cup {s}]
      <4>1. far'[o].done = far[o].done \cup {s} BY <3>1 DEF FarsOK
      <4>2. ~output'[s].kept BY <2>3, <3>1 DEF WorldOK
      <4>3. Ended(s)' BY <2>1, <2>3, <3>1 DEF Talk, StillSo, Dormant, Asleep, Ended
      <4>. QED BY <4>1, <4>2, <4>3 DEF Empty
    <3>2. CASE far' = [far EXCEPT ![o].todo = @ \ {s}]
      BY <3>2 DEF FarsOK
    <3>. QED BY <2>2, <3>1, <3>2
  <2>6. far'[o].done \subseteq SessionIds BY <2>2, <2>3 DEF FarsOK
  <2>7. Talk(o)'
    BY <1>2, <2>1, <2>4, <2>5, <2>6 DEF Talk, FoundEnded, Guarded, Settled
  <2>. QED BY <1>1, <2>1, <2>7
<1>7. CASE Hears(o)
  <2>1. /\ Heard(o, TRUE, far[o].seen, far[o].listing, far[o].done)
        /\ far[o].pc = "removes"
    BY <1>7 DEF Hears
  <2>2. far[o].listing \in Listings /\ far[o].done \in SUBSET SessionIds BY DEF FarsOK
  <2>. QED BY <2>1, <2>2, HeardTrue DEF Talk
<1>8. CASE AgentGivesUp(o)
  <2>1. Heard(o, FALSE, Nobody, NoItems.outputs, {}) BY <1>8 DEF AgentGivesUp
  <2>2. NoItems.outputs \in Listings /\ {} \in SUBSET SessionIds /\ FALSE \in BOOLEAN
    BY Nothing
  <2>3. \A s \in SessionIds : s \notin DOMAIN NoItems.outputs BY NothingTrue
  <2>. QED BY <2>1, <2>2, <2>3, HeardTrue
<1>9. CASE RemoveRecord(o)
  <2>1. UNCHANGED <<far, output, server, guard>> BY <1>9 DEF RemoveRecord
  <2>2. PICK s \in call[o].todo :
           \/ /\ record' = [record EXCEPT ![s] = "gone"]
              /\ call' = [call EXCEPT ![o].todo = @ \ {s}, ![o].done = @ \cup {s}]
           \/ /\ call' = [call EXCEPT ![o].todo = @ \ {s}]
              /\ UNCHANGED record
    BY <1>9 DEF RemoveRecord
  <2>3. s \in SessionIds BY DEF CallsOK
  <2>4. /\ call'[o].asked = call[o].asked /\ call'[o].items = call[o].items
        /\ call'[o].found = call[o].found /\ call'[o].gone = call[o].gone
    BY <2>2 DEF CallsOK
  <2>5. /\ ItemsTrue(op[o].items)' /\ ItemsTrue(call[o].asked)'
        /\ ItemsTrue(call[o].items)'
    BY <2>4 DEF Talk, ItemsTrue, Settled
  <2>6. Talk(o)' BY <2>1, <2>4, <2>5 DEF Talk, FoundEnded, Guarded, Settled
  <2>7. \A t \in call'[o].done : record'[t] = "gone"
    <3>1. call[o].done \subseteq SessionIds BY DEF CallsOK
    <3>2. call'[o].done \subseteq call[o].done \cup {s} BY <2>2 DEF CallsOK
    <3>3. s \in call'[o].done => record'[s] = "gone" \/ s \in call[o].done
      BY <2>2, <2>3 DEF CallsOK, WorldOK
    <3>. QED BY <3>1, <3>2, <3>3 DEF Purging, Settled
  <2>8. \A t \in SessionIds : Yet(o, t)' => Yet(o, t)
    BY <2>2, <2>3 DEF Yet, Recorded, WorldOK
  <2>9. Purging(o)' BY <2>4, <2>7, <2>8 DEF Purging
  <2>. QED BY <2>6, <2>9
<1>10. CASE RemoveWorkdir(o)
  <2>1. call' = [call EXCEPT ![o].workdir = "gone"] /\ UNCHANGED <<far, record>>
    BY <1>10 DEF RemoveWorkdir
  <2>2. /\ call'[o].asked = call[o].asked /\ call'[o].items = call[o].items
        /\ call'[o].found = call[o].found /\ call'[o].gone = call[o].gone
        /\ call'[o].done = call[o].done
    BY <2>1 DEF CallsOK
  <2>3. /\ ItemsTrue(op[o].items)' /\ ItemsTrue(call[o].asked)'
        /\ ItemsTrue(call[o].items)'
    BY <2>2 DEF Talk, ItemsTrue, Settled
  <2>4. Talk(o)' BY <2>1, <2>2, <2>3 DEF Talk, FoundEnded, Guarded, Settled
  <2>5. Purging(o)' BY <2>1, <2>2 DEF Purging, Yet, Recorded
  <2>. QED BY <2>4, <2>5
<1>. QED BY <1>3, <1>4, <1>5, <1>6, <1>7, <1>8, <1>9, <1>10 DEF FarStep

\* What the Operator does with what it is told.
LEMMA OperatorKeeps ==
    ASSUME Typed, Kept, NEW o \in Ops, Talk(o), Purging(o), OperatorStep(o),
           \A s \in SessionIds : Settled(s)
    PROVE  Talk(o)' /\ Purging(o)'
<1>. OpsOK /\ CallsOK /\ FarsOK /\ WorldOK BY DEF Typed
<1>1. ASSUME op'[o].items = op[o].items \/ op'[o].items = NoItems,
             UNCHANGED <<call, far>>
      PROVE  Talk(o)'
  <2>1. ItemsTrue(op[o].items)'
    BY <1>1, NothingTrue DEF Talk, ItemsTrue, Settled
  <2>. QED BY <1>1, <2>1 DEF Talk, ItemsTrue, FoundEnded, Guarded, Settled
<1>2. CASE Preview(o)
  <2>1. CallOver(o) /\ UNCHANGED <<record, at, missed>>
    BY <1>2 DEF Preview, CallOver, world
  <2>2. PICK purge \in BOOLEAN, agent \in Agents \cup {Unresolved} :
           /\ agent = Unresolved => purge /\ "config" \in Faults
           /\ op' = [op EXCEPT ![o].purge = purge, ![o].agent = agent,
                   ![o].pc = IF agent = Unresolved THEN "forgets" ELSE "begins"]
    BY <1>2, AgentsAssumption DEF Preview, WorldOK
  <2>3. /\ op'[o].items = op[o].items /\ op'[o].purge = purge /\ op'[o].agent = agent
        /\ op'[o].pc = IF agent = Unresolved THEN "forgets" ELSE "begins"
    BY <2>2 DEF OpsOK
  <2>4. Talk(o)' /\ call'[o].done = {} /\ ~call'[o].items.told
    BY <2>1, <2>3, OverTrue DEF Talk
  <2>5. Purging(o)'
    <3>1. /\ \A s \in call'[o].done : record'[s] = "gone"
          /\ call'[o].items.told => DOMAIN call'[o].items.records = DOMAIN call'[o].found
      BY <2>4
    <3>2. op'[o].agent = Unresolved => "config" \in Faults BY <2>2, <2>3
    <3>3. op'[o].pc = "forgets" => \A s \in SessionIds : ~Yet(o, s)'
      BY <2>1, <2>3, AgentsAssumption DEF Yet, WorldOK
    <3>4. op'[o].pc \in {"begins", "forgets"} /\ (op'[o].pc = "forgets" => op'[o].purge)
      BY <2>2, <2>3
    <3>. QED BY <3>1, <3>2, <3>3, <3>4 DEF Purging
  <2>. QED BY <2>4, <2>5
<1>3. CASE Collect(o)
  <2>. DEFINE pc == IF op[o].pc = "begins" THEN "asks" ELSE "asksAgain"
  <2>1. UNCHANGED world /\ Asks(o, pc, NoItems) /\ op[o].pc \in {"begins", "previewed"}
    BY <1>3 DEF Collect
  <2>2. /\ Talk(o)' /\ call'[o].done = {} /\ ~call'[o].items.told
        /\ DOMAIN call'[o].found =
              {s \in SessionIds : Recorded(s) /\ at[s] = op[o].agent}
        /\ op'[o] = [op[o] EXCEPT !.pc = pc]
    BY <2>1, AsksTrue, NothingTrue DEF Talk
  <2>3. op'[o].pc = pc /\ op'[o].purge = op[o].purge /\ op'[o].agent = op[o].agent
    BY <2>2 DEF OpsOK
  <2>4. Purging(o)' BY <2>1, <2>2, <2>3 DEF Purging, Yet, Recorded, world
  <2>. QED BY <2>2, <2>4
<1>4. CASE Told(o)
  <2>1. CallOver(o) /\ op[o].pc \in {"asks", "asksAgain"} BY <1>4 DEF Told
  <2>2. PICK items \in ItemSets :
           Collected(o, items) /\ (items = call[o].items \/ items = NoItems)
    BY <1>4, Nothing DEF Told, CallsOK
  <2>3. \/ op'[o] = Idle
        \/ /\ op'[o].items = items /\ op'[o].purge = op[o].purge
           /\ op'[o].agent = op[o].agent
           /\ op'[o].pc = IF op[o].pc = "asks" /\ ~op[o].purge THEN "previewed"
                          ELSE "applies"
    BY <2>2 DEF Collected, OpsOK
  <2>4. ItemsTrue(items) /\ ItemsTrue(Idle.items) BY <2>2, NothingTrue DEF Talk, Idle
  <2>5. Talk(o)' /\ call'[o].done = {} /\ ~call'[o].items.told
    BY <2>1, <2>3, <2>4, OverTrue
  <2>6. items.told => DOMAIN items.records = DOMAIN call[o].found
    BY <2>2, NothingTrue DEF Purging
  <2>7. UNCHANGED <<record, at, missed>> BY <2>1 DEF CallOver, world
  <2>8. Purging(o)'
    <3>1. CASE op'[o] = Idle
      BY <2>5, <3>1, AgentsAssumption DEF Purging, Idle
    <3>2. CASE op'[o] # Idle
      BY <2>1, <2>3, <2>5, <2>6, <2>7, <3>2 DEF Purging, Yet, Recorded
    <3>. QED BY <3>1, <3>2
  <2>. QED BY <2>5, <2>8
<1>5. CASE CarryOut(o)
  <2>1. op[o].pc = "applies" /\ UNCHANGED <<world, missed>>
    BY <1>5 DEF CarryOut, AtOperator
  <2>2. CASE Asks(o, "waits", op[o].items)
    <3>1. /\ Talk(o)' /\ call'[o].done = {} /\ ~call'[o].items.told
          /\ op'[o] = [op[o] EXCEPT !.pc = "waits"]
      BY <2>1, <2>2, AsksTrue DEF Talk
    <3>2. /\ op'[o].pc = "waits" /\ op'[o].purge = op[o].purge
          /\ op'[o].items = op[o].items /\ op'[o].agent = op[o].agent
      BY <3>1 DEF OpsOK
    <3>3. Purging(o)' BY <2>1, <3>1, <3>2 DEF Purging, Yet, Recorded, world
    <3>. QED BY <3>1, <3>3
  <2>3. CASE op' = [op EXCEPT ![o].pc = "done"] /\ AtOperator
    <3>1. /\ op'[o].pc = "done" /\ op'[o].purge = op[o].purge
          /\ op'[o].items = op[o].items /\ op'[o].agent = op[o].agent
      BY <2>3 DEF OpsOK
    <3>2. UNCHANGED <<call, far>> BY <2>3 DEF AtOperator
    <3>3. Purging(o)' BY <2>1, <3>1, <3>2 DEF Purging, Yet, Recorded, world
    <3>. QED BY <1>1, <3>1, <3>2, <3>3
  <2>. QED BY <1>5, <2>2, <2>3 DEF CarryOut
<1>6. CASE Conclude(o)
  <2>1. PICK complete \in BOOLEAN :
           /\ Concludes(o, complete)
           /\ complete => op[o].pc \in {"waits", "done"} /\ NothingLeft(o)
    <3>1. NothingLeft(o) \in BOOLEAN BY DEF NothingLeft
    <3>. QED BY <1>6, <3>1 DEF Conclude
  <2>2. /\ op'[o].items = NoItems
        /\ \/ op'[o] = Idle
           \/ /\ op[o].purge /\ complete
              /\ op'[o].purge = op[o].purge /\ op'[o].agent = op[o].agent
              /\ op'[o].pc = "forgets"
    BY <2>1 DEF Concludes, OpsOK, Idle
  <2>3. CallOver(o) \/ AtOperator BY <1>6 DEF Conclude
  <2>4. UNCHANGED <<record, at, missed>> BY <2>3 DEF CallOver, AtOperator, world
  <2>5. /\ Talk(o)'
        /\ \A s \in call'[o].done : record'[s] = "gone"
        /\ call'[o].items.told => DOMAIN call'[o].items.records = DOMAIN call'[o].found
    <3>1. CASE CallOver(o) BY <2>2, <3>1, OverTrue, NothingTrue
    <3>2. CASE AtOperator BY <1>1, <2>2, <2>4, <3>2 DEF AtOperator, Purging
    <3>. QED BY <2>3, <3>1, <3>2
  <2>6. op[o].purge /\ complete => \A s \in SessionIds : ~Yet(o, s)
    BY <2>1 DEF NothingLeft, Purging, Yet, Recorded
  <2>7. Purging(o)'
    <3>1. CASE op'[o] = Idle
      BY <2>5, <3>1, AgentsAssumption DEF Purging, Idle
    <3>2. CASE op'[o] # Idle
      BY <2>2, <2>4, <2>5, <2>6, <3>2 DEF Purging, Yet, Recorded
    <3>. QED BY <3>1, <3>2
  <2>. QED BY <2>5, <2>7
<1>7. CASE Forget(o)
  <2>1. UNCHANGED <<call, far, record, at, missed>> BY <1>7 DEF Forget
  <2>2. /\ op'[o].items = op[o].items /\ op'[o].pc = "over"
        /\ op'[o].purge = op[o].purge /\ op'[o].agent = op[o].agent
        /\ op[o].pc = "forgets"
    BY <1>7 DEF Forget, OpsOK
  <2>3. Purging(o)' BY <2>1, <2>2 DEF Purging, Yet, Recorded
  <2>. QED BY <1>1, <2>1, <2>2, <2>3
<1>. QED BY <1>2, <1>3, <1>4, <1>5, <1>6, <1>7 DEF OperatorStep

\* The workspace is forgotten by a purge that left nothing, and nothing starts
\* in a workspace that was forgotten.
LEMMA NextForgotten ==
    ASSUME Typed, CleanupInv, [Next]_cleanup
    PROVE  Forgotten'
<1>. OpsOK BY DEF Typed
<1>1. CASE configured
  <2>1. UNCHANGED configured \/ \E o \in Ops : Forget(o)
    <3>1. ASSUME NEW s \in SessionIds, SessionStep(s) PROVE UNCHANGED configured
      BY <3>1 DEF SessionStep, Start, SessionEnds, Serve, Command, CommandEnds, Acquire,
                  Leave, Kill, OnRuntime
    <3>2. ASSUME NEW o \in Ops, FarStep(o) PROVE UNCHANGED configured
      BY <3>2 DEF FarStep, Observe, Scan, List, RemoveOutput, Hears, AgentGivesUp, Heard,
                  RemoveRecord, RemoveWorkdir, AtFar, world
    <3>3. ASSUME NEW o \in Ops, OperatorStep(o) PROVE UNCHANGED configured \/ Forget(o)
      BY <3>3 DEF OperatorStep, Preview, Collect, Told, CarryOut, Conclude, AtOperator,
                  CallOver, world
    <3>4. MakeWay \/ Recover \/ UNCHANGED cleanup => UNCHANGED configured
      BY DEF MakeWay, Recover, OnRuntime, cleanup, world
    <3>. QED BY <3>1, <3>2, <3>3, <3>4 DEF Next
  <2>2. ASSUME NEW o \in Ops, Forget(o) PROVE Forgotten'
    <3>1. /\ op'[o].pc = "over" /\ op[o].pc = "forgets" /\ op'[o].agent = op[o].agent
          /\ UNCHANGED <<record, at, missed>>
      BY <2>2 DEF Forget, OpsOK
    <3>. QED BY <3>1 DEF CleanupInv, Purging, Forgotten, Yet, Recorded
  <2>. QED BY <1>1, <2>1, <2>2 DEF Forgotten
<1>2. CASE ~configured
  <2>1. PICK o \in Ops : op[o].pc = "over" /\ \A s \in SessionIds : ~Yet(o, s)
    BY <1>2 DEF CleanupInv, Forgotten
  <2>2. UNCHANGED at /\ \A s \in SessionIds : Recorded(s)' => Recorded(s)
    BY <1>2, Recording
  <2>3. op'[o] = op[o] /\ missed'[o] = missed[o]
    <3>1. ASSUME NEW p \in Ops \ {o}, FarStep(p) \/ OperatorStep(p)
          PROVE  op'[o] = op[o] /\ missed'[o] = missed[o]
      BY <3>1, StepsApart
    <3>2. CASE FarStep(o)
      BY <3>2 DEF FarStep, Observe, Scan, List, RemoveOutput, Hears, AgentGivesUp, Heard,
                  RemoveRecord, RemoveWorkdir, AtFar
    <3>3. ~OperatorStep(o)
      BY <1>2, <2>1 DEF OperatorStep, Preview, Collect, Told, CarryOut, Conclude, Forget
    <3>4. ASSUME NEW s \in SessionIds, SessionStep(s) PROVE UNCHANGED <<op, missed>>
      BY <1>2, <3>4 DEF SessionStep, Start, SessionEnds, Serve, Command, CommandEnds, Acquire,
                        Leave, Kill, OnRuntime
    <3>5. MakeWay \/ Recover \/ UNCHANGED cleanup => UNCHANGED <<op, missed>>
      BY DEF MakeWay, Recover, OnRuntime, cleanup
    <3>. QED BY <3>1, <3>2, <3>3, <3>4, <3>5 DEF Next
  <2>. QED BY <2>1, <2>2, <2>3 DEF Forgotten, Yet
<1>. QED BY <1>1, <1>2

\* Every step keeps the invariant: the one conversation that moves by what it
\* does, the others as no step wakes a session.
LEMMA NextInv == Typed /\ CleanupInv /\ [Next]_cleanup => CleanupInv'
<1>. SUFFICES ASSUME Typed, CleanupInv, [Next]_cleanup PROVE CleanupInv'
  OBVIOUS
<1>1. Kept' BY NextKept
<1>2. Forgotten' BY NextForgotten
<1>3. \A s \in SessionIds : Settled(s) BY Settles
<1>4. ASSUME NEW p \in Ops PROVE Talk(p)' /\ Purging(p)'
  <2>. Kept /\ Talk(p) /\ Purging(p) BY DEF CleanupInv
  <2>. missed[p] \in SUBSET SessionIds /\ WorldOK BY DEF Typed, WorldOK
  <2>1. ASSUME NEW o \in Ops, FarStep(o) \/ OperatorStep(o), o # p
        PROVE  Talk(p)' /\ Purging(p)'
    BY <2>1, StepsApart, Bystander
  <2>2. CASE FarStep(p) BY <1>3, <2>2, FarKeeps
  <2>3. CASE OperatorStep(p) BY <1>3, <2>3, OperatorKeeps
  <2>4. ASSUME UNCHANGED <<op, call, far>>, missed[p] \subseteq missed'[p]
        PROVE  Talk(p)' /\ Purging(p)'
    BY <2>4, Bystander
  <2>5. ASSUME NEW s \in SessionIds, SessionStep(s) PROVE Talk(p)' /\ Purging(p)'
    <3>1. UNCHANGED <<op, call, far>> /\ missed[p] \subseteq missed'[p]
      BY <2>5 DEF SessionStep, Start, SessionEnds, Serve, Command, CommandEnds, Acquire, Leave,
                  Kill, OnRuntime
    <3>. QED BY <2>4, <3>1
  <2>6. CASE MakeWay \/ Recover \/ UNCHANGED cleanup
    BY <2>4, <2>6 DEF MakeWay, Recover, OnRuntime, cleanup
  <2>. QED BY <2>1, <2>2, <2>3, <2>5, <2>6 DEF Next
<1>. QED BY <1>1, <1>2, <1>4 DEF CleanupInv

-----------------------------------------------------------------------------
(* The results *)

\* CleanupInv holds in every reachable state, for any sessions, any number of
\* Operators and any faults.
THEOREM Cleaning == Spec => [](Typed /\ CleanupInv)
<1>1. Init => Typed /\ CleanupInv
  <2>. SUFFICES ASSUME Init PROVE Typed /\ CleanupInv
    OBVIOUS
  <2>1. WorldOK
    <3>1. at \in [SessionIds -> Agents] BY AgentsAssumption DEF Init
    <3>2. last \in Agents BY <3>1, AgentsAssumption DEF Init
    <3>. QED BY <3>1, <3>2, VersionsAssumption DEF Init, WorldOK, Free
  <2>2. OpsOK /\ CallsOK /\ FarsOK
    BY NothingCalled, Nothing DEF Init, OpsOK, CallsOK, FarsOK
  <2>3. ASSUME NEW o \in Ops PROVE Asked(o)
    BY NothingCalled DEF Init, Asked
  <2>4. Kept /\ Forgotten
    BY DEF Init, Kept, Forgotten, Recorded
  <2>5. ASSUME NEW o \in Ops PROVE Talk(o) /\ Purging(o)
    BY NothingTrue, AgentsAssumption DEF Init, Idle, Talk, Purging, FoundEnded
  <2>. QED BY <2>1, <2>2, <2>3, <2>4, <2>5 DEF Typed, CleanupInv
<1>. QED BY <1>1, NextTyped, NextInv, PTL DEF Spec

\* Every variable keeps its type, and what was removed was asked for.
THEOREM CleanupTyping == Spec => []TypeOK
<1>1. Typed => TypeOK
  BY DEF Typed, TypeOK, WorldOK, OpsOK, CallsOK, FarsOK, Asked
<1>. QED BY <1>1, Cleaning, PTL

\* The record that says whose output it is outlives the output, whatever part
\* of whose call failed or went on, and with a late server too.
THEOREM Findable == Spec => []FindableOutput
<1>1. CleanupInv => FindableOutput BY DEF CleanupInv, Kept, FindableOutput
<1>. QED BY <1>1, Cleaning, PTL

\* A workspace is forgotten by a purge, and the Agent that it asked has nothing
\* left then but of sessions that started while the purge was on its way.
THEOREM ForgottenIsEmpty == Spec => []ForgottenLeavesNothing
<1>1. CleanupInv => ForgottenLeavesNothing
  BY DEF CleanupInv, Kept, Forgotten, Purging, Yet, ForgottenLeavesNothing
<1>. QED BY <1>1, Cleaning, PTL

\* Nothing at all is left of it, on whatever Agent, but of such sessions.
NothingAnywhere ==
    ~configured =>
        \E o \in Ops :
            \A s \in SessionIds \ missed[o] : ~Recorded(s) /\ ~output[s].kept

\* So it is if no session was ever started on another Agent than the workspace's
\* own and the purge could tell where that is: both are needed, for the code
\* asks one Agent, or none, and forgets the workspace.
THEOREM ForgottenIsGone ==
    ASSUME Agents = {Own}, "config" \notin Faults
    PROVE  Spec => []NothingAnywhere
<1>1. Typed /\ CleanupInv => NothingAnywhere
  <2>. SUFFICES ASSUME Typed, CleanupInv, ~configured PROVE NothingAnywhere
    BY DEF NothingAnywhere
  <2>1. PICK o \in Ops : op[o].pc = "over" /\ \A s \in SessionIds : ~Yet(o, s)
    BY DEF CleanupInv, Forgotten
  <2>2. op[o].agent = Own
    <3>1. op[o].agent # Unresolved BY DEF CleanupInv, Purging
    <3>. QED BY <3>1 DEF Typed, OpsOK
  <2>3. \A s \in SessionIds : at[s] = Own BY DEF Typed, WorldOK
  <2>. QED BY <2>1, <2>2, <2>3 DEF CleanupInv, Kept, Yet, NothingAnywhere
<1>. QED BY <1>1, Cleaning, PTL

\* A session that has the guard, or abandoned it, keeps its record and its output,
\* and a server what it keeps, provided that a server whose session ended does
\* not take the guard after all, and that who looks at a guard is told whose it is.
THEOREM NeededStays ==
    ASSUME "late" \notin Faults, "unnamed" \notin Faults
    PROVE  Spec => NothingNeededGoes
<1>1. ASSUME Typed, CleanupInv, [Next]_cleanup, NEW s \in SessionIds
      PROVE  /\ guard.by = s /\ guard'.by = s =>
                   /\ output[s].kept => output'[s].kept
                   /\ Recorded(s) => Recorded(s)'
             /\ server[s] # "none" /\ output[s].kept => output'[s].kept
             /\ server'[s] = "running" => output'[s].kept
  <2>. {"late", "unnamed"} \cap Faults = {} /\ Typed /\ CleanupInv /\ s \in SessionIds BY <1>1
  <2>1. server'[s] = "running" => output'[s].kept BY <1>1, NextKept DEF Kept
  <2>2. ASSUME NEW o \in Ops, RemoveOutput(o), guard.by = s \/ server[s] # "none"
        PROVE  output'[s].kept = output[s].kept
    <3>1. PICK t \in far[o].todo :
             \/ StillSo(o, t) /\ output' = [output EXCEPT ![t].kept = FALSE]
             \/ UNCHANGED output
      BY <2>2 DEF RemoveOutput
    <3>2. t \in SessionIds BY DEF Typed, FarsOK
    <3>3. StillSo(o, t) => Dormant(t)
      BY <1>1, <2>2, <3>2 DEF CleanupInv, Talk, StillSo, RemoveOutput
    <3>4. StillSo(o, t) => t # s BY <2>2, <3>3 DEF Dormant, Asleep, Unserved
    <3>. QED BY <3>1, <3>2, <3>4 DEF Typed, WorldOK
  <2>3. ASSUME NEW o \in Ops, RemoveRecord(o), guard.by = s
        PROVE  record'[s] = record[s]
    <3>1. PICK t \in call[o].todo :
             record' = [record EXCEPT ![t] = "gone"] \/ UNCHANGED record
      BY <2>3 DEF RemoveRecord
    <3>2. t \in SessionIds /\ t \in DOMAIN call[o].asked.records /\ call[o].asked.records[t]
      BY DEF Typed, CallsOK, Asked
    <3>3. Asleep(t) BY <3>2 DEF CleanupInv, Talk, ItemsTrue
    <3>4. t # s BY <2>3, <3>3 DEF Asleep
    <3>. QED BY <3>1, <3>2, <3>4 DEF Typed, WorldOK
  <2>4. ASSUME NEW t \in SessionIds, SessionStep(t)
        PROVE  /\ output[s].kept => output'[s].kept
               /\ Recorded(s) => Recorded(s)'
    <3>. USE DEF Recorded
    <3>. WorldOK BY DEF Typed
    <3>1. CASE Start(t) BY <3>1 DEF Start, WorldOK
    <3>2. CASE SessionEnds(t) BY <3>2 DEF SessionEnds, WorldOK
    <3>3. CASE Command(t) BY <3>3 DEF Command, OnRuntime, WorldOK
    <3>4. CASE CommandEnds(t) BY <3>4 DEF CommandEnds, OnRuntime, WorldOK
    <3>5. CASE Serve(t) \/ Acquire(t) \/ Leave(t) \/ Kill(t)
      BY <3>5 DEF Serve, Acquire, Leave, Kill, OnRuntime
    <3>. QED BY <2>4, <3>1, <3>2, <3>3, <3>4, <3>5 DEF SessionStep
  <2>5. ASSUME NEW o \in Ops, FarStep(o) \/ OperatorStep(o)
        PROVE  /\ guard.by = s \/ server[s] # "none" => output'[s].kept = output[s].kept
               /\ guard.by = s => record'[s] = record[s]
    <3>1. \/ UNCHANGED <<record, output>>
          \/ RemoveOutput(o) /\ UNCHANGED record
          \/ RemoveRecord(o) /\ UNCHANGED output
      BY <2>5 DEF FarStep, OperatorStep, Observe, Scan, List, RemoveOutput, Hears,
                  AgentGivesUp, Heard, RemoveRecord, RemoveWorkdir, Preview, Collect, Told,
                  CarryOut, Conclude, Forget, AtFar, AtOperator, CallOver, world
    <3>. QED BY <2>2, <2>3, <2>5, <3>1
  <2>6. MakeWay \/ Recover \/ UNCHANGED cleanup => UNCHANGED <<record, output>>
    BY DEF MakeWay, Recover, OnRuntime, cleanup, world
  <2>. QED BY <1>1, <2>1, <2>4, <2>5, <2>6 DEF Next, Recorded
<1>2. Typed /\ CleanupInv /\ [Next]_cleanup =>
        \A s \in SessionIds :
          /\ guard.by = s /\ guard'.by = s =>
                /\ output[s].kept => output'[s].kept
                /\ Recorded(s) => Recorded(s)'
          /\ server[s] # "none" /\ output[s].kept => output'[s].kept
          /\ server'[s] = "running" => output'[s].kept
  BY <1>1
<1>. QED BY <1>2, Cleaning, PTL DEF Spec, NothingNeededGoes
=============================================================================
