--------------------------- MODULE SessionPromise ---------------------------
(***************************************************************************)
(* What `ccnm rpc` promises a client about the sessions it accepts, with   *)
(* none of the records, processes and calls that keep the promise:         *)
(*                                                                         *)
(*   - a start key names one session for ever, and only the session that   *)
(*     its key names is ever sent to the Agent;                            *)
(*   - a session that a stop reached before it was sent is never sent;     *)
(*   - "completed" and "failed" are said of a session only when nothing of *)
(*     it runs, and nothing of it runs afterwards.  "unknown" promises     *)
(*     nothing of the kind.                                                *)
(***************************************************************************)

CONSTANTS Sessions, Keys, KeyOf, Nobody

VARIABLES
    named,      \* named[k]: the session that the start key k names
    stage,      \* stage[s]: "idle", "sent" to the Agent, or "barred" from it
    work,       \* work[s]: "none", "going" or "over", on the Agent
    verdict     \* verdict[s]: "open", "settled" (completed or failed), "unknown"

promised == <<named, stage, work, verdict>>

Init ==
    /\ named = [k \in Keys |-> Nobody]
    /\ stage = [s \in Sessions |-> "idle"]
    /\ work = [s \in Sessions |-> "none"]
    /\ verdict = [s \in Sessions |-> "open"]

Name(s) ==
    /\ named[KeyOf[s]] = Nobody
    /\ named' = [named EXCEPT ![KeyOf[s]] = s]
    /\ UNCHANGED <<stage, work, verdict>>

Send(s) ==
    /\ stage[s] = "idle"
    /\ named[KeyOf[s]] = s
    /\ stage' = [stage EXCEPT ![s] = "sent"]
    /\ UNCHANGED <<named, work, verdict>>

Bar(s) ==
    /\ stage[s] = "idle"
    /\ stage' = [stage EXCEPT ![s] = "barred"]
    /\ UNCHANGED <<named, work, verdict>>

Begin(s) ==
    /\ stage[s] = "sent"
    /\ work[s] = "none"
    /\ verdict[s] # "settled"
    /\ work' = [work EXCEPT ![s] = "going"]
    /\ UNCHANGED <<named, stage, verdict>>

Cease(s) ==
    /\ work[s] = "going"
    /\ work' = [work EXCEPT ![s] = "over"]
    /\ UNCHANGED <<named, stage, verdict>>

Settle(s) ==
    /\ verdict[s] = "open"
    /\ work[s] # "going"
    /\ verdict' = [verdict EXCEPT ![s] = "settled"]
    /\ stage' = [stage EXCEPT ![s] = IF @ = "idle" THEN "barred" ELSE @]
    /\ UNCHANGED <<named, work>>

LoseTrack(s) ==
    /\ verdict[s] = "open"
    /\ stage[s] = "sent"
    /\ verdict' = [verdict EXCEPT ![s] = "unknown"]
    /\ UNCHANGED <<named, stage, work>>

Next ==
    \E s \in Sessions :
        Name(s) \/ Send(s) \/ Bar(s) \/ Begin(s) \/ Cease(s) \/ Settle(s) \/ LoseTrack(s)

Spec == Init /\ [][Next]_promised
=============================================================================
