---------------------------- MODULE AgentPromise ----------------------------
(***************************************************************************)
(* What an Agent promises about a session whose id the Runtime assigned,   *)
(* with none of the processes, locks and files that keep the promise:      *)
(*                                                                         *)
(*   - one request owns the id, and only a run that owns it ever begins;   *)
(*   - it begins once, and not after a stop was confirmed;                 *)
(*   - a stop is confirmed only when nothing of the session runs;          *)
(*   - how it ended is said once, and "stopped" only of what is over.      *)
(*                                                                         *)
(* A session that went astray, because a start or a record was lost track  *)
(* of, is promised nothing but its owner.  A record may be forgotten when  *)
(* the session is over.                                                    *)
(***************************************************************************)

VARIABLES
    owner,      \* "nobody", or what made the id its own: a "run" or a "stop"
    life,       \* "none", "going" or "over": everything of the session
    outcome,    \* how it is said to have ended, or "none"
    sealed,     \* a stop was confirmed
    astray

promised == <<owner, life, outcome, sealed, astray>>

Init ==
    /\ owner = "nobody"
    /\ life = "none"
    /\ outcome = "none"
    /\ ~sealed
    /\ ~astray

Claim(who) ==
    /\ owner = "nobody"
    /\ owner' = who
    /\ UNCHANGED <<life, outcome, sealed, astray>>

Begin ==
    /\ owner = "run"
    /\ life = "none"
    /\ outcome = "none"
    /\ ~sealed
    /\ life' = "going"
    /\ UNCHANGED <<owner, outcome, sealed, astray>>

\* What is said of the end may be said before it or with it.
Cease ==
    /\ life = "going"
    /\ life' = "over"
    /\ outcome' = outcome \/ (outcome = "none" /\ outcome' \in {"failed", "ended"})
    /\ UNCHANGED <<owner, sealed, astray>>

Say(o) ==
    /\ outcome = "none"
    /\ o = "stopped" => life = "over"
    /\ outcome' = o
    /\ UNCHANGED <<owner, life, sealed, astray>>

Seal ==
    /\ life # "going"
    /\ sealed'
    /\ outcome' = outcome \/ (outcome = "none" /\ outcome' = "stopped")
    /\ UNCHANGED <<owner, life, astray>>

Forget ==
    /\ life # "going"
    /\ outcome' = "none"
    /\ UNCHANGED <<owner, life, sealed, astray>>

GoAstray ==
    /\ owner = "run"
    /\ astray'
    /\ owner' = owner

Next ==
    \/ \E who \in {"run", "stop"} : Claim(who)
    \/ Begin \/ Cease \/ Seal \/ Forget
    \/ \E o \in {"failed", "ended", "stopped"} : Say(o)
    \/ GoAstray

Spec == Init /\ [][Next]_promised
=============================================================================
