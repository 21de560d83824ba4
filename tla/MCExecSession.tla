--------------------------- MODULE MCExecSession ---------------------------
(***************************************************************************)
(* ExecSession with a foreground command, a background one, or both.       *)
(***************************************************************************)
EXTENDS ExecSession

CONSTANTS fg, bg

Both == {fg, bg}
OneBackground == {bg}

\* Where the code answers for the thread it cannot have, and where it panics.
HandledFailures == {"attach", "wait"}
AnyFailure == HandledFailures \cup {"pump", "stop_all"}

ClientStops == {"cancel", "stop_command"}
AnyStop == ClientStops \cup {"watchdog"}
AnyOffspring == {"member", "stray"} \X {"holding", "quiet"}

\* A Linux server on which nothing fails, one command of which may fork what
\* holds its pipes.
Quiet(calls) ==
    [calls |-> calls, adopts |-> TRUE, killerMayFail |-> FALSE, noThread |-> {},
     asked |-> {}, offspring |-> {<<"stray", "holding">>}]
Mac(calls) == [Quiet(calls) EXCEPT !.adopts = FALSE]

\* One command of either kind and whatever may happen to it; two commands that
\* share stop_all, the runtime and the sweep; and the server of a Mac.
Worst(calls, failures) ==
    [calls |-> calls, adopts |-> TRUE, killerMayFail |-> TRUE, noThread |-> failures,
     asked |-> AnyStop, offspring |-> AnyOffspring]
Hard ==
    {Worst({bg}, AnyFailure), Worst({bg}, AnyFailure \ {"stop_all"}),
     Worst({fg}, AnyFailure \ {"stop_all"}),
     [Quiet(Both) EXCEPT !.noThread = HandledFailures],
     [Mac(Both) EXCEPT !.offspring = {"stray"} \X {"holding", "quiet"}]}

\* kill can be run, and the server gets its threads or answers for them.  What
\* holds no pipe keeps nobody waiting.
OneCommand(c) ==
    [Quiet({c}) EXCEPT !.noThread = HandledFailures, !.asked = ClientStops,
                       !.offspring = {"member", "stray"} \X {"holding"}]
Orderly == {OneCommand(fg), OneCommand(bg)}

\* Where the finding shows.
NoThreadToStop == {[Quiet({bg}) EXCEPT !.noThread = {"stop_all"}]}
=============================================================================
