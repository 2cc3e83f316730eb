----------------------------- MODULE MCDemoApp ------------------------------
EXTENDS DemoApp

\* One bound on what comes from outside: of the faults, the command and the
\* section change, any two.
AnyTwo == faults + commands + resets <= 2

-----------------------------------------------------------------------------
(* The view: what a later step or a property can still tell apart.  An      *)
(* operation is only ever compared with the newest one, a loop that is not  *)
(* current uses its answer no more, and of an error the screens only ask    *)
(* whether there is one.                                                    *)

LiveStart(r) == <<start[r].pc, start[r].mode, start[r].seen, InFlight(r) /\ Current(r)>>
LivePoll == IF IsCurrent THEN [poll EXCEPT !.operation = 1]
            ELSE [poll EXCEPT !.operation = 0, !.answer = Nothing, !.failures = 0]

Live == <<backend, late, opened, [r \in Runs |-> LiveStart(r)], LivePoll,
          {<<c.call, c.run, c.pc, c.heard>> : c \in sent}, settled,
          requested, runId, progress, report, error = Nothing,
          terminalMessage = Nothing, busy, bounds,
          screen, mode, inputs, stored>>
=============================================================================
