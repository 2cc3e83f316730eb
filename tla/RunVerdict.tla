----------------------------- MODULE RunVerdict -----------------------------
(***************************************************************************)
(* What the lifecycle of a run promises, with the pipeline taken away.     *)
(* A run is started at most once.  The runner reaches one verdict, ever,   *)
(* and only on a run that was started; the user may withdraw the run.      *)
(* Neither waits for the other: a verdict may land on a withdrawn run and  *)
(* a withdrawal on a decided one, and status is whichever came last.       *)
(***************************************************************************)
CONSTANT Verdicts  \* "completed" and "failed"

VARIABLES status, verdict

Init == status = "queued" /\ verdict = "none"

Start == status = "queued" /\ status' = "running" /\ UNCHANGED verdict

Decide == /\ status # "queued"
          /\ verdict = "none"
          /\ verdict' \in Verdicts
          /\ status' = verdict'

\* Once withdrawn, a run is only changed by a verdict that was on its way.
Withdraw == status # "cancelled" /\ status' = "cancelled" /\ UNCHANGED verdict

Next == Start \/ Decide \/ Withdraw

Spec == Init /\ [][Next]_<<status, verdict>>

\* A decided run never runs again, and its verdict stands.
VerdictStands ==
    [][verdict # "none" => verdict' = verdict /\ status' # "running"]_<<status, verdict>>
=============================================================================
