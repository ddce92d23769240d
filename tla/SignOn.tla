------------------------------- MODULE SignOn -------------------------------
(***************************************************************************)
(* What the authentication dialog promises the agent that runs it, without *)
(* the poll loop, pipes, buffers, or the ways in which it is told to stop: *)
(* at most one gpauth, never started for an agent that has withdrawn,      *)
(* signalled only to give the sign-on up, and reaped before the dialog     *)
(* ends; and a secret is whole, and is given only if nobody said stop.     *)
(***************************************************************************)

VARIABLES
    stage,      \* idle, asking, stopping, ready, given; ended or killed
    gpauth,     \* none, running, or over: reaped by the dialog or by init
    signals,    \* what the dialog has sent gpauth
    told,       \* the dialog was told to stop
    secret      \* what the agent has been given: none or whole

vars == <<stage, gpauth, signals, told, secret>>

Init ==
    /\ stage = "idle" /\ gpauth = "none" /\ signals = {}
    /\ told = FALSE /\ secret = "none"

\* A gpauth is started, unless it is known to be in vain.
Ask ==
    /\ stage = "idle" /\ ~told
    /\ stage' = "asking" /\ gpauth' = "running"
    /\ UNCHANGED <<signals, told, secret>>

\* There is a secret from before.
Reuse ==
    /\ stage = "idle"
    /\ stage' = "ready"
    /\ UNCHANGED <<gpauth, signals, told, secret>>

\* The sign-on is given up, because the dialog is told to stop now, was told
\* before, or cannot go on.  A gpauth that runs is asked to end.
Stop ==
    /\ stage = "asking"
    /\ stage' = "stopping"
    /\ signals' = IF gpauth = "running" THEN {"TERM"} ELSE {}
    /\ told' \in {told, TRUE}
    /\ UNCHANGED <<gpauth, secret>>

\* Asking did not help.
Kill ==
    /\ stage = "stopping" /\ gpauth = "running"
    /\ signals' = {"TERM", "KILL"}
    /\ UNCHANGED <<stage, gpauth, told, secret>>

\* gpauth is over.  The loop may go on until its output is read; the last
\* step leads to a secret, or to the end, and never from giving up to a secret.
Reaped ==
    /\ stage \in {"asking", "stopping"}
    /\ gpauth' = "over"
    /\ stage' \in {stage, "ended"} \cup (IF stage = "asking" THEN {"ready"} ELSE {})
    /\ UNCHANGED <<signals, told, secret>>

\* The agent is given the whole secret.
Give ==
    /\ stage = "ready" /\ ~told
    /\ stage' = "given" /\ secret' = "whole"
    /\ UNCHANGED <<gpauth, signals, told>>

\* The dialog ends, with nothing of it left.
End ==
    /\ stage \in {"idle", "ready", "given"}
    /\ stage' = "ended"
    /\ UNCHANGED <<gpauth, signals, told, secret>>

\* The dialog is told to stop, in time for it to matter.
Tell ==
    /\ stage \in {"idle", "asking", "stopping", "ready"}
    /\ told' = TRUE
    /\ UNCHANGED <<stage, gpauth, signals, secret>>

\* The dialog is killed; a gpauth that has not been told to die with it yet
\* may live for a moment.
Killed ==
    /\ stage \notin {"ended", "killed"}
    /\ stage' = "killed"
    /\ gpauth' \in IF gpauth = "running" THEN {"running", "over"} ELSE {gpauth}
    /\ UNCHANGED <<signals, told, secret>>
OrphanEnds ==
    /\ stage = "killed" /\ gpauth = "running"
    /\ gpauth' = "over"
    /\ UNCHANGED <<stage, signals, told, secret>>

Next ==
    \/ Ask \/ Reuse \/ Stop \/ Kill \/ Reaped \/ Give \/ End \/ Tell
    \/ Killed \/ OrphanEnds

Spec == Init /\ [][Next]_vars
=============================================================================
