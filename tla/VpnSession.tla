----------------------------- MODULE VpnSession -----------------------------
(***************************************************************************)
(* What the VPN service promises NetworkManager about its gpclient         *)
(* processes, without timers, flags, signals' delivery or libnm's states:  *)
(* one at a time; each ends either because it was asked to, and quietly,   *)
(* or by itself, and reported; SIGKILL only for one that was asked; and a  *)
(* service that leaves of its own accord leaves nothing running.           *)
(***************************************************************************)
EXTENDS Integers

CONSTANT Child      \* gpclient processes, positive numbers

VARIABLES
    phase,      \* idle, running, stopping; interrupted by a signal or
                \*   leaving of its own accord; gone
    current,    \* the gpclient, or 0
    requested,  \* those asked to stop
    killed,     \* those sent SIGKILL
    reported,   \* those whose end NetworkManager was told of
    ended       \* those that are reaped

vars == <<phase, current, requested, killed, reported, ended>>

Init ==
    /\ phase = "idle" /\ current = 0
    /\ requested = {} /\ killed = {} /\ reported = {} /\ ended = {}

\* A gpclient is launched; none is left from before.
Launch(c) ==
    /\ phase = "idle"
    /\ c \notin requested \cup reported \cup ended
    /\ phase' = "running" /\ current' = c
    /\ UNCHANGED <<requested, killed, reported, ended>>

\* Somebody wants the session to end.
Request ==
    /\ phase = "running"
    /\ phase' = "stopping"
    /\ requested' = requested \cup {current}
    /\ UNCHANGED <<current, killed, reported, ended>>

Kill ==
    /\ phase = "stopping"
    /\ killed' = killed \cup {current}
    /\ UNCHANGED <<phase, current, requested, reported, ended>>

\* The gpclient is reaped, and the service may leave at once.
End(quiet) ==
    /\ phase = IF quiet THEN "stopping" ELSE "running"
    /\ phase' \in {"idle", "leaving"}
    /\ current' = 0
    /\ ended' = ended \cup {current}
    /\ reported' = IF quiet THEN reported ELSE reported \cup {current}
    /\ UNCHANGED <<requested, killed>>

\* With no gpclient the service may leave.
Leave ==
    /\ phase = "idle"
    /\ phase' = "leaving"
    /\ UNCHANGED <<current, requested, killed, reported, ended>>

\* With no gpclient nothing is left to do.
Exit ==
    /\ phase = "leaving"
    /\ phase' = "gone"
    /\ UNCHANGED <<current, requested, killed, reported, ended>>

\* A signal to the service ends its main loop at any time.
Interrupt ==
    /\ phase \in {"idle", "running", "stopping"}
    /\ phase' = "interrupted"
    /\ UNCHANGED <<current, requested, killed, reported, ended>>

\* Then it may ask a gpclient that is left to stop, but does not wait for it.
Abandon ==
    /\ phase = "interrupted"
    /\ phase' = "gone"
    /\ requested' \in {requested} \cup
                      (IF current = 0 THEN {} ELSE {requested \cup {current}})
    /\ UNCHANGED <<current, killed, reported, ended>>

Next ==
    \/ \E c \in Child : Launch(c)
    \/ Request \/ Kill \/ Leave \/ Exit \/ Interrupt \/ Abandon
    \/ \E quiet \in BOOLEAN : End(quiet)

Spec == Init /\ [][Next]_vars
=============================================================================
