----------------------------- MODULE AuthDialog -----------------------------
(***************************************************************************)
(* The authentication dialog nm-gpclient-auth-dialog: a process that the   *)
(* desktop's secret agent starts, that runs gpauth (the browser sign-on),  *)
(* prints the secrets gpauth returns, and waits to be dismissed.           *)
(*                                                                         *)
(* The dialog is single-threaded; the agent (on stdin), Unix signals,      *)
(* gpauth and the browser that gpauth starts run concurrently with it.     *)
(* One pass of the poll loop of collect_auth is two actions, Poll and      *)
(* Reap, because gpauth may end between the poll and the waitpid of a      *)
(* pass.  The line "QUIT\n" is read byte by byte; here it is two pieces,   *)
(* "QU" and "IT\n", so that it can be split between any two reads.  What   *)
(* gpauth writes is counted in chunks, one per read.                       *)
(***************************************************************************)
EXTENDS Naturals, Sequences

CONSTANTS
    Json,       \* chunks of the authentication JSON that gpauth prints
    Capacity,   \* chunks a pipe holds before its writer blocks
    Faults      \* what may fail, a subset of AllFaults

\* "version": gpauth is missing or too old.  "spawn", "poll", "read":
\* g_spawn_async_with_pipes, poll, a pipe's read fail.  "wait": SIGCHLD is
\* ignored, so that the kernel reaps gpauth, and waitpid fails.
AllFaults == {"version", "spawn", "poll", "read", "wait"}

ASSUME ConstantsAssumption ==
    /\ Json \in Nat \ {0}
    /\ Capacity \in Nat \ {0}
    /\ Faults \subseteq AllFaults

Pipes == {"out", "err"}

VARIABLES
    pc,             \* where the dialog is
    interrupted,    \* set by the handler of SIGTERM, SIGINT and SIGHUP
    line,           \* the part of a line read from stdin so far
    \* locals of collect_auth; open is the set of pipes not closed yet,
    \* buffer the chunks of gpauth's stdout read so far
    cancelled, exited, ok, kill_at, open, buffer,
    printed,        \* the secrets have been written to the agent
    \* the agent: pieces of QUIT sent, unread input, stdin closed
    sent, input, eof,
    \* gpauth: life, written and unread chunks per pipe, signals received;
    \* held is the set of pipes that the browser has inherited
    gpauth, success, written, unread, signals, held,
    stray,          \* history: signals sent to a pid that was gpauth's before
    heard           \* history: the dialog was told to stop in time

dialogVars == <<pc, line, cancelled, exited, ok, kill_at, open, buffer, printed>>
agentVars == <<sent, input, eof>>
gpauthVars == <<gpauth, success, written, unread, signals, stray, held>>
vars == <<pc, interrupted, line, cancelled, exited, ok, kill_at, open, buffer,
          printed, sent, input, eof, gpauth, success, written, unread,
          signals, stray, held, heard>>

Ended == {"exit", "killed"}     \* the dialog is gone

TypeOK ==
    /\ pc \in {"start", "version", "spawn", "poll", "reap", "check", "print",
               "wait"} \cup Ended
    /\ interrupted \in BOOLEAN
    /\ line \in {"empty", "QU"}
    /\ cancelled \in BOOLEAN /\ exited \in BOOLEAN /\ ok \in BOOLEAN
    /\ kill_at \in {"unset", "later", "past"}
    /\ open \subseteq Pipes
    /\ buffer \in 0 .. Json
    /\ printed \in BOOLEAN
    /\ sent \in 0 .. 2
    /\ input \in Seq({"QU", "IT"})
    /\ eof \in BOOLEAN
    /\ gpauth \in {"none", "forked", "armed", "live", "zombie", "freed", "gone"}
    /\ success \in BOOLEAN
    /\ written \in [Pipes -> 0 .. Json]
    /\ unread \in [Pipes -> 0 .. Capacity]
    /\ signals \subseteq {"TERM", "KILL"}
    /\ stray \in Nat
    /\ held \subseteq Pipes
    /\ heard \in BOOLEAN

Init ==
    /\ pc = "start" /\ interrupted = FALSE /\ line = "empty"
    /\ cancelled = FALSE /\ exited = FALSE /\ ok = TRUE
    /\ kill_at = "unset" /\ open = {} /\ buffer = 0
    /\ printed = FALSE
    /\ sent = 0 /\ input = <<>> /\ eof = FALSE
    /\ gpauth = "none" /\ success = FALSE
    /\ written = [p \in Pipes |-> 0] /\ unread = [p \in Pipes |-> 0]
    /\ signals = {} /\ stray = 0 /\ held = {}
    /\ heard = FALSE

-----------------------------------------------------------------------------
(* The dialog up to the poll loop.                                         *)

\* main() up to run_gpauth: bad arguments, a profile without a server or no
\* cookie end it; without interaction an existing cookie is used as it is.
Start ==
    /\ pc = "start"
    /\ \/ pc' = "exit" /\ UNCHANGED buffer
       \/ pc' = "check" /\ buffer' = Json
       \/ pc' = "version" /\ UNCHANGED buffer
    /\ UNCHANGED <<interrupted, line, cancelled, exited, ok, kill_at, open,
                   printed, agentVars, gpauthVars, heard>>

\* Faulty variant: a signal during the check of the version is overlooked.
CheckVersion_deaf ==
    /\ pc = "version"
    /\ pc' = "spawn" /\ gpauth' = "forked"
    /\ UNCHANGED <<interrupted, line, cancelled, exited, ok, kill_at, open,
                   buffer, printed, agentVars, success, written, unread,
                   signals, stray, held, heard>>

\* nm_gpclient_check_version, then the first lines of collect_auth: nothing
\* is started once a signal has arrived.
CheckVersion ==
    /\ pc = "version"
    /\ \/ /\ ~interrupted
          /\ pc' = "spawn" /\ gpauth' = "forked"
       \/ /\ interrupted \/ Faults \cap {"version", "spawn"} # {}
          /\ pc' = "exit" /\ UNCHANGED gpauth
    /\ UNCHANGED <<interrupted, line, cancelled, exited, ok, kill_at, open,
                   buffer, printed, agentVars, success, written, unread,
                   signals, stray, held, heard>>

\* g_spawn_async_with_pipes returns once the child has called exec, or has
\* failed to; then it is reaped and an error returned.
SpawnReturns ==
    /\ pc = "spawn"
    /\ gpauth \notin {"forked", "armed"}
    /\ pc' = "poll"
    /\ open' = Pipes
    /\ UNCHANGED <<interrupted, line, cancelled, exited, ok, kill_at, buffer,
                   printed, agentVars, gpauthVars, heard>>

-----------------------------------------------------------------------------
(* The poll loop of collect_auth.                                          *)

Alive == gpauth \in {"forked", "armed", "live"}

\* A pipe is readable if it has data, or nobody has its write end any more.
Readable(p) == unread[p] > 0 \/ ~(Alive \/ p \in held)

Ready == {p \in open : Readable(p)}

\* One read of stdin, and whether it is the request to stop: the end of the
\* line QUIT, end of file, or a read that fails.
take_input ==
    /\ line' = IF input = <<>> THEN line
               ELSE IF Head(input) = "QU" THEN "QU" ELSE "empty"
    /\ input' = IF input = <<>> THEN input ELSE Tail(input)
StopRead ==
    \/ input = <<>> /\ eof
    \/ input # <<>> /\ Head(input) = "IT" /\ line = "QU"

\* Faulty variants: stderr is left alone while stdout is open; an empty read
\* is taken for data.
drain_in_order(R, failed) ==
    LET D == IF "out" \in open THEN R \cap {"out"} ELSE R IN
    /\ unread' = [p \in Pipes |-> IF p \in D /\ unread[p] > 0
                                  THEN unread[p] - 1 ELSE unread[p]]
    /\ buffer' = IF "out" \in D /\ unread["out"] > 0 THEN buffer + 1 ELSE buffer
    /\ open' = open \ ({p \in D : unread[p] = 0} \cup failed)
drain_unchecked(R, failed) ==
    /\ unread' = [p \in Pipes |-> IF p \in R /\ unread[p] > 0
                                  THEN unread[p] - 1 ELSE unread[p]]
    /\ buffer' = IF "out" \in R THEN buffer + 1 ELSE buffer
    /\ open' = open \ ({p \in R : unread[p] = 0} \cup failed)

\* Each ready pipe: one chunk is read, or it is at its end and is closed.  A
\* pipe whose read fails is closed as well.
drain(R, failed) ==
    /\ unread' = [p \in Pipes |-> IF p \in R \ failed /\ unread[p] > 0
                                  THEN unread[p] - 1 ELSE unread[p]]
    /\ buffer' = IF "out" \in R \ failed /\ unread["out"] > 0
                 THEN buffer + 1 ELSE buffer
    /\ open' = open \ ({p \in R : unread[p] = 0} \cup failed)

\* A signal reaches gpauth, which may be a zombie, or whoever has the pid now.
kill(sig) ==
    IF gpauth \in {"live", "zombie"}
    THEN signals' = signals \cup {sig} /\ UNCHANGED stray
    ELSE stray' = stray + 1 /\ UNCHANGED signals

\* Faulty variant: a gpauth that ignores SIGTERM is waited for.
stop_gpauth_politely ==
    IF ~exited /\ kill_at = "unset"
    THEN kill("TERM") /\ kill_at' = "later"
    ELSE UNCHANGED <<signals, stray, kill_at>>

\* SIGTERM at once, SIGKILL two seconds later, to a gpauth that waitpid has
\* not reported yet.
stop_gpauth ==
    \/ /\ ~exited /\ kill_at = "unset"
       /\ kill("TERM") /\ kill_at' = "later"
    \/ /\ ~exited /\ kill_at = "past"
       /\ kill("KILL") /\ UNCHANGED kill_at
    \/ /\ exited \/ kill_at = "later"
       /\ UNCHANGED <<signals, stray, kill_at>>

\* poll and everything it leads to before waitpid.  It fails with EINTR when
\* a signal arrives, or for good; stdin is polled until cancelled; the read
\* of a pipe may fail, which closes it.
Poll ==
    /\ pc = "poll"
    /\ \E woken \in BOOLEAN, failed \in SUBSET Ready :
          /\ woken \/ interrupted \/ "poll" \in Faults
          /\ failed = {} \/ (woken /\ "read" \in Faults)
          /\ LET stop == woken /\ ~cancelled /\ StopRead IN
             /\ cancelled' = (cancelled \/ interrupted \/ ~woken \/ stop)
             /\ heard' = (heard \/ stop)
          /\ IF woken /\ ~cancelled THEN take_input ELSE UNCHANGED <<line, input>>
          /\ drain(IF woken THEN Ready ELSE {}, failed)
          /\ ok' = (ok /\ failed = {} /\ (woken \/ interrupted))
    /\ IF cancelled' THEN stop_gpauth ELSE UNCHANGED <<signals, stray, kill_at>>
    /\ pc' = "reap"
    /\ UNCHANGED <<interrupted, exited, printed, sent, eof, gpauth, success,
                   written, held>>

\* Faulty variants: the loop ends with the process, output unread or not; a
\* cancelled loop does not wait for the process.
LoopDone_early == exited'
LoopDone_abandon == (exited' /\ open = {}) \/ cancelled

\* When the loop of collect_auth ends: gpauth is reaped, and either both pipes
\* are drained to their end or the request is cancelled.
LoopDone == exited' /\ (open = {} \/ cancelled)

\* Faulty variant: a waitpid that fails does not count as gpauth's end.
wait_gpauth_retried ==
    IF ~exited /\ gpauth = "zombie"
    THEN exited' = TRUE /\ gpauth' = "gone" /\ UNCHANGED ok
    ELSE UNCHANGED <<exited, gpauth, ok>>

\* waitpid, unless gpauth is known to have exited.  It fails if the kernel has
\* reaped gpauth already.
wait_gpauth ==
    IF ~exited /\ gpauth \in {"zombie", "freed"}
    THEN /\ exited' = TRUE /\ gpauth' = "gone"
         /\ ok' = (ok /\ gpauth = "zombie")
    ELSE UNCHANGED <<exited, gpauth, ok>>

\* The end of a pass.  After the loop run_gpauth wants a normal exit and some
\* output.
Reap ==
    /\ pc = "reap"
    /\ wait_gpauth
    /\ pc' = IF ~LoopDone THEN "poll"
             ELSE IF ok' /\ ~cancelled /\ success /\ buffer > 0 THEN "check"
             ELSE "exit"
    /\ UNCHANGED <<interrupted, line, cancelled, kill_at, open, buffer, printed,
                   agentVars, success, written, unread, signals, stray, held, heard>>

-----------------------------------------------------------------------------
(* The dialog after gpauth.                                                *)

\* Faulty variant: main() does not look at interrupted again.
Check_missing ==
    /\ pc = "check"
    /\ pc' = "print"
    /\ UNCHANGED <<interrupted, line, cancelled, exited, ok, kill_at, open,
                   buffer, printed, agentVars, gpauthVars, heard>>

Check ==
    /\ pc = "check"
    /\ pc' = IF interrupted THEN "exit" ELSE "print"
    /\ UNCHANGED <<interrupted, line, cancelled, exited, ok, kill_at, open,
                   buffer, printed, agentVars, gpauthVars, heard>>

\* The secrets go to the agent.  wait_for_quit_or_eof has a line of its own.
PrintSecrets ==
    /\ pc = "print"
    /\ printed' = TRUE
    /\ line' = "empty"
    /\ pc' = "wait"
    /\ UNCHANGED <<interrupted, cancelled, exited, ok, kill_at, open, buffer,
                   agentVars, gpauthVars, heard>>

\* wait_for_quit_or_eof: QUIT, end of file, a signal, or 30 s of silence.
WaitForQuit ==
    /\ pc = "wait"
    /\ \/ /\ ~interrupted
          /\ input # <<>> \/ eof
          /\ take_input
          /\ pc' = IF StopRead THEN "exit" ELSE "wait"
       \/ /\ interrupted \/ (input = <<>> /\ ~eof)
          /\ pc' = "exit"
          /\ UNCHANGED <<line, input>>
    /\ UNCHANGED <<interrupted, cancelled, exited, ok, kill_at, open, buffer,
                   printed, sent, eof, gpauthVars, heard>>

-----------------------------------------------------------------------------
(* The agent, signals, time, gpauth and the browser.                       *)

\* The agent sends the next piece of QUIT.
AgentSends ==
    /\ sent < 2 /\ ~eof /\ pc \notin Ended
    /\ sent' = sent + 1
    /\ input' = Append(input, IF sent = 0 THEN "QU" ELSE "IT")
    /\ UNCHANGED <<dialogVars, interrupted, eof, gpauthVars, heard>>

AgentCloses ==
    /\ ~eof
    /\ eof' = TRUE
    /\ UNCHANGED <<dialogVars, interrupted, sent, input, gpauthVars, heard>>

\* auth_interrupted.  It is in time until main() has looked for the last time.
Signal ==
    /\ pc \notin Ended /\ ~interrupted
    /\ interrupted' = TRUE
    /\ heard' = (heard \/ pc \notin {"print", "wait"})
    /\ UNCHANGED <<dialogVars, agentVars, gpauthVars>>

\* The dialog is killed outright: the kernel kills a gpauth that has armed
\* PR_SET_PDEATHSIG, and init reaps it.
DialogKilled ==
    /\ pc \notin Ended
    /\ pc' = "killed"
    /\ gpauth' = IF gpauth \in {"armed", "live", "zombie", "freed"} THEN "gone"
                 ELSE gpauth
    /\ UNCHANGED <<interrupted, line, cancelled, exited, ok, kill_at, open,
                   buffer, printed, agentVars, success, written, unread,
                   signals, stray, held, heard>>

\* Two seconds have passed since SIGTERM.
KillTimePasses ==
    /\ kill_at = "later"
    /\ kill_at' = "past"
    /\ UNCHANGED <<pc, interrupted, line, cancelled, exited, ok, open, buffer,
                   printed, agentVars, gpauthVars, heard>>

gpauthOnly == UNCHANGED <<dialogVars, interrupted, agentVars, heard>>

\* auth_child_setup: prctl, then exec only if the parent is still there.
ChildArms ==
    /\ gpauth = "forked"
    /\ gpauth' = "armed"
    /\ gpauthOnly /\ UNCHANGED <<success, written, unread, signals, stray, held>>

\* Faulty variant: the parent is not looked for.
ChildExecs_trusting ==
    /\ gpauth = "armed"
    /\ gpauth' = "live"
    /\ gpauthOnly /\ UNCHANGED <<success, written, unread, signals, stray, held>>

ChildExecs ==
    /\ gpauth = "armed"
    /\ gpauth' = IF pc = "killed" THEN "gone" ELSE "live"
    /\ gpauthOnly /\ UNCHANGED <<success, written, unread, signals, stray, held>>

\* gpauth writes a chunk; it blocks while the pipe is full.
GpauthWrites(p) ==
    /\ gpauth = "live"
    /\ written[p] < Json /\ unread[p] < Capacity
    /\ written' = [written EXCEPT ![p] = @ + 1]
    /\ unread' = [unread EXCEPT ![p] = @ + 1]
    /\ gpauthOnly /\ UNCHANGED <<gpauth, success, signals, stray, held>>

\* gpauth starts a browser, which inherits its pipes and may outlive it.
BrowserStarts ==
    /\ gpauth = "live" /\ held = {}
    /\ held' = Pipes
    /\ gpauthOnly /\ UNCHANGED <<gpauth, success, written, unread, signals, stray>>

BrowserEnds ==
    /\ held # {}
    /\ held' = {}
    /\ gpauthOnly /\ UNCHANGED <<gpauth, success, written, unread, signals, stray>>

\* gpauth ends: with exit status 0 when it has printed everything, or else.
\* It is a zombie until the dialog waits for it, unless the kernel reaps it at
\* once: then its pid is free from here on.
GpauthEnds ==
    /\ gpauth = "live"
    /\ \/ pc \in Ended /\ gpauth' = "gone"
       \/ pc \notin Ended /\ gpauth' = "zombie"
       \/ pc \notin Ended /\ "wait" \in Faults /\ gpauth' = "freed"
    /\ success' \in {FALSE, written["out"] = Json}
    /\ gpauthOnly /\ UNCHANGED <<written, unread, signals, stray, held>>

Dialog == \/ Start \/ CheckVersion \/ SpawnReturns \/ Poll \/ Reap \/ Check
          \/ PrintSecrets \/ WaitForQuit

Next ==
    \/ Start \/ CheckVersion \/ SpawnReturns \/ Poll \/ Reap \/ Check
    \/ PrintSecrets \/ WaitForQuit
    \/ AgentSends \/ AgentCloses \/ Signal \/ DialogKilled \/ KillTimePasses
    \/ ChildArms \/ ChildExecs \/ GpauthEnds \/ BrowserStarts \/ BrowserEnds
    \/ \E p \in Pipes : GpauthWrites(p)

Spec == Init /\ [][Next]_vars

\* The dialog and a child between fork and exec run; time passes; a process
\* that was sent SIGKILL dies.  Nothing is assumed of the agent, of the
\* browser, or of a gpauth that was sent SIGTERM only.
Fairness ==
    /\ WF_vars(Dialog)
    /\ WF_vars(ChildArms) /\ WF_vars(ChildExecs)
    /\ WF_vars(KillTimePasses)
    /\ WF_vars("KILL" \in signals /\ GpauthEnds)

FairSpec == Spec /\ Fairness

-----------------------------------------------------------------------------
(* Properties.                                                             *)

\* A dialog that was told to stop, by a QUIT or end of file it read while
\* gpauth was running or by a signal before its last look, prints no secret.
NoSecretAfterStop == printed => ~heard

\* What is printed is all of what a successful gpauth wrote, however its
\* output was split over the passes, or a cookie that was there before.
SecretIsWhole ==
    printed => /\ buffer = Json
               /\ gpauth = "none" \/ (gpauth = "gone" /\ success)

\* The dialog leaves no gpauth behind, running or unreaped.
ReapsGpauth == pc = "exit" => gpauth \in {"none", "gone"}

\* The dialog does not signal a pid that is no longer gpauth's, however gpauth's
\* end falls between poll, kill and waitpid: never one that it has reaped itself,
\* and if the kernel reaps gpauth at most one, for it takes the waitpid of the
\* same pass to learn that gpauth has gone.
SignalsOwnGpauth ==
    /\ pc \in {"poll", "reap"} /\ ~exited => gpauth # "gone"
    /\ stray <= (IF "wait" \in Faults THEN 1 ELSE 0)

\* The dialog as SignOn sees it.
Stage ==
    CASE pc \in {"start", "version"} -> "idle"
      [] pc \in {"spawn", "poll", "reap"} -> (IF cancelled THEN "stopping" ELSE "asking")
      [] pc \in {"check", "print"} -> "ready"
      [] pc = "wait" -> "given"
      [] pc = "exit" -> "ended"
      [] pc = "killed" -> "killed"
Life == CASE gpauth = "none" -> "none" [] gpauth \in {"freed", "gone"} -> "over" [] OTHER -> "running"
Given == IF ~printed THEN "none" ELSE IF buffer = Json THEN "whole" ELSE "part"

Abstract == INSTANCE SignOn WITH
    stage <- Stage, gpauth <- Life, signals <- signals, told <- heard,
    secret <- Given

\* With its poll loop, pipes, timer and five ways of failing, the dialog does
\* only what SignOn promises: gpauth is not started once a signal has come,
\* not signalled unless the sign-on is given up, killed only after it was
\* asked to end, and a sign-on that was given up never yields a secret.
ImplementsSignOn == Abstract!Spec

\* A request to stop ends the dialog, even when gpauth ignores SIGTERM, a
\* browser keeps the pipes open, or QUIT is split over two readers.
StopEnds == (interrupted \/ eof \/ sent = 2) ~> pc \in Ended

\* A gpauth that has filled a pipe is not left blocked: both are drained.
NeverBlocksGpauth ==
    \A p \in Pipes : (gpauth = "live" /\ unread[p] = Capacity /\ pc = "poll")
                       ~> (unread[p] < Capacity \/ pc \in Ended \/ p \notin open)

\* A gpauth whose dialog was killed dies too, even if it was between fork and
\* exec then.
OrphanDies == pc = "killed" ~> gpauth \in {"none", "gone"}
=============================================================================
