-------------------------- MODULE AuthDialogProofs --------------------------
(***************************************************************************)
(* Proofs about AuthDialog, for every length of gpauth's output, every     *)
(* pipe capacity and every set of faults.                                  *)
(***************************************************************************)
EXTENDS AuthDialog, TLAPS

Looping == {"poll", "reap"}
Done == {"none", "gone"}

\* Where the dialog is, and what has become of gpauth by then.
FlowFits ==
    /\ pc \in {"start", "version"} => gpauth = "none" /\ buffer = 0
    /\ pc \in {"start", "version", "spawn"} => ~exited
    /\ pc = "spawn" => gpauth \in {"forked", "armed", "live", "zombie", "freed"}
    /\ pc \in Looping => gpauth \in {"live", "zombie", "freed", "gone"}
    /\ pc \in Looping => (exited <=> gpauth = "gone")
    /\ pc = "exit" => gpauth \in Done

\* Every chunk of stdout that gpauth wrote is in the pipe or in the buffer,
\* and a pipe is only closed in good order when nothing more can come.
ChunksFit ==
    /\ gpauth = "none" => written["out"] = 0 /\ unread["out"] = 0
    /\ gpauth # "none" => buffer + unread["out"] = written["out"]
    /\ success => gpauth \in {"zombie", "freed", "gone"} /\ written["out"] = Json
    /\ pc \in Looping /\ ok /\ "out" \notin open
         => unread["out"] = 0 /\ gpauth \in {"zombie", "freed", "gone"}

\* From the last check on, there is a whole secret.
SecretFits ==
    /\ pc \in {"check", "print", "wait"} \/ printed
         => /\ buffer = Json
            /\ gpauth = "none" \/ (gpauth = "gone" /\ success)
    /\ printed => pc \in {"wait"} \cup Ended

\* A request to stop that was heard is remembered in a variable that the
\* dialog has yet to look at.
StopFits ==
    /\ heard /\ pc \in {"start", "version", "spawn", "check"} => interrupted
    /\ heard /\ pc \in Looping => cancelled \/ interrupted
    /\ pc \in {"print", "wait"} \/ printed => ~heard

\* A signal goes astray only while the dialog has yet to learn that the kernel
\* has reaped gpauth; the pass in which it does is the last to send one.
StrayFits ==
    /\ gpauth = "freed" => "wait" \in Faults
    /\ stray # 0 => /\ stray = 1 /\ "wait" \in Faults
                    /\ (pc = "reap" /\ gpauth = "freed") \/ gpauth = "gone"

DialogInv == TypeOK /\ FlowFits /\ ChunksFit /\ SecretFits /\ StopFits /\ StrayFits

USE DEF Looping, Done, Ended, Pipes

LEMMA InitDialogInv == Init => DialogInv
<1> SUFFICES ASSUME Init PROVE DialogInv
  OBVIOUS
<1>1. /\ input \in Seq({"QU", "IT"})
      /\ written \in [Pipes -> 0 .. Json] /\ unread \in [Pipes -> 0 .. Capacity]
  BY ConstantsAssumption DEF Init
<1>2. TypeOK
  <2>1. buffer \in 0 .. Json /\ sent \in 0 .. 2
    BY ConstantsAssumption DEF Init
  <2>2. /\ pc = "start" /\ line = "empty" /\ kill_at = "unset" /\ gpauth = "none"
        /\ open = {} /\ signals = {} /\ stray = 0 /\ held = {}
    BY DEF Init
  <2>3. /\ interrupted \in BOOLEAN /\ cancelled \in BOOLEAN /\ exited \in BOOLEAN
        /\ ok \in BOOLEAN /\ printed \in BOOLEAN /\ eof \in BOOLEAN
        /\ success \in BOOLEAN /\ heard \in BOOLEAN
    BY DEF Init
  <2> QED BY <1>1, <2>1, <2>2, <2>3 DEF TypeOK
<1>3. FlowFits /\ ChunksFit /\ SecretFits /\ StopFits /\ StrayFits
  BY DEF Init, FlowFits, ChunksFit, SecretFits, StopFits, StrayFits
<1> QED BY <1>2, <1>3 DEF DialogInv

\* The steps of the dialog outside the loop.
LEMMA MainDialogInv ==
  ASSUME DialogInv,
         Start \/ CheckVersion \/ SpawnReturns \/ Check \/ PrintSecrets
  PROVE  DialogInv'
<1> USE ConstantsAssumption DEF DialogInv, TypeOK, FlowFits, ChunksFit, SecretFits,
      StopFits, StrayFits, agentVars, gpauthVars
<1>1. CASE Start
  BY <1>1 DEF Start
<1>2. CASE CheckVersion
  BY <1>2 DEF CheckVersion
<1>3. CASE SpawnReturns
  BY <1>3 DEF SpawnReturns
<1>4. CASE Check
  BY <1>4 DEF Check
<1>5. CASE PrintSecrets
  BY <1>5 DEF PrintSecrets
<1> QED BY <1>1, <1>2, <1>3, <1>4, <1>5

LEMMA InputTypes ==
  ASSUME TypeOK, take_input \/ UNCHANGED <<line, input>>
  PROVE  line' \in {"empty", "QU"} /\ input' \in Seq({"QU", "IT"})
<1>1. CASE UNCHANGED <<line, input>>
  BY <1>1 DEF TypeOK
<1>2. CASE take_input /\ input = <<>>
  BY <1>2 DEF TypeOK, take_input
<1>3. CASE take_input /\ input # <<>>
  <2>1. Tail(input) \in Seq({"QU", "IT"})
    BY <1>3 DEF TypeOK
  <2> QED BY <1>3, <2>1 DEF take_input
<1> QED BY <1>1, <1>2, <1>3

LEMMA WaitDialogInv ==
  ASSUME DialogInv, WaitForQuit
  PROVE  DialogInv'
<1>1. line' \in {"empty", "QU"} /\ input' \in Seq({"QU", "IT"})
  BY InputTypes DEF DialogInv, WaitForQuit
<1>2. /\ pc = "wait" /\ pc' \in {"wait", "exit"}
      /\ UNCHANGED <<interrupted, cancelled, exited, ok, kill_at, open, buffer,
                     printed, sent, eof, gpauthVars, heard>>
  BY DEF WaitForQuit
<1> QED BY <1>1, <1>2 DEF DialogInv, TypeOK, FlowFits, ChunksFit, SecretFits,
            StopFits, StrayFits, gpauthVars

\* One poll: a chunk moves from the pipe to the buffer, and only a drained
\* pipe that nobody can write to is closed without an error.
LEMMA PollDialogInv ==
  ASSUME DialogInv, Poll
  PROVE  DialogInv'
<1>1. PICK woken \in BOOLEAN, failed \in SUBSET Ready :
        /\ LET stop == woken /\ ~cancelled /\ StopRead IN
           /\ cancelled' = (cancelled \/ interrupted \/ ~woken \/ stop)
           /\ heard' = (heard \/ stop)
        /\ IF woken /\ ~cancelled THEN take_input ELSE UNCHANGED <<line, input>>
        /\ drain(IF woken THEN Ready ELSE {}, failed)
        /\ ok' = (ok /\ failed = {} /\ (woken \/ interrupted))
  BY DEF Poll
<1>2. /\ pc = "poll" /\ pc' = "reap"
      /\ UNCHANGED <<interrupted, exited, printed, sent, eof, gpauth, success,
                     written, held>>
  BY DEF Poll
<1>3. line' \in {"empty", "QU"} /\ input' \in Seq({"QU", "IT"})
  BY <1>1, InputTypes DEF DialogInv
<1>4. /\ cancelled' \in BOOLEAN /\ heard' \in BOOLEAN /\ ok' \in BOOLEAN
      /\ heard' => heard \/ cancelled'
      /\ cancelled => cancelled'
      /\ ok' => ok /\ failed = {}
  BY <1>1 DEF DialogInv, TypeOK
<1>5. /\ signals' \subseteq {"TERM", "KILL"} /\ kill_at' \in {"unset", "later", "past"}
      /\ \/ stray' = stray
         \/ stray' = stray + 1 /\ ~exited /\ gpauth \notin {"live", "zombie"}
  <2>1. CASE cancelled'
    <3>1. stop_gpauth
      BY <2>1 DEF Poll
    <3> QED BY <3>1 DEF stop_gpauth, kill, DialogInv, TypeOK
  <2>2. CASE ~cancelled'
    BY <2>2 DEF Poll, DialogInv, TypeOK
  <2> QED BY <2>1, <2>2
<1> DEFINE R == IF woken THEN Ready ELSE {}
<1>6. R \subseteq open /\ \A p \in R : unread[p] > 0 \/ gpauth \notin {"forked", "armed", "live"}
  BY DEF Ready, Readable, Alive
<1>7. /\ unread' = [p \in Pipes |-> IF p \in R \ failed /\ unread[p] > 0
                                    THEN unread[p] - 1 ELSE unread[p]]
      /\ buffer' = IF "out" \in R \ failed /\ unread["out"] > 0
                   THEN buffer + 1 ELSE buffer
      /\ open' = open \ ({p \in R : unread[p] = 0} \cup failed)
  BY <1>1 DEF drain
<1> HIDE DEF R
<1>8. /\ unread["out"] \in 0 .. Capacity /\ buffer \in 0 .. Json
      /\ written["out"] \in 0 .. Json
      /\ buffer + unread["out"] = written["out"]
  BY <1>2 DEF DialogInv, TypeOK, FlowFits, ChunksFit
<1>9. /\ buffer' \in 0 .. Json
      /\ buffer' + unread'["out"] = written["out"]
  BY <1>7, <1>8, ConstantsAssumption
<1>10. unread' \in [Pipes -> 0 .. Capacity] /\ open' \subseteq Pipes
  <2>1. open' \subseteq Pipes
    BY <1>7 DEF DialogInv, TypeOK
  <2>2. ASSUME NEW p \in Pipes
        PROVE  unread'[p] \in 0 .. Capacity
    <3>1. unread[p] \in 0 .. Capacity
      BY DEF DialogInv, TypeOK
    <3> QED BY <1>7, <3>1, ConstantsAssumption
  <2> QED BY <1>7, <2>1, <2>2
<1>11. TypeOK'
  <2>1. stray' \in Nat
    BY <1>5 DEF DialogInv, TypeOK
  <2> QED BY <1>2, <1>3, <1>4, <1>5, <1>9, <1>10, <2>1 DEF DialogInv, TypeOK
<1>12. FlowFits'
  BY <1>2 DEF DialogInv, FlowFits
<1>13. ok' /\ "out" \notin open' => unread'["out"] = 0 /\ gpauth \in {"zombie", "freed", "gone"}
  <2> SUFFICES ASSUME ok', "out" \notin open'
               PROVE  unread'["out"] = 0 /\ gpauth \in {"zombie", "freed", "gone"}
    OBVIOUS
  <2>1. ok /\ failed = {}
    BY <1>4
  <2>2. CASE "out" \notin open
    BY <1>2, <1>7, <2>1, <2>2 DEF DialogInv, ChunksFit
  <2>3. CASE "out" \in open
    <3>1. "out" \in R /\ unread["out"] = 0
      BY <1>7, <2>1, <2>3
    <3> QED BY <1>2, <1>6, <1>7, <3>1 DEF DialogInv, FlowFits
  <2> QED BY <2>2, <2>3
<1>14. ChunksFit'
  BY <1>2, <1>9, <1>13 DEF DialogInv, FlowFits, ChunksFit
<1>15. SecretFits'
  BY <1>2 DEF DialogInv, SecretFits
<1>16. StopFits'
  BY <1>2, <1>4 DEF DialogInv, StopFits, SecretFits
<1>17. StrayFits'
  <2>1. CASE stray' = stray
    BY <1>2, <2>1 DEF DialogInv, StrayFits
  <2>2. CASE stray' = stray + 1 /\ ~exited /\ gpauth \notin {"live", "zombie"}
    <3>1. gpauth = "freed"
      BY <1>2, <2>2 DEF DialogInv, FlowFits
    <3>2. stray = 0
      BY <1>2, <3>1 DEF DialogInv, StrayFits
    <3> QED BY <1>2, <2>2, <3>1, <3>2 DEF DialogInv, StrayFits
  <2> QED BY <1>5, <2>1, <2>2
<1> QED BY <1>11, <1>12, <1>14, <1>15, <1>16, <1>17 DEF DialogInv

\* The end of a pass: the secret is whole if the loop ends in good order.
LEMMA ReapDialogInv ==
  ASSUME DialogInv, Reap
  PROVE  DialogInv'
<1>1. /\ pc = "reap" /\ pc' \in {"poll", "check", "exit"}
      /\ UNCHANGED <<interrupted, line, cancelled, kill_at, open, buffer, printed,
                     sent, input, eof, success, written, unread, signals, stray,
                     held, heard>>
  BY DEF Reap, agentVars
<1>2. /\ exited' \in BOOLEAN /\ ok' \in BOOLEAN
      /\ gpauth' \in {"live", "zombie", "gone"} /\ gpauth' # "freed"
      /\ exited' <=> gpauth' = "gone"
      /\ ok' => ok
      /\ gpauth # "live" => gpauth' = "gone"
  <2>1. /\ exited \in BOOLEAN /\ ok \in BOOLEAN
        /\ gpauth \in {"live", "zombie", "freed", "gone"}
        /\ exited <=> gpauth = "gone"
    BY <1>1 DEF DialogInv, TypeOK, FlowFits
  <2>2. CASE ~exited /\ gpauth \in {"zombie", "freed"}
    <3>1. exited' /\ exited' \in BOOLEAN /\ gpauth' = "gone"
      BY <2>2 DEF Reap, wait_gpauth
    <3>2. ok' = (ok /\ gpauth = "zombie")
      BY <2>2 DEF Reap, wait_gpauth
    <3>3. ok' \in BOOLEAN /\ (ok' => ok)
      BY <3>2, Zenon
    <3> QED BY <3>1, <3>3
  <2>3. CASE ~(~exited /\ gpauth \in {"zombie", "freed"})
    <3>1. exited' = exited /\ gpauth' = gpauth /\ ok' = ok
      BY <2>3 DEF Reap, wait_gpauth
    <3>2. gpauth \in {"live", "gone"}
      BY <2>1, <2>3
    <3>3. /\ exited' \in BOOLEAN /\ ok' \in BOOLEAN /\ (ok' => ok)
          /\ exited' <=> gpauth' = "gone"
      BY <2>1, <3>1, Zenon
    <3> QED BY <3>1, <3>2, <3>3
  <2> QED BY <2>2, <2>3
<1>3. /\ pc' # "poll" => exited'
      /\ pc' = "check" => ok' /\ open = {} /\ ~cancelled /\ success
  BY DEF Reap, LoopDone
<1>4. TypeOK'
  BY <1>1, <1>2 DEF DialogInv, TypeOK
<1>5. FlowFits'
  BY <1>1, <1>2, <1>3 DEF FlowFits
<1>6. ChunksFit'
  BY <1>1, <1>2 DEF DialogInv, FlowFits, ChunksFit
<1>7. SecretFits'
  <2>1. ~printed
    BY <1>1 DEF DialogInv, SecretFits
  <2>2. ASSUME pc' = "check"
        PROVE  buffer = Json /\ gpauth' = "gone" /\ success
    <3>1. unread["out"] = 0 /\ written["out"] = Json /\ gpauth # "none"
      BY <1>1, <1>2, <1>3, <2>2 DEF DialogInv, ChunksFit, FlowFits
    <3>2. buffer + unread["out"] = written["out"] /\ buffer \in 0 .. Json
      BY <3>1 DEF DialogInv, ChunksFit, TypeOK
    <3> QED BY <1>2, <1>3, <2>2, <3>1, <3>2, ConstantsAssumption
  <2> QED BY <1>1, <2>1, <2>2 DEF SecretFits
<1>8. StopFits'
  BY <1>1, <1>3 DEF DialogInv, StopFits, SecretFits
<1>9. StrayFits'
  BY <1>1, <1>2 DEF DialogInv, FlowFits, StrayFits
<1> QED BY <1>4, <1>5, <1>6, <1>7, <1>8, <1>9 DEF DialogInv

\* The agent, signals and time.
LEMMA AgentDialogInv ==
  ASSUME DialogInv,
         AgentSends \/ AgentCloses \/ Signal \/ DialogKilled \/ KillTimePasses
  PROVE  DialogInv'
<1> USE DEF DialogInv, FlowFits, ChunksFit, SecretFits, StopFits, StrayFits, agentVars,
      gpauthVars, dialogVars
<1>1. CASE AgentSends
  <2>1. input' \in Seq({"QU", "IT"}) /\ sent' \in 0 .. 2
    BY <1>1 DEF AgentSends, TypeOK
  <2> QED BY <1>1, <2>1 DEF AgentSends, TypeOK
<1>2. CASE AgentCloses
  BY <1>2 DEF AgentCloses, TypeOK
<1>3. CASE Signal
  BY <1>3 DEF Signal, TypeOK
<1>4. CASE DialogKilled
  BY <1>4 DEF DialogKilled, TypeOK
<1>5. CASE KillTimePasses
  BY <1>5 DEF KillTimePasses, TypeOK
<1> QED BY <1>1, <1>2, <1>3, <1>4, <1>5

\* gpauth and the browser.
LEMMA GpauthDialogInv ==
  ASSUME DialogInv,
         \/ ChildArms \/ ChildExecs \/ GpauthEnds \/ BrowserStarts \/ BrowserEnds
         \/ \E p \in Pipes : GpauthWrites(p)
  PROVE  DialogInv'
<1> USE DEF DialogInv, FlowFits, ChunksFit, SecretFits, StopFits, StrayFits, agentVars,
      dialogVars, gpauthOnly
<1>1. CASE ChildArms
  BY <1>1 DEF ChildArms, TypeOK
<1>2. CASE ChildExecs
  BY <1>2 DEF ChildExecs, TypeOK
<1>3. CASE GpauthEnds
  <2>1. /\ gpauth = "live"
        /\ \/ pc \in Ended /\ gpauth' = "gone"
           \/ pc \notin Ended /\ gpauth' = "zombie"
           \/ pc \notin Ended /\ "wait" \in Faults /\ gpauth' = "freed"
        /\ UNCHANGED <<pc, interrupted, line, cancelled, exited, ok, kill_at, open,
                       buffer, printed, sent, input, eof, written, unread, signals,
                       stray, held, heard>>
    BY <1>3 DEF GpauthEnds
  <2>2. success' \in BOOLEAN /\ (success' => written["out"] = Json)
    BY <1>3 DEF GpauthEnds
  <2>3. TypeOK'
    BY <2>1, <2>2 DEF TypeOK
  <2> QED BY <2>1, <2>2, <2>3
<1>4. CASE BrowserStarts
  BY <1>4 DEF BrowserStarts, TypeOK
<1>5. CASE BrowserEnds
  BY <1>5 DEF BrowserEnds, TypeOK
<1>6. ASSUME NEW p \in Pipes, GpauthWrites(p)
      PROVE  DialogInv'
  <2>1. /\ gpauth = "live" /\ written[p] < Json /\ unread[p] < Capacity
        /\ written' = [written EXCEPT ![p] = @ + 1]
        /\ unread' = [unread EXCEPT ![p] = @ + 1]
        /\ UNCHANGED <<pc, interrupted, line, cancelled, exited, ok, kill_at, open,
                       buffer, printed, sent, input, eof, gpauth, success, signals,
                       stray, held, heard>>
    BY <1>6 DEF GpauthWrites
  <2>2. /\ written[p] \in 0 .. Json /\ unread[p] \in 0 .. Capacity
        /\ written[p] + 1 \in 0 .. Json /\ unread[p] + 1 \in 0 .. Capacity
    BY <2>1, ConstantsAssumption DEF TypeOK
  <2>3. written' \in [Pipes -> 0 .. Json] /\ unread' \in [Pipes -> 0 .. Capacity]
    BY <2>1, <2>2 DEF TypeOK
  <2>4. TypeOK'
    BY <2>1, <2>3 DEF TypeOK
  <2>5. buffer + unread'["out"] = written'["out"]
    <3>1. buffer + unread["out"] = written["out"] /\ buffer \in 0 .. Json
      BY <2>1 DEF TypeOK
    <3>2. CASE p = "out"
      BY <2>1, <2>2, <3>1, <3>2, ConstantsAssumption DEF TypeOK
    <3>3. CASE p # "out"
      BY <2>1, <3>1, <3>3 DEF TypeOK
    <3> QED BY <3>2, <3>3
  <2> QED BY <2>1, <2>4, <2>5
<1> QED BY <1>1, <1>2, <1>3, <1>4, <1>5, <1>6

LEMMA StepDialogInv == DialogInv /\ [Next]_vars => DialogInv'
<1> SUFFICES ASSUME DialogInv, [Next]_vars PROVE DialogInv'
  OBVIOUS
<1>1. CASE Next
  BY <1>1, MainDialogInv, WaitDialogInv, PollDialogInv, ReapDialogInv,
     AgentDialogInv, GpauthDialogInv DEF Next
<1>2. CASE UNCHANGED vars
  BY <1>2 DEF vars, DialogInv, TypeOK, FlowFits, ChunksFit, SecretFits, StopFits,
     StrayFits
<1> QED BY <1>1, <1>2

LEMMA DialogInvHolds == Spec => []DialogInv
  BY InitDialogInv, StepDialogInv, PTL DEF Spec

\* Every variable of the dialog keeps its type; in particular no more output
\* is buffered than gpauth wrote.
THEOREM DialogTypeCorrect == Spec => []TypeOK
<1>1. DialogInv => TypeOK
  BY DEF DialogInv
<1> QED BY <1>1, DialogInvHolds, PTL

\* A dialog that was told to stop in time prints no secret (collect_auth and
\* the last check of main).
THEOREM StoppedMeansSilent == Spec => []NoSecretAfterStop
<1>1. DialogInv => NoSecretAfterStop
  BY DEF DialogInv, StopFits, NoSecretAfterStop
<1> QED BY <1>1, DialogInvHolds, PTL

\* A printed secret is all of a successful gpauth's output (the condition of
\* collect_auth's loop, and the tests of run_gpauth).
THEOREM PrintedMeansWhole == Spec => []SecretIsWhole
<1>1. DialogInv => SecretIsWhole
  BY DEF DialogInv, SecretFits, SecretIsWhole
<1> QED BY <1>1, DialogInvHolds, PTL

\* The dialog that exits by itself has reaped its gpauth.
THEOREM ExitMeansReaped == Spec => []ReapsGpauth
<1>1. DialogInv => ReapsGpauth
  BY DEF DialogInv, FlowFits, ReapsGpauth
<1> QED BY <1>1, DialogInvHolds, PTL

\* kill and waitpid in collect_auth: no signal goes to a pid that the dialog
\* has reaped, and at most one, in the pass that finds it out, to a pid that
\* was freed by a kernel that reaps gpauth itself because SIGCHLD is ignored.
THEOREM SignalsStayHome == Spec => []SignalsOwnGpauth
<1>1. DialogInv => SignalsOwnGpauth
  <2> SUFFICES ASSUME DialogInv PROVE SignalsOwnGpauth
    OBVIOUS
  <2>1. pc \in {"poll", "reap"} /\ ~exited => gpauth # "gone"
    BY DEF DialogInv, FlowFits
  <2>2. stray <= (IF "wait" \in Faults THEN 1 ELSE 0)
    BY DEF DialogInv, TypeOK, StrayFits
  <2> QED BY <2>1, <2>2 DEF SignalsOwnGpauth
<1> QED BY <1>1, DialogInvHolds, PTL

-----------------------------------------------------------------------------
(* The dialog implements SignOn.                                           *)

\* The timer of stop_gpauth runs only for a sign-on that was given up, and
\* from then on a gpauth whose pid is its own has been sent SIGTERM.
KillFits ==
    /\ cancelled => pc \notin {"start", "version", "spawn"}
    /\ ~cancelled => kill_at = "unset"
    /\ pc \in Looping /\ cancelled /\ ~exited => kill_at # "unset"
    /\ kill_at = "unset" => signals = {}
    /\ kill_at # "unset" /\ gpauth \in {"live", "zombie"} => "TERM" \in signals
    /\ kill_at # "unset" => gpauth \notin {"none", "forked", "armed"}

SignOnInv == DialogInv /\ KillFits

LEMMA PollKillFits ==
  ASSUME SignOnInv, Poll
  PROVE  KillFits'
<1>1. /\ pc = "poll" /\ pc' = "reap" /\ exited' = exited
      /\ cancelled => cancelled'
      /\ cancelled \in BOOLEAN /\ cancelled' \in BOOLEAN
      /\ IF cancelled' THEN stop_gpauth ELSE UNCHANGED <<signals, stray, kill_at>>
      /\ gpauth' = gpauth /\ gpauth \in {"live", "zombie", "freed", "gone"}
  BY DEF Poll, SignOnInv, DialogInv, TypeOK, FlowFits
<1>2. CASE ~cancelled'
  BY <1>1, <1>2 DEF SignOnInv, KillFits
<1>3. CASE cancelled'
  BY <1>1, <1>3 DEF SignOnInv, KillFits, stop_gpauth, kill
<1> QED BY <1>1, <1>2, <1>3

LEMMA StepSignOnInv == SignOnInv /\ [Next]_vars => SignOnInv'
<1> SUFFICES ASSUME SignOnInv, [Next]_vars PROVE KillFits'
  BY StepDialogInv DEF SignOnInv
<1> USE DEF SignOnInv, KillFits, agentVars, gpauthVars, dialogVars, gpauthOnly
<1>1. CASE Start \/ CheckVersion \/ SpawnReturns \/ Check \/ PrintSecrets
  BY <1>1 DEF Start, CheckVersion, SpawnReturns, Check, PrintSecrets, DialogInv, FlowFits
<1>2. CASE Poll
  BY <1>2, PollKillFits
<1>3. CASE Reap
  <2>1. (exited => exited') /\ (gpauth' = gpauth \/ gpauth' = "gone")
    BY <1>3 DEF Reap, wait_gpauth
  <2>2. pc = "reap" /\ UNCHANGED <<cancelled, kill_at, signals>>
        /\ pc' \in {"poll", "check", "exit"}
    BY <1>3 DEF Reap
  <2> QED BY <2>1, <2>2
<1>4. CASE WaitForQuit
  BY <1>4 DEF WaitForQuit
<1>5. CASE AgentSends \/ AgentCloses \/ Signal \/ DialogKilled
  BY <1>5 DEF AgentSends, AgentCloses, Signal, DialogKilled
<1>6. CASE KillTimePasses
  BY <1>6 DEF KillTimePasses
<1>7. CASE ChildArms \/ ChildExecs \/ GpauthEnds \/ BrowserStarts \/ BrowserEnds
  <2>1. UNCHANGED <<pc, cancelled, exited, kill_at, signals>>
    BY <1>7 DEF ChildArms, ChildExecs, GpauthEnds, BrowserStarts, BrowserEnds
  <2>2. /\ gpauth' \in {"live", "zombie"} => gpauth \in {"armed", "live", "zombie"}
        /\ gpauth' \in {"none", "forked", "armed"} => gpauth \in {"none", "forked", "armed"}
    BY <1>7 DEF ChildArms, ChildExecs, GpauthEnds, BrowserStarts, BrowserEnds
  <2> QED BY <2>1, <2>2
<1>8. CASE \E p \in Pipes : GpauthWrites(p)
  BY <1>8 DEF GpauthWrites
<1>9. CASE UNCHANGED vars
  BY <1>9 DEF vars
<1> QED BY <1>1, <1>2, <1>3, <1>4, <1>5, <1>6, <1>7, <1>8, <1>9 DEF Next

LEMMA SignOnInvHolds == Spec => []SignOnInv
<1>1. Init => SignOnInv
  BY InitDialogInv DEF Init, SignOnInv, KillFits
<1> QED BY <1>1, StepSignOnInv, PTL DEF Spec

LEMMA MainMaps ==
  ASSUME SignOnInv, SignOnInv',
         Start \/ CheckVersion \/ SpawnReturns \/ Check \/ PrintSecrets \/ WaitForQuit
  PROVE  [Abstract!Next]_Abstract!vars
<1> USE DEF agentVars, gpauthVars, Stage, Life
<1>1. /\ Given = IF printed THEN "whole" ELSE "none"
      /\ Given' = IF printed' THEN "whole" ELSE "none"
  BY DEF SignOnInv, DialogInv, SecretFits, Given
<1>2. CASE Start
  <2>1. pc = "start" /\ UNCHANGED <<gpauth, signals, heard, printed, cancelled>>
    BY <1>2 DEF Start
  <2>2. CASE pc' = "exit"
    BY <1>1, <2>1, <2>2 DEF Abstract!Next, Abstract!End
  <2>3. CASE pc' = "check"
    BY <1>1, <2>1, <2>3 DEF Abstract!Next, Abstract!Reuse
  <2>4. CASE pc' = "version"
    BY <1>1, <2>1, <2>4 DEF Abstract!vars
  <2> QED BY <1>2, <2>2, <2>3, <2>4 DEF Start
<1>3. CASE CheckVersion
  <2>1. pc = "version" /\ UNCHANGED <<signals, heard, printed, cancelled>>
    BY <1>3 DEF CheckVersion
  <2>2. CASE ~interrupted /\ pc' = "spawn" /\ gpauth' = "forked"
    <3>1. ~heard /\ ~cancelled /\ gpauth = "none"
      BY <2>1, <2>2 DEF SignOnInv, DialogInv, StopFits, KillFits, FlowFits
    <3> QED BY <1>1, <2>1, <2>2, <3>1 DEF Abstract!Next, Abstract!Ask
  <2>3. CASE pc' = "exit" /\ UNCHANGED gpauth
    BY <1>1, <2>1, <2>3 DEF Abstract!Next, Abstract!End
  <2> QED BY <1>3, <2>2, <2>3 DEF CheckVersion
<1>4. CASE SpawnReturns
  BY <1>1, <1>4 DEF SpawnReturns, Abstract!vars
<1>5. CASE Check
  <2>1. pc = "check" /\ UNCHANGED <<gpauth, signals, heard, printed>>
    BY <1>5 DEF Check
  <2>2. CASE pc' = "exit"
    BY <1>1, <2>1, <2>2 DEF Abstract!Next, Abstract!End
  <2>3. CASE pc' = "print"
    BY <1>1, <2>1, <2>3 DEF Abstract!vars
  <2> QED BY <1>5, <2>2, <2>3 DEF Check
<1>6. CASE PrintSecrets
  <2>1. ~heard /\ pc = "print"
    BY <1>6 DEF PrintSecrets, SignOnInv, DialogInv, StopFits
  <2> QED BY <1>1, <1>6, <2>1 DEF PrintSecrets, Abstract!Next, Abstract!Give
<1>7. CASE WaitForQuit
  <2>1. pc = "wait" /\ UNCHANGED <<gpauth, signals, heard, printed>>
    BY <1>7 DEF WaitForQuit
  <2>2. CASE pc' = "exit"
    BY <1>1, <2>1, <2>2 DEF Abstract!Next, Abstract!End
  <2>3. CASE pc' = "wait"
    BY <1>1, <2>1, <2>3 DEF Abstract!vars
  <2> QED BY <1>7, <2>2, <2>3 DEF WaitForQuit
<1> QED BY <1>2, <1>3, <1>4, <1>5, <1>6, <1>7

\* A pass of the loop: giving up, killing, and the end of gpauth.
LEMMA LoopMaps ==
  ASSUME SignOnInv, SignOnInv', Poll \/ Reap
  PROVE  [Abstract!Next]_Abstract!vars
<1>1. /\ Given = IF printed THEN "whole" ELSE "none"
      /\ Given' = IF printed' THEN "whole" ELSE "none"
  BY DEF SignOnInv, DialogInv, SecretFits, Given
<1>2. CASE Poll
  <2>1. /\ pc = "poll" /\ pc' = "reap" /\ UNCHANGED <<gpauth, printed, exited>>
        /\ cancelled \in BOOLEAN /\ cancelled' \in BOOLEAN
        /\ heard \in BOOLEAN /\ heard' \in BOOLEAN
        /\ cancelled => cancelled'
        /\ heard' = heard \/ (heard' = TRUE /\ ~cancelled /\ cancelled')
    BY <1>2 DEF Poll, SignOnInv, DialogInv, TypeOK
  <2>2. /\ Life' = Life
        /\ gpauth \in {"live", "zombie"} => Life = "running" /\ ~exited
        /\ gpauth \notin {"live", "zombie"} => Life = "over"
    BY <2>1 DEF Life, SignOnInv, DialogInv, FlowFits
  <2>3. CASE ~cancelled /\ cancelled'
    <3>1. signals' = IF Life = "running" THEN {"TERM"} ELSE {}
      <4>1. kill_at = "unset" /\ signals = {} /\ stop_gpauth
        BY <1>2, <2>3 DEF Poll, SignOnInv, KillFits
      <4> QED BY <2>2, <4>1 DEF stop_gpauth, kill
    <3>2. Stage = "asking" /\ Stage' = "stopping"
      BY <2>1, <2>3 DEF Stage
    <3> QED BY <1>1, <2>1, <2>2, <3>1, <3>2 DEF Abstract!Next, Abstract!Stop
  <2>4. CASE cancelled
    <3>1. stop_gpauth /\ heard' = heard /\ Stage = "stopping" /\ Stage' = "stopping"
      BY <1>2, <2>1, <2>4 DEF Poll, Stage
    <3>2. CASE signals' = signals
      BY <1>1, <2>1, <2>2, <3>1, <3>2 DEF Abstract!vars
    <3>3. CASE signals' # signals
      <4>1. ~exited /\ kill_at # "unset" /\ signals \subseteq {"TERM", "KILL"}
            /\ gpauth \in {"live", "zombie"} /\ "TERM" \in signals
        BY <2>1, <2>4, <3>1, <3>3
           DEF stop_gpauth, kill, SignOnInv, DialogInv, TypeOK, KillFits
      <4>2. signals' = {"TERM", "KILL"}
        BY <3>1, <3>3, <4>1 DEF stop_gpauth, kill
      <4> QED BY <1>1, <2>1, <2>2, <3>1, <4>1, <4>2 DEF Abstract!Next, Abstract!Kill
    <3> QED BY <3>2, <3>3
  <2>5. CASE ~cancelled'
    <3>1. UNCHANGED <<signals, heard, cancelled>>
      BY <1>2, <2>1, <2>5 DEF Poll
    <3> QED BY <1>1, <2>1, <2>2, <2>5, <3>1 DEF Stage, Abstract!vars
  <2> QED BY <2>1, <2>3, <2>4, <2>5
<1>3. CASE Reap
  <2>1. /\ pc = "reap" /\ pc' \in {"poll", "check", "exit"}
        /\ UNCHANGED <<signals, heard, printed, cancelled>>
        /\ gpauth' = gpauth \/ gpauth' = "gone"
        /\ pc' = "check" => ~cancelled
    BY <1>3 DEF Reap, wait_gpauth
  <2>2. gpauth \in {"live", "zombie", "freed", "gone"}
    BY <2>1 DEF SignOnInv, DialogInv, FlowFits
  <2>3. pc' # "poll" => gpauth' = "gone"
    <3>1. (pc' # "poll" => exited') /\ (gpauth' = "gone" \/ exited' = exited)
      BY <1>3 DEF Reap, LoopDone, wait_gpauth
    <3>2. exited <=> gpauth = "gone"
      BY <2>1 DEF SignOnInv, DialogInv, FlowFits
    <3> QED BY <2>1, <3>1, <3>2
  <2>4. CASE gpauth' = "gone"
    BY <1>1, <2>1, <2>2, <2>4 DEF Stage, Life, Abstract!Next, Abstract!Reaped
  <2>5. CASE gpauth' # "gone"
    BY <1>1, <2>1, <2>2, <2>3, <2>5 DEF Stage, Life, Abstract!vars
  <2> QED BY <2>4, <2>5
<1> QED BY <1>2, <1>3

LEMMA WorldMaps ==
  ASSUME SignOnInv, SignOnInv',
         \/ AgentSends \/ AgentCloses \/ Signal \/ DialogKilled \/ KillTimePasses
         \/ ChildArms \/ ChildExecs \/ GpauthEnds \/ BrowserStarts \/ BrowserEnds
         \/ \E p \in Pipes : GpauthWrites(p)
  PROVE  [Abstract!Next]_Abstract!vars
<1> USE DEF agentVars, gpauthVars, dialogVars, gpauthOnly
<1>1. /\ Given = IF printed THEN "whole" ELSE "none"
      /\ Given' = IF printed' THEN "whole" ELSE "none"
  BY DEF SignOnInv, DialogInv, SecretFits, Given
<1>2. CASE AgentSends \/ AgentCloses \/ KillTimePasses \/ BrowserStarts \/ BrowserEnds
  <2>1. UNCHANGED <<pc, cancelled, printed, gpauth, signals, heard>>
    BY <1>2 DEF AgentSends, AgentCloses, KillTimePasses, BrowserStarts, BrowserEnds
  <2> QED BY <1>1, <2>1 DEF Stage, Life, Abstract!vars
<1>3. CASE \E p \in Pipes : GpauthWrites(p)
  <2>1. UNCHANGED <<pc, cancelled, printed, gpauth, signals, heard>>
    BY <1>3 DEF GpauthWrites
  <2> QED BY <1>1, <2>1 DEF Stage, Life, Abstract!vars
<1>4. CASE Signal
  <2>1. /\ UNCHANGED <<pc, cancelled, printed, gpauth, signals>>
        /\ pc \notin Ended /\ heard' = (heard \/ pc \notin {"print", "wait"})
        /\ heard \in BOOLEAN
    BY <1>4 DEF Signal, SignOnInv, DialogInv, TypeOK
  <2>2. CASE pc \in {"print", "wait"}
    <3>1. heard' = heard
      BY <2>1, <2>2, Zenon
    <3> QED BY <1>1, <2>1, <3>1 DEF Stage, Life, Abstract!vars
  <2>3. CASE pc \notin {"print", "wait"}
    <3>1. heard' = TRUE
      BY <2>1, <2>3, Zenon
    <3>2. Stage \in {"idle", "asking", "stopping", "ready"} /\ Stage' = Stage /\ Life' = Life
      BY <2>1, <2>3 DEF Stage, Life, SignOnInv, DialogInv, TypeOK
    <3> QED BY <1>1, <2>1, <3>1, <3>2 DEF Abstract!Next, Abstract!Tell
  <2> QED BY <2>2, <2>3
<1>5. CASE DialogKilled
  <2>1. /\ pc \notin Ended /\ pc' = "killed"
        /\ UNCHANGED <<cancelled, printed, signals, heard>>
        /\ gpauth' = IF gpauth \in {"armed", "live", "zombie", "freed"} THEN "gone"
                     ELSE gpauth
    BY <1>5 DEF DialogKilled
  <2>2. Stage \notin {"ended", "killed"} /\ Stage' = "killed"
    BY <2>1 DEF Stage, SignOnInv, DialogInv, TypeOK
  <2>3. Life' \in IF Life = "running" THEN {"running", "over"} ELSE {Life}
    BY <2>1 DEF Life
  <2> QED BY <1>1, <2>1, <2>2, <2>3 DEF Abstract!Next, Abstract!Killed
<1>6. CASE ChildArms \/ ChildExecs \/ GpauthEnds
  <2>1. /\ UNCHANGED <<pc, cancelled, printed, signals, heard>>
        /\ gpauth \in {"forked", "armed", "live"}
        /\ \/ gpauth' \in {"armed", "live", "zombie"}
           \/ gpauth' = "gone" /\ pc \in Ended
           \/ gpauth' = "freed" /\ gpauth = "live" /\ pc \notin Ended
    BY <1>6 DEF ChildArms, ChildExecs, GpauthEnds
  <2>2. CASE gpauth' = "gone"
    <3>1. pc = "killed"
      BY <2>1, <2>2 DEF SignOnInv, DialogInv, FlowFits
    <3> QED BY <1>1, <2>1, <2>2, <3>1 DEF Stage, Life, Abstract!Next, Abstract!OrphanEnds
  <2>3. CASE gpauth' = "freed"
    \* The kernel reaps gpauth; the dialog will find out.
    <3>1. pc \in {"spawn", "poll", "reap"}
      BY <2>1, <2>3 DEF SignOnInv, DialogInv, TypeOK, FlowFits, SecretFits
    <3>2. Stage \in {"asking", "stopping"} /\ Stage' = Stage /\ Life' = "over"
      BY <2>1, <2>3, <3>1 DEF Stage, Life
    <3> QED BY <1>1, <2>1, <3>2 DEF Abstract!Next, Abstract!Reaped
  <2>4. CASE gpauth' \notin {"freed", "gone"}
    BY <1>1, <2>1, <2>4 DEF Stage, Life, Abstract!vars
  <2> QED BY <2>2, <2>3, <2>4
<1> QED BY <1>2, <1>3, <1>4, <1>5, <1>6

\* The dialog keeps the promises of SignOn (ImplementsSignOn): one gpauth, not
\* started in vain, signalled only to give up, and reaped; one whole secret,
\* and only for an agent that has not withdrawn.
THEOREM DialogImplementsSignOn == Spec => ImplementsSignOn
<1>1. Init => Abstract!Init
  BY DEF Init, Abstract!Init, Stage, Life, Given
<1>2. SignOnInv /\ SignOnInv' /\ [Next]_vars => [Abstract!Next]_Abstract!vars
  <2> SUFFICES ASSUME SignOnInv, SignOnInv', [Next]_vars
               PROVE  [Abstract!Next]_Abstract!vars
    OBVIOUS
  <2>1. CASE Next
    BY <2>1, MainMaps, LoopMaps, WorldMaps DEF Next
  <2>2. CASE UNCHANGED vars
    BY <2>2 DEF vars, Stage, Life, Given, Abstract!vars
  <2> QED BY <2>1, <2>2
<1> QED BY <1>1, <1>2, SignOnInvHolds, PTL DEF Spec, ImplementsSignOn, Abstract!Spec
=============================================================================
