------------------------ MODULE GpclientServiceProofs ------------------------
(***************************************************************************)
(* Proofs about GpclientService, for every set of children, every number   *)
(* of interface names and every set of faults (or those a theorem names).  *)
(***************************************************************************)
EXTENDS GpclientService, TLAPS

\* The callbacks that neither start nor reap a gpclient, and the environment.
Callback ==
    \/ Disconnect \/ ConnectTimerExpired \/ FailStop \/ QuitTimerExpired
    \/ \E c \in Child : HelperConfig(c) \/ HelperFailure(c)
    \/ ensure_killed \/ signal_handler
    \/ \E want \in Tun \cup {NoTun} : real_need_secrets(want)

EnvStep ==
    \/ HolderExits
    \/ \E c \in Child : TakeLock(c) \/ AttachTun(c) \/ RunHelper(c) \/ ChildExit(c)
    \/ \E n \in Tun : AssumeTun(n) \/ ForgetTun(n)

USE DEF Running, Active, NoTun, Nobody, Self, Other, NoFile, Stale, Held

\* Every value keeps its type: main(), Init.
LEMMA InitTypeOK == Init => TypeOK
  BY ConstantsAssumption DEF Init, TypeOK, Unreaped, Tun

LEMMA ConnectTypeOK ==
  ASSUME TypeOK, NEW want \in Tun \cup {NoTun}, real_connect(want)
  PROVE  TypeOK'
<1> USE ConstantsAssumption DEF TypeOK, Unreaped
<1>1. CASE ConnectInvalid
  BY <1>1 DEF ConnectInvalid, connect_failed, optVars, loopVars, killVars
<1>2. CASE ConnectNoTun(want)
  BY <1>2 DEF ConnectNoTun, connect_failed, optVars, loopVars, killVars
<1>3. CASE ConnectTunHalfMade(want)
  BY <1>3 DEF ConnectTunHalfMade, TunFor, FreeTun, connect_failed, optVars, loopVars, killVars
<1>4. CASE ConnectLocked(want)
  BY <1>4 DEF ConnectLocked, destroy_persistent_tundev, Created, TunFor, FreeTun,
      connect_failed, optVars, loopVars, killVars
<1>5. CASE ConnectSpawnFails(want)
  BY <1>5 DEF ConnectSpawnFails, tun_handed_over, Created, TunFor, FreeTun,
      connect_failed, optVars, loopVars, killVars
<1>6. CASE ConnectStdinFails(want)
  BY <1>6 DEF ConnectStdinFails, tun_handed_over, Created, TunFor, FreeTun,
      connect_failed, optVars, loopVars, killVars
<1>7. CASE ConnectLaunched(want)
  <2>1. PICK n \in Created(want), c \in Child :
          /\ tun_handed_over(n)
          /\ child' = [child EXCEPT ![c] = "live"]
          /\ tunOf' = [tunOf EXCEPT ![c] = n]
          /\ pid' = c
    BY <1>7 DEF ConnectLaunched
  <2>2. n \in Tun \cup {NoTun}
    BY DEF Created, TunFor, FreeTun
  <2>3. /\ tun_name' \in Tun \cup {NoTun}
        /\ persistent' \subseteq Tun
        /\ attached' = attached
    BY <2>1, <2>2 DEF tun_handed_over
  <2>4. /\ child' \in [Child -> Unreaped \cup {"none", "reaped", "gone"}]
        /\ tunOf' \in [Child -> Tun \cup {NoTun}]
        /\ pid' \in Child \cup {0}
    BY <2>1, <2>2
  <2> QED BY <1>7, <2>3, <2>4 DEF ConnectLaunched, connect_succeeded, optVars, loopVars
<1> QED BY <1>1, <1>2, <1>3, <1>4, <1>5, <1>6, <1>7 DEF real_connect

\* What a Disconnect, and the "quit" signal, may change.
StopTypes ==
    /\ loop \in {"running", "quit", "exited"}
    /\ state \in {"init", "starting", "started", "stopped"}
    /\ timers \subseteq {"connect", "quit", "fail_stop"}
    /\ quit_pending \in BOOLEAN
    /\ disconnect_requested \in BOOLEAN
    /\ kill_timeout \in BOOLEAN
    /\ asked \subseteq Child

LEMMA DisconnectTypes ==
  ASSUME TypeOK, plugin_disconnect
  PROVE  StopTypes'
  BY DEF TypeOK, StopTypes, plugin_disconnect, real_disconnect, enter_stopped,
      quit_or_defer, killVars, libnmVars

LEMMA QuitTypes ==
  ASSUME TypeOK, quit_mainloop \/ UNCHANGED <<loop, quit_pending, killVars>>
  PROVE  /\ loop' \in {"running", "quit", "exited"}
         /\ quit_pending' \in BOOLEAN
         /\ disconnect_requested' \in BOOLEAN
         /\ kill_timeout' \in BOOLEAN
         /\ asked' \subseteq Child
  BY DEF TypeOK, quit_mainloop, real_disconnect, quit_or_defer, killVars

LEMMA CallbackTypeOK ==
  ASSUME TypeOK, Callback
  PROVE  TypeOK'
<1> USE ConstantsAssumption DEF TypeOK, Unreaped, optVars, loopVars, libnmVars,
      killVars, procVars, tunVars
<1>1. CASE Disconnect \/ ConnectTimerExpired
  BY <1>1, DisconnectTypes DEF Disconnect, ConnectTimerExpired, StopTypes
<1>2. CASE FailStop
  BY <1>2, QuitTypes DEF FailStop
<1>3. CASE QuitTimerExpired
  BY <1>3, QuitTypes DEF QuitTimerExpired
<1>4. ASSUME NEW c \in Child, HelperConfig(c)
      PROVE  TypeOK'
  BY <1>4 DEF HelperConfig
<1>5. ASSUME NEW c \in Child, HelperFailure(c)
      PROVE  TypeOK'
  <2>1. helper' \in [Child -> {"none", "sent", "done"}]
    BY <1>5 DEF HelperFailure
  <2> QED BY <1>5, <2>1, DisconnectTypes DEF HelperFailure, StopTypes
<1>6. CASE ensure_killed
  BY <1>6 DEF ensure_killed
<1>7. CASE signal_handler
  BY <1>7 DEF signal_handler
<1>8. ASSUME NEW want \in Tun \cup {NoTun}, real_need_secrets(want)
      PROVE  TypeOK'
  BY <1>8 DEF real_need_secrets, deactivate_assumed_tun_connection
<1> QED BY <1>1, <1>2, <1>3, <1>4, <1>5, <1>6, <1>7, <1>8 DEF Callback

LEMMA WatchTypeOK ==
  ASSUME TypeOK, NEW c \in Child, NEW status \in 0 .. 2, openconnect_watch_cb(c, status)
  PROVE  TypeOK'
<1> USE ConstantsAssumption DEF TypeOK, Unreaped, optVars, libnmVars, openconnect_watch_cb
<1>1. /\ tun_name' \in Tun \cup {NoTun}
      /\ persistent' \subseteq Tun
      /\ assumed' \subseteq Tun
  BY DEF release_tun, deactivate_assumed_tun_connection, destroy_persistent_tundev
<1>2. /\ loop' \in {"running", "quit", "exited"}
      /\ state' \in {"init", "starting", "started", "stopped"}
      /\ timers' \subseteq {"connect", "quit", "fail_stop"}
      /\ quit_pending' \in BOOLEAN
      /\ told' \subseteq Child
  BY DEF requested_end, unexpected_end, enter_stopped, quit_or_defer
<1> QED BY <1>1, <1>2 DEF forget_child

LEMMA ReturnTypeOK ==
  ASSUME TypeOK, MainReturns
  PROVE  TypeOK'
<1> USE DEF TypeOK, MainReturns
<1>1. attached' \in [Tun -> Child \cup {Nobody, Self, Other}]
  OBVIOUS
<1>2. child' \in [Child -> Unreaped \cup {"none", "reaped", "gone"}]
  BY DEF Unreaped
<1>3. asked' \subseteq Child
  OBVIOUS
<1> QED BY <1>1, <1>2, <1>3 DEF optVars, libnmVars

LEMMA EnvTypeOK ==
  ASSUME TypeOK, EnvStep
  PROVE  TypeOK'
<1> USE ConstantsAssumption DEF TypeOK, Unreaped, envUnchanged, optVars, loopVars,
      libnmVars, killVars, procVars, tunVars
<1>1. CASE HolderExits
  BY <1>1 DEF HolderExits
<1>2. ASSUME NEW c \in Child, TakeLock(c)
      PROVE  TypeOK'
  BY <1>2 DEF TakeLock
<1>3. ASSUME NEW c \in Child, AttachTun(c)
      PROVE  TypeOK'
  BY <1>3 DEF AttachTun, FreeTun
<1>4. ASSUME NEW c \in Child, ChildExit(c)
      PROVE  TypeOK'
  BY <1>4 DEF ChildExit
<1>5. ASSUME NEW n \in Tun, AssumeTun(n)
      PROVE  TypeOK'
  BY <1>5 DEF AssumeTun
<1>6. ASSUME NEW n \in Tun, ForgetTun(n)
      PROVE  TypeOK'
  BY <1>6 DEF ForgetTun
<1>7. ASSUME NEW c \in Child, RunHelper(c)
      PROVE  TypeOK'
  BY <1>7 DEF RunHelper
<1> QED BY <1>1, <1>2, <1>3, <1>4, <1>5, <1>6, <1>7 DEF EnvStep

\* The case distinction every proof below makes.
LEMMA NextCases ==
  ASSUME Next
  PROVE  \/ \E want \in Tun \cup {NoTun} : real_connect(want)
         \/ Callback
         \/ \E c \in Child, status \in 0 .. 2 : openconnect_watch_cb(c, status)
         \/ MainReturns
         \/ EnvStep
  BY DEF Next, Callback, EnvStep

LEMMA StepTypeOK == TypeOK /\ [Next]_vars => TypeOK'
<1> SUFFICES ASSUME TypeOK, [Next]_vars PROVE TypeOK'
  OBVIOUS
<1>1. CASE Next
  BY <1>1, NextCases, ConnectTypeOK, CallbackTypeOK, WatchTypeOK, ReturnTypeOK, EnvTypeOK
<1>2. CASE UNCHANGED vars
  BY <1>2 DEF TypeOK, vars
<1> QED BY <1>1, <1>2

\* Every variable keeps its type, for every Child, TunCount and Faults.
THEOREM TypeCorrect == Spec => []TypeOK
  BY InitTypeOK, StepTypeOK, PTL DEF Spec

-----------------------------------------------------------------------------
(* SignalsOwnChild, whatever the environment does.                         *)

LEMMA StepSignalsOwnChild ==
  TypeOK /\ SignalsOwnChild /\ [Next]_vars => SignalsOwnChild'
<1> SUFFICES ASSUME TypeOK, SignalsOwnChild, [Next]_vars, loop' = "running", pid' # 0
             PROVE  child'[pid'] \in {"live", "zombie"}
  BY DEF SignalsOwnChild
<1> USE DEF TypeOK, SignalsOwnChild
<1>1. ASSUME NEW want \in Tun \cup {NoTun}, real_connect(want)
      PROVE  child'[pid'] \in {"live", "zombie"}
  <2>1. CASE ConnectLaunched(want)
    BY <2>1 DEF ConnectLaunched
  <2>2. CASE ConnectStdinFails(want)
    BY <2>2 DEF ConnectStdinFails, connect_failed, Fresh, loopVars, ConnectAccepted
  <2>3. CASE \/ ConnectInvalid \/ ConnectNoTun(want) \/ ConnectTunHalfMade(want)
             \/ ConnectLocked(want) \/ ConnectSpawnFails(want)
    BY <2>3 DEF ConnectInvalid, ConnectNoTun, ConnectTunHalfMade, ConnectLocked,
        ConnectSpawnFails, ConnectAccepted, connect_failed, loopVars
  <2> QED BY <1>1, <2>1, <2>2, <2>3 DEF real_connect
<1>2. CASE Callback
  <2>1. loop = "running" /\ UNCHANGED <<pid, child>>
    BY <1>2 DEF Callback, Disconnect, ConnectTimerExpired, FailStop,
        QuitTimerExpired, HelperConfig, HelperFailure, ensure_killed,
        signal_handler, real_need_secrets, procVars
  <2> QED BY <2>1
<1>3. ASSUME NEW c \in Child, NEW status \in 0 .. 2, openconnect_watch_cb(c, status)
      PROVE  FALSE
  BY <1>3 DEF openconnect_watch_cb, forget_child
<1>4. CASE MainReturns
  BY <1>4 DEF MainReturns
<1>5. CASE EnvStep
  <2>1. ASSUME NEW c \in Child, ChildExit(c)
        PROVE  child'[pid'] \in {"live", "zombie"}
    BY <2>1 DEF ChildExit, envUnchanged, loopVars
  <2>2. ASSUME NEW c \in Child, TakeLock(c) \/ AttachTun(c) \/ RunHelper(c)
        PROVE  UNCHANGED <<pid, child, loop>>
    BY <2>2 DEF TakeLock, AttachTun, RunHelper, envUnchanged, procVars, loopVars
  <2>3. ASSUME NEW n \in Tun, AssumeTun(n) \/ ForgetTun(n)
        PROVE  UNCHANGED <<pid, child, loop>>
    BY <2>3 DEF AssumeTun, ForgetTun, envUnchanged, procVars, loopVars
  <2>4. CASE HolderExits
    BY <2>4 DEF HolderExits, envUnchanged, procVars, loopVars
  <2> QED BY <1>5, <2>1, <2>2, <2>3, <2>4 DEF EnvStep
<1>6. CASE UNCHANGED vars
  BY <1>6 DEF vars
<1> QED BY <1>1, <1>2, <1>3, <1>4, <1>5, <1>6, NextCases

\* The pid the plugin sends signals to is always a child it has not reaped:
\* for every set of faults, a Connect during the last shutdown included.
THEOREM SignalsOwnChildHolds == Spec => []SignalsOwnChild
<1>1. Init => SignalsOwnChild
  BY DEF Init, SignalsOwnChild
<1> QED BY <1>1, StepSignalsOwnChild, TypeCorrect, PTL DEF Spec

-----------------------------------------------------------------------------
(* Supervision of the child, when NetworkManager does not call Connect     *)
(* before the last gpclient has been reaped.  The invariant ties the five  *)
(* fields of NMOpenconnectPluginPrivate to the processes and to what has   *)
(* been said about them.                                                   *)

Watched == {"live", "zombie"}

\* priv->pid is the one child that is watched; a loop that ended by itself
\* leaves none.
OneChild ==
    /\ loop # "exited" => \A c \in Child : (child[c] \in Watched) <=> (c = pid)
    /\ ~Running /\ ~signalled => \A c \in Child : child[c] \notin Watched

\* The flags describe that child; one that nobody asked to stop is one that
\* libnm thinks is connecting or connected.
FlagsFit ==
    Running =>
      /\ pid = 0 => ~disconnect_requested
      /\ pid # 0 => (disconnect_requested <=> pid \in asked)
      /\ kill_timeout => disconnect_requested
      /\ pid # 0 /\ ~disconnect_requested => Active
      /\ "fail_stop" \in timers => pid = 0

\* What was done to, and said about, each child.
HistoryFits ==
    /\ \A c \in Child : child[c] = "none" => c \notin asked /\ c \notin told
    /\ \A c \in Child : child[c] \in Watched => c \notin told
    /\ KillOnlyAsked
    /\ ReportedIffUnexpected

SupInv == OneChild /\ FlagsFit /\ HistoryFits

\* The variables SupInv speaks about.
supVars == <<loop, signalled, state, timers, pid, disconnect_requested,
             kill_timeout, child, asked, killed, told>>

LEMMA InitSupInv == Init => SupInv
  BY ConstantsAssumption
  DEF Init, SupInv, OneChild, FlagsFit, HistoryFits, KillOnlyAsked,
      ReportedIffUnexpected, Watched

LEMMA FrameSupInv ==
  ASSUME SupInv, UNCHANGED supVars
  PROVE  SupInv'
  BY DEF supVars, SupInv, OneChild, FlagsFit, HistoryFits, KillOnlyAsked,
      ReportedIffUnexpected

\* A Connect that is not early finds no child.
LEMMA ConnectFindsNoChild ==
  ASSUME "connect_early" \notin Faults, TypeOK, SupInv, ConnectAccepted
  PROVE  pid = 0 /\ \A c \in Child : child[c] \notin Watched
  BY DEF TypeOK, SupInv, OneChild, ConnectAccepted, Watched

LEMMA ConnectSupInv ==
  ASSUME "connect_early" \notin Faults, TypeOK, SupInv,
         NEW want \in Tun \cup {NoTun}, real_connect(want)
  PROVE  SupInv'
<1>1. /\ Running /\ pid = 0
      /\ \A c \in Child : child[c] \notin Watched
  <2>1. ConnectAccepted
    BY DEF real_connect, ConnectInvalid, ConnectNoTun, ConnectTunHalfMade,
        ConnectLocked, ConnectSpawnFails, ConnectStdinFails, ConnectLaunched
  <2> QED BY <2>1, ConnectFindsNoChild DEF ConnectAccepted
<1>2. ~disconnect_requested /\ ~kill_timeout
  BY <1>1 DEF SupInv, FlagsFit
<1>3. ASSUME connect_failed,
             \/ UNCHANGED child
             \/ \E c \in Child : Fresh(c) /\ child' = [child EXCEPT ![c] = "lost"]
      PROVE  SupInv'
  <2>1. UNCHANGED <<loop, signalled, pid, disconnect_requested, kill_timeout, asked, killed, told>>
    BY <1>3 DEF connect_failed, loopVars, killVars
  <2>2. \A c \in Child : child'[c] = child[c] \/ (child[c] = "none" /\ child'[c] = "lost")
    BY <1>3 DEF Fresh, TypeOK
  <2>3. OneChild'
    BY <1>1, <2>1, <2>2 DEF SupInv, OneChild, Watched
  <2>4. FlagsFit'
    BY <1>1, <1>2, <2>1 DEF SupInv, FlagsFit
  <2>5. HistoryFits'
    BY <2>1, <2>2 DEF SupInv, HistoryFits, KillOnlyAsked, ReportedIffUnexpected, Watched
  <2> QED BY <2>3, <2>4, <2>5 DEF SupInv
<1>4. CASE ConnectLaunched(want)
  <2>1. PICK c \in Child :
          Fresh(c) /\ child' = [child EXCEPT ![c] = "live"] /\ pid' = c
    BY <1>4 DEF ConnectLaunched
  <2>2. /\ UNCHANGED <<loop, signalled, kill_timeout, asked, killed, told>>
        /\ state' = "starting" /\ ~disconnect_requested'
        /\ "fail_stop" \notin timers'
    BY <1>4 DEF ConnectLaunched, connect_succeeded, loopVars
  <2>3. /\ child[c] = "none" /\ child'[c] = "live"
        /\ \A d \in Child : d # c => child'[d] = child[d]
        /\ c # 0
    BY <2>1, ConstantsAssumption DEF Fresh, TypeOK
  <2>4. OneChild'
    BY <1>1, <2>1, <2>2, <2>3 DEF OneChild, Watched
  <2>5. FlagsFit'
    BY <1>2, <2>1, <2>2, <2>3 DEF SupInv, FlagsFit, HistoryFits
  <2>6. HistoryFits'
    BY <2>2, <2>3 DEF SupInv, HistoryFits, KillOnlyAsked, ReportedIffUnexpected, Watched
  <2> QED BY <2>4, <2>5, <2>6 DEF SupInv
<1> QED BY <1>3, <1>4 DEF real_connect, ConnectInvalid, ConnectNoTun,
        ConnectTunHalfMade, ConnectLocked, ConnectSpawnFails, ConnectStdinFails

\* nm_vpn_service_plugin_disconnect keeps the invariant: whoever leaves the
\* connected states asks the child to stop.
LEMMA DisconnectSupInv ==
  ASSUME TypeOK, SupInv, Running, plugin_disconnect,
         UNCHANGED <<signalled, pid, child, killed, told>>
  PROVE  SupInv'
<1>1. CASE ~Active
  BY <1>1, FrameSupInv DEF plugin_disconnect, killVars, libnmVars, supVars
<1>2. CASE Active
  <2> USE DEF SupInv, OneChild, FlagsFit, HistoryFits, KillOnlyAsked,
          ReportedIffUnexpected, Watched
  <2>1. real_disconnect /\ enter_stopped(pid, {})
    BY <1>2 DEF plugin_disconnect
  <2>2. CASE pid = 0
    <3>1. UNCHANGED <<disconnect_requested, kill_timeout, asked>>
      BY <2>1, <2>2 DEF real_disconnect, killVars
    <3>2. "fail_stop" \notin timers' /\ loop' \in {loop, "quit"}
      BY <2>1, <2>2 DEF enter_stopped, quit_or_defer
    <3>3. OneChild' BY <2>2, <3>2, ConstantsAssumption
    <3>4. FlagsFit' BY <2>2, <3>1, <3>2
    <3>5. HistoryFits' BY <3>1
    <3> QED BY <3>3, <3>4, <3>5
  <2>3. CASE pid # 0
    <3>1. /\ disconnect_requested' /\ kill_timeout' /\ asked' = asked \cup {pid}
      BY <2>1, <2>3 DEF real_disconnect
    <3>2. "fail_stop" \notin timers' /\ loop' = loop
      BY <2>1, <2>3 DEF enter_stopped, quit_or_defer
    <3>3. OneChild' BY <3>2
    <3>4. FlagsFit' BY <2>3, <3>1, <3>2
    <3>5. HistoryFits'
      <4>1. pid \in Child /\ child[pid] \in Watched
        BY <2>3 DEF TypeOK
      <4> QED BY <3>1, <4>1
    <3> QED BY <3>3, <3>4, <3>5
  <2> QED BY <2>2, <2>3
<1> QED BY <1>1, <1>2

LEMMA CallbackSupInv ==
  ASSUME TypeOK, SupInv, Callback
  PROVE  SupInv'
<1>1. CASE Disconnect \/ ConnectTimerExpired
  BY <1>1, DisconnectSupInv DEF Disconnect, ConnectTimerExpired, procVars
<1>2. ASSUME NEW c \in Child, HelperFailure(c)
      PROVE  SupInv'
  BY <1>2, DisconnectSupInv DEF HelperFailure
<1>3. CASE FailStop
  <2>1. Running /\ pid = 0 /\ ~disconnect_requested /\ ~kill_timeout
    BY <1>3 DEF FailStop, SupInv, FlagsFit
  <2>2. /\ UNCHANGED <<disconnect_requested, kill_timeout, asked, signalled, pid,
                       child, killed, told>>
        /\ loop' \in {loop, "quit"}
        /\ "fail_stop" \notin timers'
    BY <1>3, <2>1 DEF FailStop, quit_mainloop, quit_or_defer, killVars, procVars
  <2> QED BY <2>1, <2>2, ConstantsAssumption
          DEF SupInv, OneChild, FlagsFit, HistoryFits, KillOnlyAsked,
              ReportedIffUnexpected, Watched
<1>4. CASE QuitTimerExpired
  <2>1. /\ Running
        /\ UNCHANGED <<signalled, state, pid, child, killed, told>>
        /\ timers' \subseteq timers
    BY <1>4 DEF QuitTimerExpired, procVars
  <2>2. CASE pid = 0
    <3>1. /\ UNCHANGED <<disconnect_requested, kill_timeout, asked>>
          /\ loop' \in {loop, "quit"}
      BY <1>4, <2>2 DEF QuitTimerExpired, quit_mainloop, quit_or_defer, killVars
    <3> QED BY <2>1, <2>2, <3>1, ConstantsAssumption
            DEF SupInv, OneChild, FlagsFit, HistoryFits, KillOnlyAsked,
                ReportedIffUnexpected, Watched
  <2>3. CASE pid # 0
    <3>1. /\ loop' = loop
          /\ \/ UNCHANGED <<disconnect_requested, kill_timeout, asked>>
             \/ /\ disconnect_requested' /\ kill_timeout'
                /\ asked' = asked \cup {pid}
      BY <1>4, <2>3 DEF QuitTimerExpired, quit_mainloop, quit_or_defer,
          real_disconnect, killVars
    <3>2. pid \in Child /\ child[pid] \in Watched
      BY <2>1, <2>3 DEF TypeOK, SupInv, OneChild
    <3>3. OneChild'
      BY <2>1, <3>1 DEF SupInv, OneChild
    <3>4. FlagsFit'
      BY <2>1, <2>3, <3>1 DEF SupInv, FlagsFit
    <3>5. HistoryFits'
      BY <2>1, <3>1, <3>2 DEF SupInv, HistoryFits, KillOnlyAsked,
          ReportedIffUnexpected, Watched
    <3> QED BY <3>3, <3>4, <3>5 DEF SupInv
  <2> QED BY <2>2, <2>3
<1>5. ASSUME NEW c \in Child, HelperConfig(c)
      PROVE  SupInv'
  <2>1. /\ state' = "started" /\ timers' \subseteq timers
        /\ UNCHANGED <<loop, signalled, pid, disconnect_requested, kill_timeout,
                       child, asked, killed, told>>
    BY <1>5 DEF HelperConfig, loopVars, killVars
  <2> QED BY <2>1 DEF SupInv, OneChild, FlagsFit, HistoryFits, KillOnlyAsked,
              ReportedIffUnexpected
<1>6. CASE ensure_killed
  <2>1. /\ Running /\ kill_timeout /\ ~kill_timeout'
        /\ killed' = killed \cup (IF pid # 0 THEN {pid} ELSE {})
        /\ UNCHANGED <<loop, signalled, state, timers, pid,
                       disconnect_requested, child, asked, told>>
    BY <1>6 DEF ensure_killed, loopVars, libnmVars, procVars
  <2>2. killed' \subseteq asked
    BY <2>1 DEF SupInv, FlagsFit, HistoryFits, KillOnlyAsked
  <2> QED BY <2>1, <2>2 DEF SupInv, OneChild, FlagsFit, HistoryFits,
              KillOnlyAsked, ReportedIffUnexpected
<1>7. CASE signal_handler
  <2>1. /\ Running /\ loop' = "quit" /\ signalled'
        /\ UNCHANGED <<pid, child, asked, killed, told>>
    BY <1>7 DEF signal_handler, killVars, procVars
  <2> QED BY <2>1 DEF SupInv, OneChild, FlagsFit, HistoryFits, KillOnlyAsked,
              ReportedIffUnexpected
<1>8. ASSUME NEW want \in Tun \cup {NoTun}, real_need_secrets(want)
      PROVE  SupInv'
  BY <1>8, FrameSupInv DEF real_need_secrets, supVars, loopVars, libnmVars,
      killVars, procVars
<1> QED BY <1>1, <1>2, <1>3, <1>4, <1>5, <1>6, <1>7, <1>8 DEF Callback

\* The child watch: the child is the current one, and the flag it is judged
\* by is its own.
LEMMA WatchSupInv ==
  ASSUME TypeOK, SupInv, NEW c \in Child, NEW status \in 0 .. 2,
         openconnect_watch_cb(c, status)
  PROVE  SupInv'
<1>1. /\ Running /\ c = pid /\ c # 0 /\ child[c] = "zombie"
      /\ disconnect_requested <=> c \in asked
      /\ c \notin told
      /\ ~disconnect_requested => Active
  BY ConstantsAssumption
  DEF openconnect_watch_cb, SupInv, OneChild, FlagsFit, HistoryFits, Watched
<1>2. /\ child' = [child EXCEPT ![c] = "reaped"]
      /\ pid' = 0 /\ ~disconnect_requested' /\ ~kill_timeout'
      /\ UNCHANGED <<signalled, asked, killed>>
  BY DEF openconnect_watch_cb, forget_child
<1>3. /\ loop' \in {loop, "quit"}
      /\ told' = IF disconnect_requested THEN told ELSE told \cup {c}
  BY <1>1 DEF openconnect_watch_cb, requested_end, unexpected_end, enter_stopped,
      quit_or_defer
<1>4. /\ child'[c] = "reaped"
      /\ \A d \in Child : d # c => child'[d] = child[d] /\ child[d] \notin Watched
  BY <1>1, <1>2 DEF TypeOK, SupInv, OneChild, Watched
<1>5. OneChild'
  BY <1>2, <1>4, ConstantsAssumption DEF OneChild, Watched
<1>6. FlagsFit'
  BY <1>2 DEF FlagsFit
<1>7. HistoryFits'
  <2>1. (c \in asked') # (c \in told')
    BY <1>1, <1>2, <1>3
  <2>2. \A d \in Child : d # c => (d \in told' <=> d \in told)
    BY <1>3
  <2> QED BY <1>2, <1>4, <2>1, <2>2
          DEF SupInv, HistoryFits, KillOnlyAsked, ReportedIffUnexpected, Watched
<1> QED BY <1>5, <1>6, <1>7 DEF SupInv

LEMMA ReturnSupInv ==
  ASSUME TypeOK, SupInv, MainReturns
  PROVE  SupInv'
<1>1. /\ loop = "quit" /\ loop' = "exited"
      /\ UNCHANGED <<signalled, killed, told>>
      /\ asked' = asked \/ (pid # 0 /\ asked' = asked \cup {pid})
  BY DEF MainReturns
<1>6. \A c \in Child : IF child[c] \in {"zombie", "lost"} THEN child'[c] = "gone"
                                                      ELSE child'[c] = child[c]
  BY DEF MainReturns
<1>2. pid # 0 => pid \in Child /\ child[pid] \in Watched
  BY <1>1 DEF TypeOK, SupInv, OneChild
<1>3. OneChild'
  BY <1>1, <1>6 DEF SupInv, OneChild, Watched
<1>4. FlagsFit'
  BY <1>1 DEF FlagsFit
<1>5. HistoryFits'
  BY <1>1, <1>6, <1>2 DEF SupInv, HistoryFits, KillOnlyAsked, ReportedIffUnexpected, Watched
<1> QED BY <1>3, <1>4, <1>5 DEF SupInv

LEMMA EnvSupInv ==
  ASSUME TypeOK, SupInv, EnvStep
  PROVE  SupInv'
<1>1. ASSUME NEW c \in Child, ChildExit(c)
      PROVE  SupInv'
  <2>1. /\ UNCHANGED <<loop, signalled, state, timers, pid, disconnect_requested,
                       kill_timeout, asked, killed, told>>
        /\ child[c] = "live"
        /\ child'[c] = IF loop = "exited" THEN "gone" ELSE "zombie"
        /\ \A d \in Child : d # c => child'[d] = child[d]
    BY <1>1 DEF ChildExit, envUnchanged, loopVars, libnmVars, killVars, TypeOK
  <2>2. OneChild'
    BY <2>1 DEF SupInv, OneChild, Watched
  <2>3. FlagsFit'
    BY <2>1 DEF SupInv, FlagsFit
  <2>4. HistoryFits'
    BY <2>1 DEF SupInv, HistoryFits, KillOnlyAsked, ReportedIffUnexpected, Watched
  <2> QED BY <2>2, <2>3, <2>4 DEF SupInv
<1> USE FrameSupInv DEF supVars, envUnchanged, loopVars, libnmVars, killVars, procVars
<1>2. ASSUME NEW c \in Child, TakeLock(c) \/ AttachTun(c) \/ RunHelper(c)
      PROVE  SupInv'
  BY <1>2 DEF TakeLock, AttachTun, RunHelper
<1>3. ASSUME NEW n \in Tun, AssumeTun(n) \/ ForgetTun(n)
      PROVE  SupInv'
  BY <1>3 DEF AssumeTun, ForgetTun
<1>4. CASE HolderExits
  BY <1>4 DEF HolderExits
<1> QED BY <1>1, <1>2, <1>3, <1>4 DEF EnvStep

LEMMA StepSupInv ==
  ASSUME "connect_early" \notin Faults
  PROVE  TypeOK /\ SupInv /\ [Next]_vars => SupInv'
<1> SUFFICES ASSUME TypeOK, SupInv, [Next]_vars PROVE SupInv'
  OBVIOUS
<1>1. CASE Next
  BY <1>1, NextCases, ConnectSupInv, CallbackSupInv, WatchSupInv, ReturnSupInv, EnvSupInv
<1>2. CASE UNCHANGED vars
  BY <1>2, FrameSupInv DEF vars, supVars
<1> QED BY <1>1, <1>2

LEMMA SupInvHolds ==
  ASSUME "connect_early" \notin Faults
  PROVE  Spec => []SupInv
  BY InitSupInv, StepSupInv, TypeCorrect, PTL DEF Spec

\* The service that is not stopped by a signal never leaves a gpclient it
\* watches behind (quit_mainloop waits, openconnect_watch_cb completes).
THEOREM QuitWaits ==
  ASSUME "connect_early" \notin Faults
  PROVE  Spec => []QuitWaitsForChild
<1>1. SupInv => QuitWaitsForChild
  BY DEF SupInv, OneChild, QuitWaitsForChild, Watched
<1> QED BY <1>1, SupInvHolds, PTL

\* SIGKILL reaches only a gpclient that had its SIGINT (ensure_killed).
THEOREM KillIsEscalation ==
  ASSUME "connect_early" \notin Faults
  PROVE  Spec => []KillOnlyAsked
<1>1. SupInv => KillOnlyAsked
  BY DEF SupInv, HistoryFits
<1> QED BY <1>1, SupInvHolds, PTL

\* NetworkManager hears of the end of a gpclient exactly when nobody asked
\* for it (openconnect_watch_cb).
THEOREM ReportsAreExact ==
  ASSUME "connect_early" \notin Faults
  PROVE  Spec => []ReportedIffUnexpected
<1>1. SupInv => ReportedIffUnexpected
  BY DEF SupInv, HistoryFits
<1> QED BY <1>1, SupInvHolds, PTL

\* No callback makes the plugin lose a gpclient that has not been reaped.
THEOREM NoChildIsLost ==
  ASSUME "connect_early" \notin Faults
  PROVE  Spec => ForgetsOnlyReaped
<1>1. TypeOK /\ SupInv /\ [Next]_vars
        => [pid # 0 /\ pid' # pid => child'[pid] = "reaped"]_vars
  <2> SUFFICES ASSUME TypeOK, SupInv, Next, pid # 0, pid' # pid
               PROVE  child'[pid] = "reaped"
    OBVIOUS
  <2>1. ASSUME NEW want \in Tun \cup {NoTun}, real_connect(want)
        PROVE  FALSE
    <3>1. ConnectAccepted
      BY <2>1 DEF real_connect, ConnectInvalid, ConnectNoTun, ConnectTunHalfMade,
          ConnectLocked, ConnectSpawnFails, ConnectStdinFails, ConnectLaunched
    <3> QED BY <3>1, ConnectFindsNoChild
  <2>2. CASE Callback
    BY <2>2 DEF Callback, Disconnect, ConnectTimerExpired, FailStop,
        QuitTimerExpired, HelperConfig, HelperFailure, ensure_killed,
        signal_handler, real_need_secrets
  <2>3. ASSUME NEW c \in Child, NEW status \in 0 .. 2, openconnect_watch_cb(c, status)
        PROVE  child'[pid] = "reaped"
    <3>1. c = pid
      BY <2>3 DEF openconnect_watch_cb, SupInv, OneChild, Watched
    <3> QED BY <2>3, <3>1 DEF openconnect_watch_cb, TypeOK
  <2>4. CASE MainReturns
    BY <2>4 DEF MainReturns
  <2>5. CASE EnvStep
    BY <2>5 DEF EnvStep, HolderExits, TakeLock, AttachTun, RunHelper, ChildExit,
        AssumeTun, ForgetTun, envUnchanged
  <2> QED BY <2>1, <2>2, <2>3, <2>4, <2>5, NextCases
<1> QED BY <1>1, SupInvHolds, TypeCorrect, PTL DEF Spec, ForgetsOnlyReaped

-----------------------------------------------------------------------------
(* The service implements VpnSession.  SupInv tells which abstract step a  *)
(* callback is: without it a Disconnect could ask a gpclient twice, or the *)
(* child watch could end one that is not the current one.                  *)

\* A step that touches nothing the mapping reads is a stutter.
LEMMA SessionStutter ==
  ASSUME UNCHANGED <<loop, signalled, pid, disconnect_requested, asked, killed, told>>,
         SessionEnded' = SessionEnded
  PROVE  UNCHANGED Session!vars
  BY DEF Session!vars, SessionPhase

LEMMA SessionConnect ==
  ASSUME "connect_early" \notin Faults, TypeOK, SupInv,
         NEW want \in Tun \cup {NoTun}, real_connect(want)
  PROVE  [Session!Next]_(Session!vars)
<1>1. /\ Running /\ pid = 0
      /\ \A c \in Child : child[c] \notin Watched
  <2>1. ConnectAccepted
    BY DEF real_connect, ConnectInvalid, ConnectNoTun, ConnectTunHalfMade,
        ConnectLocked, ConnectSpawnFails, ConnectStdinFails, ConnectLaunched
  <2> QED BY <2>1, ConnectFindsNoChild DEF ConnectAccepted
<1>2. ASSUME connect_failed,
             \/ UNCHANGED child
             \/ \E c \in Child : Fresh(c) /\ child' = [child EXCEPT ![c] = "lost"]
      PROVE  UNCHANGED Session!vars
  <2>1. SessionEnded' = SessionEnded
    BY <1>2 DEF SessionEnded, Fresh, TypeOK
  <2> QED BY <1>2, <2>1, SessionStutter DEF connect_failed, loopVars, killVars
<1>3. CASE ConnectLaunched(want)
  <2>1. PICK c \in Child :
          Fresh(c) /\ child' = [child EXCEPT ![c] = "live"] /\ pid' = c
    BY <1>3 DEF ConnectLaunched
  <2>2. /\ UNCHANGED <<loop, asked, killed, told>> /\ ~disconnect_requested'
    BY <1>3 DEF ConnectLaunched, connect_succeeded, loopVars
  <2>3. child[c] = "none" /\ SessionEnded' = SessionEnded /\ c # 0
    BY <2>1, ConstantsAssumption DEF Fresh, SessionEnded, TypeOK
  <2>4. c \notin asked \cup told \cup SessionEnded
    BY <2>3 DEF SupInv, HistoryFits, SessionEnded
  <2>5. SessionPhase = "idle" /\ SessionPhase' = "running"
    BY <1>1, <2>1, <2>2, <2>3 DEF SessionPhase
  <2>6. Session!Launch(c)
    BY <2>1, <2>2, <2>3, <2>4, <2>5 DEF Session!Launch
  <2> QED BY <2>6 DEF Session!Next
<1> QED BY <1>2, <1>3 DEF real_connect, ConnectInvalid, ConnectNoTun,
        ConnectTunHalfMade, ConnectLocked, ConnectSpawnFails, ConnectStdinFails

\* Whoever asks the child to stop, once or again, and leaves if there is none.
LEMMA SessionStop ==
  ASSUME TypeOK, SupInv, Running,
         SessionEnded' = SessionEnded, ~signalled,
         UNCHANGED <<signalled, pid, killed, told>>,
         \/ UNCHANGED <<loop, disconnect_requested, asked>>
         \/ pid = 0 /\ loop' = "quit" /\ UNCHANGED <<disconnect_requested, asked>>
         \/ /\ pid # 0 /\ loop' = loop
            /\ disconnect_requested' = TRUE /\ asked' = asked \cup {pid}
  PROVE  [Session!Next]_(Session!vars)
<1>1. CASE UNCHANGED <<loop, disconnect_requested, asked>>
  BY <1>1, SessionStutter
<1>2. CASE pid = 0 /\ loop' = "quit" /\ UNCHANGED <<disconnect_requested, asked>>
  <2>1. SessionPhase = "idle" /\ SessionPhase' = "leaving"
    BY <1>2 DEF SessionPhase
  <2>2. Session!Leave
    BY <1>2, <2>1 DEF Session!Leave
  <2> QED BY <2>2 DEF Session!Next
<1>3. CASE /\ pid # 0 /\ loop' = loop
           /\ disconnect_requested' = TRUE /\ asked' = asked \cup {pid}
  <2>1. CASE disconnect_requested
    <3>1. asked' = asked
      BY <1>3, <2>1 DEF SupInv, FlagsFit
    <3> QED BY <1>3, <2>1, <3>1, SessionStutter
  <2>2. CASE ~disconnect_requested
    <3>1. SessionPhase = "running" /\ SessionPhase' = "stopping"
      BY <1>3, <2>2 DEF SessionPhase
    <3>2. Session!Request
      BY <1>3, <3>1 DEF Session!Request
    <3> QED BY <3>2 DEF Session!Next
  <2> QED BY <2>1, <2>2 DEF TypeOK
<1> QED BY <1>1, <1>2, <1>3

\* Only a loop that was left by a signal is marked as signalled.
SignalEnds == Running => ~signalled

LEMMA StepSignalEnds == SignalEnds /\ [Next]_vars => SignalEnds'
<1> SUFFICES ASSUME SignalEnds, [Next]_vars PROVE SignalEnds'
  OBVIOUS
<1> USE DEF SignalEnds
<1>1. ASSUME NEW want \in Tun \cup {NoTun}, real_connect(want)
      PROVE  SignalEnds'
  BY <1>1 DEF real_connect, ConnectInvalid, ConnectNoTun, ConnectTunHalfMade,
      ConnectLocked, ConnectSpawnFails, ConnectStdinFails, ConnectLaunched,
      connect_failed, connect_succeeded, loopVars
<1>2. CASE Callback
  BY <1>2 DEF Callback, Disconnect, ConnectTimerExpired, FailStop, QuitTimerExpired,
      HelperConfig, HelperFailure, ensure_killed, signal_handler,
      real_need_secrets, loopVars
<1>3. ASSUME NEW c \in Child, NEW status \in 0 .. 2, openconnect_watch_cb(c, status)
      PROVE  SignalEnds'
  BY <1>3 DEF openconnect_watch_cb
<1>4. CASE MainReturns
  BY <1>4 DEF MainReturns
<1>5. CASE EnvStep
  BY <1>5 DEF EnvStep, HolderExits, TakeLock, AttachTun, RunHelper, ChildExit,
      AssumeTun, ForgetTun, envUnchanged, loopVars
<1>6. CASE UNCHANGED vars
  BY <1>6 DEF vars
<1> QED BY <1>1, <1>2, <1>3, <1>4, <1>5, <1>6, NextCases

LEMMA SignalEndsHolds == Spec => []SignalEnds
<1>1. Init => SignalEnds
  BY DEF Init, SignalEnds
<1> QED BY <1>1, StepSignalEnds, PTL DEF Spec

LEMMA SessionCallback ==
  ASSUME TypeOK, SupInv, SignalEnds, Callback
  PROVE  [Session!Next]_(Session!vars)
<1>0. ~signalled
  BY DEF SignalEnds, Callback, Disconnect, ConnectTimerExpired, FailStop,
      QuitTimerExpired, HelperConfig, HelperFailure, ensure_killed, signal_handler,
      real_need_secrets
<1>1. Running /\ SessionEnded' = SessionEnded /\ told' = told
  BY DEF Callback, Disconnect, ConnectTimerExpired, FailStop, QuitTimerExpired,
      HelperConfig, HelperFailure, ensure_killed, signal_handler,
      real_need_secrets, procVars, SessionEnded
<1>2. ASSUME plugin_disconnect, UNCHANGED <<signalled, pid, killed>>
      PROVE  [Session!Next]_(Session!vars)
  BY <1>0, <1>1, <1>2, SessionStop
  DEF plugin_disconnect, real_disconnect, enter_stopped, quit_or_defer, killVars
<1>3. ASSUME quit_mainloop \/ UNCHANGED <<loop, killVars>>,
             UNCHANGED <<signalled, pid, killed>>
      PROVE  [Session!Next]_(Session!vars)
  BY <1>0, <1>1, <1>3, SessionStop DEF quit_mainloop, real_disconnect, quit_or_defer, killVars
<1>4. CASE Disconnect \/ ConnectTimerExpired \/ \E c \in Child : HelperFailure(c)
  BY <1>2, <1>4 DEF Disconnect, ConnectTimerExpired, HelperFailure
<1>5. CASE FailStop \/ QuitTimerExpired
  BY <1>3, <1>5 DEF FailStop, QuitTimerExpired
<1>6. ASSUME \/ \E c \in Child : HelperConfig(c)
             \/ \E want \in Tun \cup {NoTun} : real_need_secrets(want)
      PROVE  UNCHANGED Session!vars
  BY <1>1, <1>6, SessionStutter DEF HelperConfig, real_need_secrets, loopVars, killVars
<1>7. CASE ensure_killed
  <2>1. pid # 0 /\ disconnect_requested
    BY <1>7 DEF ensure_killed, SupInv, FlagsFit
  <2>2. /\ UNCHANGED <<loop, pid, disconnect_requested, asked>>
        /\ killed' = killed \cup {pid}
    BY <1>7, <2>1 DEF ensure_killed, loopVars
  <2>3. SessionPhase = "stopping" /\ SessionPhase' = "stopping"
    BY <1>1, <2>1, <2>2 DEF SessionPhase
  <2>4. Session!Kill
    BY <1>1, <2>2, <2>3 DEF Session!Kill
  <2> QED BY <2>4 DEF Session!Next
<1>8. CASE signal_handler
  <2>1. loop' = "quit" /\ signalled' = TRUE /\ UNCHANGED <<pid, asked, killed>>
    BY <1>8 DEF signal_handler, killVars
  <2>2. SessionPhase \in {"idle", "running", "stopping"} /\ SessionPhase' = "interrupted"
    BY <1>1, <2>1 DEF SessionPhase
  <2>3. Session!Interrupt
    BY <1>1, <2>1, <2>2 DEF Session!Interrupt
  <2> QED BY <2>3 DEF Session!Next
<1> QED BY <1>4, <1>5, <1>6, <1>7, <1>8 DEF Callback

LEMMA SessionWatch ==
  ASSUME TypeOK, SupInv, SignalEnds, NEW c \in Child, NEW status \in 0 .. 2,
         openconnect_watch_cb(c, status)
  PROVE  [Session!Next]_(Session!vars)
<1>1. /\ Running /\ c = pid /\ pid # 0
      /\ disconnect_requested \in BOOLEAN
      /\ ~disconnect_requested => Active
  BY ConstantsAssumption
  DEF openconnect_watch_cb, TypeOK, SupInv, OneChild, FlagsFit, Watched
<1>2. /\ pid' = 0 /\ UNCHANGED <<asked, killed>> /\ ~signalled'
      /\ child' = [child EXCEPT ![c] = "reaped"]
  BY <1>1 DEF openconnect_watch_cb, forget_child, SignalEnds
<1>3. SessionEnded' = SessionEnded \cup {c}
  BY <1>2 DEF SessionEnded, TypeOK
<1>4. /\ loop' \in {"running", "quit"}
      /\ told' = IF disconnect_requested THEN told ELSE told \cup {c}
  BY <1>1 DEF openconnect_watch_cb, requested_end, unexpected_end, enter_stopped,
      quit_or_defer
<1>5. /\ SessionPhase = IF disconnect_requested THEN "stopping" ELSE "running"
      /\ SessionPhase' \in {"idle", "leaving"}
  BY <1>1, <1>2, <1>4 DEF SessionPhase
<1>6. Session!End(disconnect_requested)
  BY <1>1, <1>2, <1>3, <1>4, <1>5 DEF Session!End
<1> QED BY <1>1, <1>6 DEF Session!Next

LEMMA SessionReturn ==
  ASSUME TypeOK, SupInv, MainReturns
  PROVE  [Session!Next]_(Session!vars)
<1>1. /\ loop = "quit" /\ SessionPhase' = "gone"
      /\ UNCHANGED <<pid, killed, told>>
      /\ asked' = asked \/ (pid # 0 /\ asked' = asked \cup {pid})
  BY DEF MainReturns, SessionPhase
<1>2. SessionEnded' = SessionEnded
  BY DEF MainReturns, SessionEnded
<1>3. CASE ~signalled
  <2>1. pid = 0
    BY <1>1, <1>3 DEF TypeOK, SupInv, OneChild
  <2>2. SessionPhase = "leaving"
    BY <1>1, <1>3 DEF SessionPhase
  <2>3. Session!Exit
    BY <1>1, <1>2, <2>1, <2>2 DEF Session!Exit
  <2> QED BY <2>3 DEF Session!Next
<1>4. CASE signalled
  <2>1. SessionPhase = "interrupted"
    BY <1>1, <1>4 DEF SessionPhase
  <2>2. Session!Abandon
    BY <1>1, <1>2, <2>1 DEF Session!Abandon
  <2> QED BY <2>2 DEF Session!Next
<1> QED BY <1>3, <1>4

LEMMA SessionEnv ==
  ASSUME TypeOK, EnvStep
  PROVE  UNCHANGED Session!vars
<1>1. UNCHANGED <<loop, signalled, pid, disconnect_requested, asked, killed, told>>
  BY DEF EnvStep, HolderExits, TakeLock, AttachTun, RunHelper, ChildExit,
      AssumeTun, ForgetTun, envUnchanged, loopVars, killVars
<1>2. SessionEnded' = SessionEnded
  <2>1. ASSUME NEW c \in Child, ChildExit(c)
        PROVE  SessionEnded' = SessionEnded
    BY <2>1 DEF ChildExit, SessionEnded, TypeOK
  <2>2. CASE child' = child
    BY <2>2 DEF SessionEnded
  <2> QED BY <2>1, <2>2 DEF EnvStep, HolderExits, TakeLock, AttachTun, RunHelper,
          AssumeTun, ForgetTun, procVars
<1> QED BY <1>1, <1>2, SessionStutter

\* The service, with its timers, flags, deferred quit and D-Bus callbacks,
\* does only what VpnSession allows: one gpclient at a time, each ended
\* quietly if it was asked to and else reported, SIGKILL only while stopping,
\* and none left running unless a signal interrupts the service.
THEOREM ServiceImplementsSession ==
  ASSUME "connect_early" \notin Faults
  PROVE  Spec => ImplementsSession
<1>1. Init => Session!Init
  BY DEF Init, Session!Init, SessionPhase, SessionEnded
<1>2. TypeOK /\ SupInv /\ SignalEnds /\ [Next]_vars => [Session!Next]_(Session!vars)
  <2> SUFFICES ASSUME TypeOK, SupInv, SignalEnds, [Next]_vars
               PROVE  [Session!Next]_(Session!vars)
    OBVIOUS
  <2>1. CASE Next
    BY <2>1, NextCases, SessionConnect, SessionCallback, SessionWatch,
       SessionReturn, SessionEnv
  <2>2. CASE UNCHANGED vars
    BY <2>2, SessionStutter DEF vars, SessionEnded
  <2> QED BY <2>1, <2>2
<1> QED BY <1>1, <1>2, SupInvHolds, SignalEndsHolds, TypeCorrect, PTL
        DEF Spec, ImplementsSession, Session!Spec

-----------------------------------------------------------------------------
(* Connections that NetworkManager assumed for a device.                   *)

\* A gpclient that has a device open is alive: the kernel closes it otherwise.
AttachedLive ==
    \A n \in Tun : attached[n] \in Child => child[attached[n]] = "live"

LEMMA StepAttachedLive ==
  TypeOK /\ AttachedLive /\ [Next]_vars => AttachedLive'
<1> SUFFICES ASSUME TypeOK, AttachedLive, [Next]_vars PROVE AttachedLive'
  OBVIOUS
<1>a. ASSUME attached' = attached,
             \A c \in Child : child[c] = "live" => child'[c] = "live"
      PROVE  AttachedLive'
  BY <1>a DEF AttachedLive
<1>1. ASSUME NEW want \in Tun \cup {NoTun}, real_connect(want)
      PROVE  AttachedLive'
  <2>1. \A c \in Child : child[c] = "live" => child'[c] = "live"
    BY <1>1 DEF real_connect, ConnectInvalid, ConnectNoTun, ConnectTunHalfMade,
        ConnectLocked, ConnectSpawnFails, ConnectStdinFails, ConnectLaunched, Fresh, TypeOK
  <2>2. CASE ConnectTunHalfMade(want)
    <3>1. child' = child /\ \A n \in Tun : attached'[n] \in {attached[n], Self}
      BY <2>2 DEF ConnectTunHalfMade, TypeOK
    <3>2. Self \notin Child
      BY ConstantsAssumption
    <3> QED BY <3>1, <3>2 DEF AttachedLive
  <2>3. CASE attached' = attached
    BY <1>a, <2>1, <2>3
  <2> QED BY <1>1, <2>2, <2>3 DEF real_connect, ConnectInvalid, ConnectNoTun,
          ConnectLocked, ConnectSpawnFails, ConnectStdinFails, ConnectLaunched,
          tun_handed_over, Created
<1>2. CASE Callback
  <2>1. UNCHANGED <<attached, child>>
    BY <1>2 DEF Callback, Disconnect, ConnectTimerExpired, FailStop,
        QuitTimerExpired, HelperConfig, HelperFailure, ensure_killed,
        signal_handler, real_need_secrets, procVars, tunVars
  <2> QED BY <1>a, <2>1
<1>3. ASSUME NEW c \in Child, NEW status \in 0 .. 2, openconnect_watch_cb(c, status)
      PROVE  AttachedLive'
  BY <1>a, <1>3 DEF openconnect_watch_cb, TypeOK
<1>4. CASE MainReturns
  <2>1. \A c \in Child : child[c] = "live" => child'[c] = "live"
    BY <1>4 DEF MainReturns
  <2>2. \A n \in Tun : attached'[n] \in Child => attached'[n] = attached[n]
    BY <1>4, ConstantsAssumption DEF MainReturns
  <2> QED BY <2>1, <2>2 DEF AttachedLive
<1>5. CASE EnvStep
  <2>1. ASSUME NEW c \in Child, ChildExit(c)
        PROVE  AttachedLive'
    <3>1. /\ \A d \in Child : d # c => child'[d] = child[d]
          /\ \A n \in Tun : attached'[n] = IF attached[n] = c THEN Nobody ELSE attached[n]
      BY <2>1 DEF ChildExit, TypeOK
    <3>2. 0 \notin Child
      BY ConstantsAssumption
    <3> QED BY <3>1, <3>2 DEF AttachedLive
  <2>2. ASSUME NEW c \in Child, AttachTun(c)
        PROVE  AttachedLive'
    <3>1. child[c] = "live" /\ child' = child /\ attached' = [attached EXCEPT ![tunOf[c]] = c]
      BY <2>2 DEF AttachTun, procVars
    <3> QED BY <3>1 DEF AttachedLive, TypeOK
  <2>3. CASE UNCHANGED <<attached, child>>
    BY <1>a, <2>3
  <2> QED BY <1>5, <2>1, <2>2, <2>3 DEF EnvStep, HolderExits, TakeLock, RunHelper,
          AssumeTun, ForgetTun, procVars, tunVars
<1>6. CASE UNCHANGED vars
  BY <1>a, <1>6 DEF vars
<1> QED BY <1>1, <1>2, <1>3, <1>4, <1>5, <1>6, NextCases

LEMMA AttachedLiveHolds == Spec => []AttachedLive
<1>1. Init => AttachedLive
  BY ConstantsAssumption DEF Init, AttachedLive
<1> QED BY <1>1, StepAttachedLive, TypeCorrect, PTL DEF Spec

\* The clean-up of assumed "tun" connections, in NeedSecrets and when a
\* gpclient is reaped, never deactivates the device of a live gpclient.
THEOREM CleanUpSparesLiveVpn ==
  ASSUME "connect_early" \notin Faults
  PROVE  Spec => NeverCutsLiveVpn
<1>1. TypeOK /\ SupInv /\ AttachedLive /\ [Next]_vars
        => [Running /\ assumed' # assumed =>
              \A n \in assumed \ assumed' :
                 n \in persistent => attached[n] \notin Child]_vars
  <2> SUFFICES ASSUME TypeOK, SupInv, AttachedLive, Next, Running,
                      NEW n \in assumed \ assumed', n \in persistent
               PROVE  attached[n] \notin Child
    OBVIOUS
  <2>a. ASSUME \A c \in Child : child[c] # "live"
        PROVE  attached[n] \notin Child
    BY <2>a DEF AttachedLive, TypeOK
  <2>1. ASSUME NEW want \in Tun \cup {NoTun}, real_connect(want)
        PROVE  FALSE
    BY <2>1 DEF real_connect, ConnectInvalid, ConnectNoTun, ConnectTunHalfMade,
        ConnectLocked, ConnectSpawnFails, ConnectStdinFails, ConnectLaunched,
        connect_failed, connect_succeeded
  <2>2. ASSUME NEW want \in Tun \cup {NoTun}, real_need_secrets(want)
        PROVE  attached[n] \notin Child
    BY <2>a, <2>2, ConstantsAssumption DEF real_need_secrets, SupInv, OneChild, Watched
  <2>3. ASSUME Callback, assumed' # assumed
        PROVE  \E want \in Tun \cup {NoTun} : real_need_secrets(want)
    BY <2>3 DEF Callback, Disconnect, ConnectTimerExpired, FailStop,
        QuitTimerExpired, HelperConfig, HelperFailure, ensure_killed,
        signal_handler, tunVars
  <2>4. ASSUME NEW c \in Child, NEW status \in 0 .. 2, openconnect_watch_cb(c, status)
        PROVE  attached[n] \notin Child
    BY <2>a, <2>4 DEF openconnect_watch_cb, SupInv, OneChild, Watched
  <2>5. CASE MainReturns
    BY <2>5 DEF MainReturns
  <2>6. CASE EnvStep
    BY <2>6 DEF EnvStep, HolderExits, TakeLock, AttachTun, RunHelper, ChildExit,
        AssumeTun, ForgetTun, tunVars
  <2> QED BY <2>1, <2>2, <2>3, <2>4, <2>5, <2>6, NextCases
<1> QED BY <1>1, SupInvHolds, AttachedLiveHolds, TypeCorrect, PTL DEF Spec, NeverCutsLiveVpn

-----------------------------------------------------------------------------
(* The TUN device, when in addition a launch does not fail after the       *)
(* device was handed over and destroying a device nobody has open works.   *)

USE DEF AttachedLive

TunFaults == {"connect_early", "spawn", "stdin", "tun_destroy"}

\* Only live processes have devices open, and nobody but the current child
\* has the current device open: so it can be destroyed once the child is dead.
TunInv ==
    /\ AttachedLive
    /\ Running /\ pid # 0 /\ tun_name # NoTun => attached[tun_name] \in {Nobody, pid}
    /\ TunAccounted

\* The variables TunInv speaks about.
LEMMA FrameTunInv ==
  ASSUME TunInv, UNCHANGED <<pid, tun_name, child, persistent, attached>>,
         loop' = "running" => loop = "running"
  PROVE  TunInv'
  BY DEF TunInv, TunAccounted

LEMMA ConnectTunInv ==
  ASSUME Faults \cap TunFaults = {}, TypeOK, SupInv, TunInv,
         NEW want \in Tun \cup {NoTun}, real_connect(want)
  PROVE  TunInv'
<1> USE DEF TunFaults
<1>1. ConnectAccepted
  BY DEF real_connect, ConnectInvalid, ConnectNoTun, ConnectTunHalfMade,
      ConnectLocked, ConnectSpawnFails, ConnectStdinFails, ConnectLaunched
<1>2. pid = 0 /\ persistent = {} /\ \A c \in Child : child[c] # "live"
  BY <1>1, ConnectFindsNoChild DEF TunInv, TunAccounted, Watched
<1>3. \A n \in Tun : attached[n] \notin Child
  BY <1>2 DEF TunInv
<1>4. CASE ConnectInvalid
  BY <1>2, <1>3, <1>4 DEF ConnectInvalid, connect_failed, TunInv, TunAccounted
<1>5. CASE ConnectNoTun(want)
  BY <1>2, <1>3, <1>5 DEF ConnectNoTun, connect_failed, TunInv, TunAccounted
<1>6. CASE ConnectTunHalfMade(want)
  <2>1. /\ pid' = 0 /\ persistent' = {}
    BY <1>2, <1>6 DEF ConnectTunHalfMade, connect_failed
  <2>2. \A n \in Tun : attached'[n] \notin Child
    BY <1>3, <1>6, ConstantsAssumption DEF ConnectTunHalfMade, TypeOK
  <2> QED BY <2>1, <2>2 DEF TunInv, TunAccounted
<1>7. CASE ConnectLocked(want)
  <2>1. persistent' = {}
    BY <1>2, <1>7 DEF ConnectLocked, destroy_persistent_tundev, Created, TunFor, FreeTun
  <2>2. pid' = 0 /\ attached' = attached
    BY <1>2, <1>7 DEF ConnectLocked, connect_failed
  <2> QED BY <1>3, <2>1, <2>2 DEF TunInv, TunAccounted
<1>8. CASE ConnectLaunched(want)
  <2>1. PICK n \in Created(want), c \in Child : tun_handed_over(n) /\ pid' = c
    BY <1>8 DEF ConnectLaunched
  <2>2. n = NoTun \/ (n \in Tun /\ attached[n] = Nobody)
    BY DEF Created, TunFor, FreeTun
  <2>3. /\ tun_name' = n /\ attached' = attached
        /\ persistent' = IF n = NoTun THEN {} ELSE {n}
    BY <1>2, <2>1 DEF tun_handed_over
  <2>4. pid' # 0
    BY <2>1, ConstantsAssumption
  <2> QED BY <1>3, <2>2, <2>3, <2>4 DEF TunInv, TunAccounted
<1> QED BY <1>4, <1>5, <1>6, <1>7, <1>8 DEF real_connect, ConnectSpawnFails, ConnectStdinFails

\* The child watch destroys the device: its child is a zombie, so nobody has
\* it open.
LEMMA WatchTunInv ==
  ASSUME Faults \cap TunFaults = {}, TypeOK, SupInv, TunInv,
         NEW c \in Child, NEW status \in 0 .. 2, openconnect_watch_cb(c, status)
  PROVE  TunInv'
<1>1. /\ Running /\ c = pid /\ c # 0 /\ child[c] = "zombie"
      /\ pid' = 0 /\ attached' = attached
      /\ child' = [child EXCEPT ![c] = "reaped"]
  BY ConstantsAssumption
  DEF openconnect_watch_cb, forget_child, SupInv, OneChild, Watched
<1>2. \A n \in Tun : attached'[n] \in Child => child'[attached'[n]] = "live"
  BY <1>1 DEF TunInv, TypeOK
<1>3. persistent' = {}
  <2>1. CASE tun_name = NoTun
    <3>1. persistent' = persistent
      BY <2>1 DEF openconnect_watch_cb, release_tun
    <3> QED BY <1>1, <2>1, <3>1 DEF TunInv, TunAccounted, TypeOK, Tun
  <2>2. CASE tun_name # NoTun
    <3>1. tun_name \in Tun /\ attached[tun_name] = Nobody
      BY <1>1, <2>2 DEF TunInv, TypeOK
    <3>2. persistent' = persistent \ {tun_name}
      BY <2>2, <3>1 DEF openconnect_watch_cb, release_tun,
          destroy_persistent_tundev, FreeTun, TunFaults
    <3> QED BY <1>1, <3>2 DEF TunInv, TunAccounted
  <2> QED BY <2>1, <2>2
<1> QED BY <1>1, <1>2, <1>3 DEF TunInv, TunAccounted

LEMMA EnvTunInv ==
  ASSUME TypeOK, SupInv, TunInv, EnvStep
  PROVE  TunInv'
<1>1. ASSUME NEW c \in Child, ChildExit(c)
      PROVE  TunInv'
  <2>1. /\ UNCHANGED <<loop, pid, tun_name, persistent>>
        /\ \A d \in Child : d # c => child'[d] = child[d]
        /\ \A n \in Tun : attached'[n] = IF attached[n] = c THEN Nobody ELSE attached[n]
    BY <1>1 DEF ChildExit, envUnchanged, loopVars, TypeOK
  <2>2. 0 \notin Child
    BY ConstantsAssumption
  <2> QED BY <2>1, <2>2 DEF TunInv, TunAccounted, TypeOK
<1>2. ASSUME NEW c \in Child, AttachTun(c)
      PROVE  TunInv'
  <2>1. /\ UNCHANGED <<loop, pid, tun_name, persistent, child>>
        /\ child[c] = "live" /\ tunOf[c] \in Tun
        /\ attached' = [attached EXCEPT ![tunOf[c]] = c]
    BY <1>2 DEF AttachTun, FreeTun, envUnchanged, loopVars, procVars
  <2>2. Running => c = pid
    BY <2>1 DEF SupInv, OneChild, Watched
  <2> QED BY <2>1, <2>2 DEF TunInv, TunAccounted, TypeOK
<1>3. ASSUME NEW c \in Child, TakeLock(c) \/ RunHelper(c)
      PROVE  TunInv'
  BY <1>3, FrameTunInv DEF TakeLock, RunHelper, envUnchanged, loopVars, procVars, tunVars
<1>4. ASSUME NEW n \in Tun, AssumeTun(n) \/ ForgetTun(n)
      PROVE  TunInv'
  BY <1>4, FrameTunInv DEF AssumeTun, ForgetTun, envUnchanged, loopVars, procVars
<1>5. CASE HolderExits
  BY <1>5, FrameTunInv DEF HolderExits, envUnchanged, loopVars, procVars, tunVars
<1> QED BY <1>1, <1>2, <1>3, <1>4, <1>5 DEF EnvStep

LEMMA StepTunInv ==
  ASSUME Faults \cap TunFaults = {}
  PROVE  TypeOK /\ SupInv /\ TunInv /\ [Next]_vars => TunInv'
<1> SUFFICES ASSUME TypeOK, SupInv, TunInv, [Next]_vars PROVE TunInv'
  OBVIOUS
<1>1. CASE Callback
  <2>1. /\ UNCHANGED <<pid, tun_name, child, persistent, attached>>
        /\ loop = "running"
    BY <1>1 DEF Callback, Disconnect, ConnectTimerExpired, FailStop,
        QuitTimerExpired, HelperConfig, HelperFailure, ensure_killed,
        signal_handler, real_need_secrets, procVars, tunVars
  <2> QED BY <2>1, FrameTunInv
<1>2. CASE MainReturns
  <2>1. /\ UNCHANGED <<pid, tun_name, persistent>> /\ loop' = "exited"
    BY <1>2 DEF MainReturns
  <2>2. \A c \in Child : child[c] = "live" => child'[c] = "live"
    BY <1>2 DEF MainReturns
  <2>3. \A n \in Tun : attached'[n] \in Child => attached'[n] = attached[n]
    BY <1>2, ConstantsAssumption DEF MainReturns
  <2> QED BY <2>1, <2>2, <2>3 DEF TunInv, TunAccounted
<1>3. CASE UNCHANGED vars
  BY <1>3, FrameTunInv DEF vars
<1> QED BY <1>1, <1>2, <1>3, NextCases, ConnectTunInv, WatchTunInv, EnvTunInv

\* Between two connections the service owns no persistent TUN device, and
\* during one only the device it will destroy (create_persistent_tundev,
\* destroy_persistent_tundev and their callers).
THEOREM NoTunLeftBehind ==
  ASSUME Faults \cap TunFaults = {}
  PROVE  Spec => []TunAccounted
<1>1. Init => TunInv
  BY ConstantsAssumption DEF Init, TunInv, TunAccounted
<1>2. TunInv => TunAccounted
  BY DEF TunInv
<1>3. "connect_early" \notin Faults
  BY DEF TunFaults
<1> QED BY <1>1, <1>2, <1>3, SupInvHolds, StepTunInv, TypeCorrect, PTL DEF Spec
=============================================================================
