--------------------------- MODULE GpclientService ---------------------------
(***************************************************************************)
(* The VPN service process nm-gpclient-service: the plugin object that     *)
(* NetworkManager drives over D-Bus, the gpclient child it launches, the   *)
(* persistent TUN device it creates for that child, and the PID lock file. *)
(*                                                                         *)
(* The process is a single-threaded GLib main loop, so one callback (a     *)
(* D-Bus method, a timer, the child watch) is one atomic action.  What     *)
(* interleaves are the callbacks, the gpclient processes, NetworkManager   *)
(* and the vpnc-script helper that gpclient runs.                          *)
(*                                                                         *)
(* libnm's NMVpnServicePlugin, the base class, is not part of this         *)
(* repository; its state machine is modelled from the way the plugin uses  *)
(* it (the operators marked "libnm").  Its STOPPING state is entered and   *)
(* left within one callback and so is never seen between two actions.      *)
(***************************************************************************)
EXTENDS Integers

CONSTANTS
    Child,      \* gpclient processes the service may spawn, by pid
    TunCount,   \* interface names vpn0 .. vpn(TunCount-1); 256 in the code
    Faults      \* what the environment may do, a subset of AllFaults

\* "connect_early": NM calls Connect while the last gpclient is still dying.
\* "sigterm": the service is sent SIGTERM or SIGINT.
\* The others are system calls that fail.
AllFaults == {"connect_early", "sigterm", "no_user", "tun_open", "tun_setup",
              "tun_destroy", "unlink", "spawn", "stdin"}

ASSUME ConstantsAssumption ==
    /\ Child \subseteq Nat \ {0}
    /\ TunCount \in Nat \ {0}
    /\ Faults \subseteq AllFaults

Tun == 0 .. (TunCount - 1)
NoTun == -1         \* priv->tun_name == NULL

Nobody == 0         \* who has a TUN device open: nobody,
Self == -1          \*   this service (a descriptor it never closed),
Other == -2         \*   a process outside the model, or a Child

NoFile == 0         \* the lock file: absent,
Stale == -1         \*   present, but garbage or the pid of a dead process,
Held == -2          \*   the pid of a live process outside the model, or a Child

VARIABLES
    \* main(): the command line, g_main_loop_run and what stopped it
    debug, persist, loop, signalled,
    \* libnm: NMVpnServiceState and the armed timeout/idle sources
    state, timers,
    \* NMOpenconnectPluginPrivate
    pid, tun_name, disconnect_requested, quit_pending, kill_timeout,
    \* gpclient processes: life, --interface argument, helper's D-Bus call
    child, tunOf, helper,
    \* the lock file, the kernel's TUN devices, NM's assumed connections
    lock, persistent, attached, assumed,
    \* history: children sent SIGINT, sent SIGKILL, whose end NM was told of
    asked, killed, told

optVars == <<debug, persist>>
loopVars == <<loop, signalled>>
libnmVars == <<state, timers>>
killVars == <<disconnect_requested, kill_timeout, asked>>
procVars == <<child, tunOf, helper>>
tunVars == <<persistent, attached, assumed>>
vars == <<debug, persist, loop, signalled, state, timers, pid, tun_name,
          disconnect_requested, quit_pending, kill_timeout, child, tunOf,
          helper, lock, persistent, attached, assumed, asked, killed, told>>

\* A "lost" child is one that exited and that no child watch will ever reap.
Unreaped == {"live", "zombie", "lost"}

TypeOK ==
    /\ debug \in BOOLEAN /\ persist \in BOOLEAN
    /\ loop \in {"running", "quit", "exited"} /\ signalled \in BOOLEAN
    /\ state \in {"init", "starting", "started", "stopped"}
    /\ timers \subseteq {"connect", "quit", "fail_stop"}
    /\ pid \in Child \cup {0}
    /\ tun_name \in Tun \cup {NoTun}
    /\ disconnect_requested \in BOOLEAN
    /\ quit_pending \in BOOLEAN
    /\ kill_timeout \in BOOLEAN
    /\ child \in [Child -> Unreaped \cup {"none", "reaped", "gone"}]
    /\ tunOf \in [Child -> Tun \cup {NoTun}]
    /\ helper \in [Child -> {"none", "sent", "done"}]
    /\ lock \in Child \cup {NoFile, Stale, Held}
    /\ persistent \subseteq Tun
    /\ attached \in [Tun -> Child \cup {Nobody, Self, Other}]
    /\ assumed \subseteq Tun
    /\ asked \subseteq Child /\ killed \subseteq Child /\ told \subseteq Child

\* main() up to g_main_loop_run; a lock file and TUN devices of other
\* processes may already be there.
Init ==
    /\ debug \in BOOLEAN /\ persist \in BOOLEAN
    /\ loop = "running" /\ signalled = FALSE
    /\ state = "init" /\ timers = {}
    /\ pid = 0 /\ tun_name = NoTun
    /\ disconnect_requested = FALSE /\ quit_pending = FALSE
    /\ kill_timeout = FALSE
    /\ child = [c \in Child |-> "none"]
    /\ tunOf = [c \in Child |-> NoTun]
    /\ helper = [c \in Child |-> "none"]
    /\ lock \in {NoFile, Stale, Held}
    /\ persistent = {} /\ attached \in [Tun -> {Nobody, Other}]
    /\ assumed = {}
    /\ asked = {} /\ killed = {} /\ told = {}

Running == loop = "running"
Active == state \in {"starting", "started"}

-----------------------------------------------------------------------------
(* Stopping: what libnm does on Disconnect, and the plugin's part in it.   *)

\* Faulty variants of real_disconnect, to show that a check can fail: no test
\* of priv->pid; disconnect_requested not set; no SIGKILL timer.
real_disconnect_untested ==
    /\ disconnect_requested' = TRUE
    /\ asked' = asked \cup {pid}
    /\ kill_timeout' = TRUE
real_disconnect_unmarked ==
    /\ asked' = asked \cup (IF pid # 0 THEN {pid} ELSE {})
    /\ kill_timeout' = (kill_timeout \/ pid # 0)
    /\ UNCHANGED disconnect_requested
real_disconnect_patient ==
    /\ asked' = asked \cup (IF pid # 0 THEN {pid} ELSE {})
    /\ disconnect_requested' = (disconnect_requested \/ pid # 0)
    /\ UNCHANGED kill_timeout

\* SIGINT to the child's process group, and the 2 s SIGKILL timer.
real_disconnect ==
    IF pid # 0
    THEN /\ disconnect_requested' = TRUE
         /\ asked' = asked \cup {pid}
         /\ kill_timeout' = TRUE
    ELSE UNCHANGED killVars

\* Faulty variant: quit although the child still runs.
quit_or_defer_hasty(p) == loop' = "quit" /\ UNCHANGED quit_pending

\* The "quit" handler for a plugin whose child is p: wait for it, or leave
\* the main loop.  quit_mainloop adds the call it makes to real_disconnect.
quit_or_defer(p) ==
    IF p # 0
    THEN quit_pending' = TRUE /\ UNCHANGED loop
    ELSE loop' = "quit" /\ UNCHANGED quit_pending

quit_mainloop ==
    /\ quit_or_defer(pid)
    /\ IF pid # 0 /\ ~disconnect_requested
       THEN real_disconnect
       ELSE UNCHANGED killVars

\* libnm: entering STOPPED emits "quit" at once, or in debug mode after 180 s.
\* With --persist nothing is connected to "quit".
enter_stopped(p, kept) ==
    /\ state' = "stopped"
    /\ timers' = IF debug THEN kept \cup {"quit"} ELSE kept
    /\ IF debug \/ persist
       THEN UNCHANGED <<loop, quit_pending>>
       ELSE quit_or_defer(p)

\* libnm: nm_vpn_service_plugin_disconnect.  STOPPING clears every timer.
plugin_disconnect ==
    IF Active
    THEN real_disconnect /\ enter_stopped(pid, {})
    ELSE UNCHANGED <<killVars, libnmVars, loop, quit_pending>>

-----------------------------------------------------------------------------
(* TUN devices and the lock file.                                          *)

\* TUNSETIFF opens a device nobody has open, creating it if need be.
FreeTun == {n \in Tun : attached[n] = Nobody}

\* The name create_persistent_tundev settles on: the profile's interface
\* name, or the first vpnN that TUNSETIFF accepts.  Empty if there is none.
TunFor(want) ==
    {n \in FreeTun : IF want = NoTun THEN \A m \in FreeTun : n <= m
                                     ELSE n = want}

\* The names a launch may get; with no NM_OPENCONNECT_USER account there is
\* no device and no error.
Created(want) ==
    TunFor(want) \cup (IF "no_user" \in Faults THEN {NoTun} ELSE {})

\* destroy_persistent_tundev on a set of devices: a device somebody has open
\* cannot be had, and each system call may fail; the caller is never told.
destroy_persistent_tundev(n, before) ==
    \/ /\ n \in FreeTun
       /\ persistent' = before \ {n}
    \/ /\ n \notin FreeTun \/ "tun_destroy" \in Faults
       /\ persistent' = before

\* NetworkManager has a "tun" connection, not a VPN, on device n.
active_connection_uses_tun(n) == n \in assumed

\* deactivate_assumed_tun_connection: best effort, over D-Bus; any of its
\* calls may fail or time out.
deactivate_assumed_tun_connection(n) ==
    \/ active_connection_uses_tun(n) /\ assumed' = assumed \ {n}
    \/ UNCHANGED assumed

\* prepare_gpclient_lock: kill(pid, 0) succeeds for a zombie too.
LockBusy ==
    \/ lock = Held
    \/ lock \in Child /\ child[lock] \in Unreaped
LockRefused == LockBusy \/ (lock # NoFile /\ "unlink" \in Faults)

-----------------------------------------------------------------------------
(* Connect.                                                                *)

\* libnm accepts Connect only in INIT and STOPPED.
ConnectAccepted ==
    /\ Running
    /\ state \in {"init", "stopped"}
    /\ \/ "connect_early" \in Faults
       \/ \A c \in Child : child[c] \notin {"live", "zombie"}

\* libnm: STARTING clears the quit timer, then an error schedules fail_stop
\* and success starts the connect timer.
connect_failed ==
    /\ state' = "starting"
    /\ timers' = (timers \ {"quit"}) \cup {"fail_stop"}
    /\ UNCHANGED <<optVars, loopVars, pid, killVars, quit_pending, tunOf,
                   helper, assumed, killed, told>>

connect_succeeded ==
    /\ state' = "starting"
    /\ timers' = (timers \ {"quit", "fail_stop"}) \cup {"connect"}
    /\ UNCHANGED <<optVars, loopVars, quit_pending, helper, assumed, killed,
                   told>>

\* The next process the kernel creates; pids are handed out in order.
Fresh(c) == child[c] = "none" /\ \A d \in Child : d < c => child[d] # "none"

\* Secret flags, properties, version, gateway or cookie are not accepted.
ConnectInvalid ==
    /\ ConnectAccepted
    /\ connect_failed
    /\ UNCHANGED <<tun_name, child, lock, persistent, attached>>

\* No TUN device: /dev/net/tun cannot be opened, or TUNSETIFF fails.
ConnectNoTun(want) ==
    /\ ConnectAccepted
    /\ TunFor(want) = {} \/ "tun_open" \in Faults
    /\ tun_name' = NoTun
    /\ connect_failed
    /\ UNCHANGED <<child, lock, persistent, attached>>

\* TUNSETOWNER or TUNSETPERSIST fails: the descriptor is not closed, so the
\* device stays open in this process.
ConnectTunHalfMade(want) ==
    /\ ConnectAccepted
    /\ "tun_setup" \in Faults
    /\ \E n \in TunFor(want) : attached' = [attached EXCEPT ![n] = Self]
    /\ tun_name' = NoTun
    /\ connect_failed
    /\ UNCHANGED <<child, lock, persistent>>

\* Faulty variant: the new TUN device is left behind.
ConnectLocked_untidy(want) ==
    /\ ConnectAccepted
    /\ LockRefused
    /\ \E n \in Created(want) :
          persistent' = persistent \cup (IF n = NoTun THEN {} ELSE {n})
    /\ tun_name' = NoTun
    /\ connect_failed
    /\ UNCHANGED <<child, lock, attached>>

\* The lock file is a live process's: the new TUN device goes again.
ConnectLocked(want) ==
    /\ ConnectAccepted
    /\ LockRefused
    /\ \E n \in Created(want) :
          IF n = NoTun
          THEN UNCHANGED persistent
          ELSE destroy_persistent_tundev(n, persistent \cup {n})
    /\ tun_name' = NoTun
    /\ connect_failed
    /\ UNCHANGED <<child, lock, attached>>

\* The part of a launch after the lock check that its three outcomes share.
tun_handed_over(n) ==
    /\ ~LockBusy
    /\ tun_name' = n
    /\ persistent' = persistent \cup (IF n = NoTun THEN {} ELSE {n})
    /\ UNCHANGED attached

\* g_spawn_async_with_pipes fails.
ConnectSpawnFails(want) ==
    /\ ConnectAccepted
    /\ "spawn" \in Faults
    /\ \E n \in Created(want) : tun_handed_over(n)
    /\ lock' = NoFile
    /\ connect_failed
    /\ UNCHANGED child

\* gpclient exits before it has read the cookie (EPIPE needs a pipe without
\* a reader), perhaps after it wrote its lock file.
ConnectStdinFails(want) ==
    /\ ConnectAccepted
    /\ "stdin" \in Faults
    /\ \E n \in Created(want) : tun_handed_over(n)
    /\ \E c \in Child :
          /\ Fresh(c)
          /\ child' = [child EXCEPT ![c] = "lost"]
          /\ lock' \in {NoFile, c}
    /\ connect_failed

ConnectLaunched(want) ==
    /\ ConnectAccepted
    /\ \E n \in Created(want), c \in Child :
          /\ Fresh(c)
          /\ tun_handed_over(n)
          /\ child' = [child EXCEPT ![c] = "live"]
          /\ tunOf' = [tunOf EXCEPT ![c] = n]
          /\ pid' = c
    /\ disconnect_requested' = FALSE
    /\ lock' = NoFile
    /\ connect_succeeded
    /\ UNCHANGED <<kill_timeout, asked>>

\* real_connect and the start of the gpclient binary, by outcome.
real_connect(want) ==
    \/ ConnectInvalid
    \/ ConnectNoTun(want)
    \/ ConnectTunHalfMade(want)
    \/ ConnectLocked(want)
    \/ ConnectSpawnFails(want)
    \/ ConnectStdinFails(want)
    \/ ConnectLaunched(want)

-----------------------------------------------------------------------------
(* The other callbacks of the main loop.                                   *)

\* Faulty variant: the clean-up is done although a gpclient runs.
real_need_secrets_blind(want) ==
    /\ Running
    /\ deactivate_assumed_tun_connection(IF want = NoTun THEN 0 ELSE want)
    /\ UNCHANGED <<optVars, loopVars, libnmVars, pid, tun_name, killVars,
                   quit_pending, procVars, lock, persistent, attached, killed,
                   told>>

\* NeedSecrets for a profile whose interface name is want.
real_need_secrets(want) ==
    /\ Running
    /\ pid = 0
    /\ deactivate_assumed_tun_connection(IF want = NoTun THEN 0 ELSE want)
    /\ UNCHANGED <<optVars, loopVars, libnmVars, pid, tun_name, killVars,
                   quit_pending, procVars, lock, persistent, attached, killed,
                   told>>

\* NetworkManager calls Disconnect, or NetworkManager vanishes from the bus.
Disconnect ==
    /\ Running
    /\ plugin_disconnect
    /\ UNCHANGED <<optVars, signalled, pid, tun_name, procVars, lock, tunVars,
                   killed, told>>

\* libnm: no configuration within 60 s of a successful Connect.
ConnectTimerExpired ==
    /\ Running
    /\ "connect" \in timers
    /\ plugin_disconnect
    /\ UNCHANGED <<optVars, signalled, pid, tun_name, procVars, lock, tunVars,
                   killed, told>>

\* libnm: the idle handler that follows a failed Connect.
FailStop ==
    /\ Running
    /\ "fail_stop" \in timers
    /\ state' = "stopped"
    /\ timers' = (timers \ {"fail_stop"}) \cup (IF debug THEN {"quit"} ELSE {})
    /\ IF debug \/ persist
       THEN UNCHANGED <<loop, quit_pending, killVars>>
       ELSE quit_mainloop
    /\ UNCHANGED <<optVars, signalled, pid, tun_name, procVars, lock, tunVars,
                   killed, told>>

\* libnm: 180 s in STOPPED with no new Connect (debug mode).
QuitTimerExpired ==
    /\ Running
    /\ "quit" \in timers
    /\ timers' = timers \ {"quit"}
    /\ IF persist THEN UNCHANGED <<loop, quit_pending, killVars>>
                  ELSE quit_mainloop
    /\ UNCHANGED <<optVars, signalled, state, pid, tun_name, procVars, lock,
                   tunVars, killed, told>>

\* libnm: the helper's configuration is complete; STARTED whatever the state.
HelperConfig(c) ==
    /\ Running
    /\ helper[c] = "sent"
    /\ helper' = [helper EXCEPT ![c] = "done"]
    /\ state' = "started"
    /\ timers' = IF state = "started" THEN timers ELSE {}
    /\ UNCHANGED <<optVars, loopVars, pid, tun_name, killVars, quit_pending,
                   child, tunOf, lock, tunVars, killed, told>>

\* libnm: the helper calls SetFailure; the Failure signal, then disconnect.
HelperFailure(c) ==
    /\ Running
    /\ helper[c] = "sent"
    /\ helper' = [helper EXCEPT ![c] = "done"]
    /\ plugin_disconnect
    /\ UNCHANGED <<optVars, signalled, pid, tun_name, child, tunOf, lock,
                   tunVars, killed, told>>

\* The 2 s timer: SIGKILL to whatever child is current when it fires.
ensure_killed ==
    /\ Running
    /\ kill_timeout
    /\ kill_timeout' = FALSE
    /\ killed' = killed \cup (IF pid # 0 THEN {pid} ELSE {})
    /\ UNCHANGED <<optVars, loopVars, libnmVars, pid, tun_name,
                   disconnect_requested, asked, quit_pending, procVars, lock,
                   tunVars, told>>

\* The TUN part of the child watch.
release_tun ==
    IF tun_name = NoTun
    THEN UNCHANGED <<tun_name, persistent, assumed>>
    ELSE /\ deactivate_assumed_tun_connection(tun_name)
         /\ destroy_persistent_tundev(tun_name, persistent)
         /\ tun_name' = NoTun

\* Faulty variants: the pid is kept; the SIGKILL timer is not cancelled.
forget_child_kept ==
    kill_timeout' = FALSE /\ disconnect_requested' = FALSE /\ UNCHANGED pid
forget_child_armed ==
    pid' = 0 /\ disconnect_requested' = FALSE /\ UNCHANGED kill_timeout

\* What the child watch resets, whichever child it is called for.
forget_child ==
    kill_timeout' = FALSE /\ pid' = 0 /\ disconnect_requested' = FALSE

\* Faulty variant: the deferred quit is forgotten.
requested_end_stays == UNCHANGED <<loop, libnmVars, quit_pending, told>>

\* A requested disconnect is complete: normal, whatever the exit status.
requested_end ==
    /\ loop' = IF quit_pending THEN "quit" ELSE loop
    /\ UNCHANGED <<libnmVars, quit_pending, told>>

\* An unrequested end: Failure for exit status 2 and 1, then in each case
\* nm_vpn_service_plugin_disconnect, with no child by now.
unexpected_end(c, status) ==
    /\ told' = IF status # 0 \/ Active THEN told \cup {c} ELSE told
    /\ IF Active THEN enter_stopped(0, {})
                 ELSE UNCHANGED <<libnmVars, loop, quit_pending>>

\* The child watch of c fires, with exit status 2, 1 or (0) anything else.
openconnect_watch_cb(c, status) ==
    /\ Running
    /\ child[c] = "zombie"
    /\ child' = [child EXCEPT ![c] = "reaped"]
    /\ forget_child
    /\ release_tun
    /\ IF disconnect_requested THEN requested_end ELSE unexpected_end(c, status)
    /\ UNCHANGED <<optVars, signalled, asked, tunOf, helper, lock, attached,
                   killed>>

\* SIGTERM or SIGINT to the service: the main loop ends, whatever is running.
signal_handler ==
    /\ Running
    /\ "sigterm" \in Faults
    /\ loop' = "quit"
    /\ signalled' = TRUE
    /\ UNCHANGED <<optVars, libnmVars, pid, tun_name, killVars, quit_pending,
                   procVars, lock, tunVars, killed, told>>

\* main() after the loop: the plugin is disposed of (libnm may disconnect a
\* started plugin then) and the process exits: the kernel closes its
\* descriptors and init adopts and reaps its children.
MainReturns ==
    /\ loop = "quit"
    /\ loop' = "exited"
    /\ \/ UNCHANGED asked
       \/ /\ state = "started" /\ pid # 0
          /\ asked' = asked \cup {pid}
    /\ attached' = [n \in Tun |->
                      IF attached[n] = Self THEN Nobody ELSE attached[n]]
    /\ child' = [c \in Child |->
                   IF child[c] \in {"zombie", "lost"} THEN "gone" ELSE child[c]]
    /\ UNCHANGED <<optVars, signalled, libnmVars, pid, tun_name,
                   disconnect_requested, kill_timeout, quit_pending, tunOf,
                   helper, lock, persistent, assumed, killed, told>>

-----------------------------------------------------------------------------
(* The environment: gpclient (external), its helper, NetworkManager.       *)

envUnchanged == UNCHANGED <<optVars, loopVars, libnmVars, pid, tun_name,
                            killVars, quit_pending, killed, told>>

\* gpclient writes its pid to --lock-file.
TakeLock(c) ==
    /\ child[c] = "live"
    /\ lock = NoFile
    /\ lock' = c
    /\ envUnchanged /\ UNCHANGED <<procVars, tunVars>>

\* gpclient opens the device named by --interface.
AttachTun(c) ==
    /\ child[c] = "live"
    /\ tunOf[c] \in FreeTun
    /\ attached' = [attached EXCEPT ![tunOf[c]] = c]
    /\ envUnchanged /\ UNCHANGED <<procVars, lock, persistent, assumed>>

\* gpclient runs --script, and the helper's D-Bus calls are on their way.
RunHelper(c) ==
    /\ child[c] = "live"
    /\ helper[c] = "none"
    /\ helper' = [helper EXCEPT ![c] = "sent"]
    /\ envUnchanged /\ UNCHANGED <<child, tunOf, lock, tunVars>>

\* gpclient ends: by itself, on SIGINT, or killed.  The kernel closes its
\* descriptors; a gpclient that ends in good order removes its lock file.
ChildExit(c) ==
    /\ child[c] = "live"
    /\ child' = [child EXCEPT ![c] = IF loop = "exited" THEN "gone" ELSE "zombie"]
    /\ attached' = [n \in Tun |-> IF attached[n] = c THEN Nobody ELSE attached[n]]
    /\ lock' \in {lock, IF lock = c THEN NoFile ELSE lock}
    /\ envUnchanged /\ UNCHANGED <<tunOf, helper, persistent, assumed>>

\* NetworkManager makes an in-memory "tun" connection for a device it finds.
AssumeTun(n) ==
    /\ n \in persistent
    /\ assumed' = assumed \cup {n}
    /\ envUnchanged /\ UNCHANGED <<procVars, lock, persistent, attached>>

\* NetworkManager drops the connection of a device that is gone.
ForgetTun(n) ==
    /\ n \in assumed \ persistent
    /\ assumed' = assumed \ {n}
    /\ envUnchanged /\ UNCHANGED <<procVars, lock, persistent, attached>>

\* The process outside the model whose pid the lock file holds ends.
HolderExits ==
    /\ lock = Held
    /\ lock' = Stale
    /\ envUnchanged /\ UNCHANGED <<procVars, tunVars>>

Next ==
    \/ \E want \in Tun \cup {NoTun} : real_connect(want) \/ real_need_secrets(want)
    \/ Disconnect \/ ConnectTimerExpired \/ FailStop \/ QuitTimerExpired
    \/ ensure_killed \/ signal_handler \/ MainReturns \/ HolderExits
    \/ \E c \in Child :
          \/ \E status \in 0 .. 2 : openconnect_watch_cb(c, status)
          \/ HelperConfig(c) \/ HelperFailure(c)
          \/ TakeLock(c) \/ AttachTun(c) \/ RunHelper(c) \/ ChildExit(c)
    \/ \E n \in Tun : AssumeTun(n) \/ ForgetTun(n)

Spec == Init /\ [][Next]_vars

\* The main loop dispatches every ready source; timers expire; a process that
\* was sent SIGKILL dies.  Nothing is assumed of NetworkManager, the helper,
\* or of a gpclient that was sent SIGINT only.
Fairness ==
    /\ WF_vars(ConnectTimerExpired)
    /\ WF_vars(FailStop)
    /\ WF_vars(ensure_killed)
    /\ WF_vars(MainReturns)
    /\ \A c \in Child :
          /\ WF_vars(\E status \in 0 .. 2 : openconnect_watch_cb(c, status))
          /\ WF_vars(c \in killed /\ ChildExit(c))

FairSpec == Spec /\ Fairness

-----------------------------------------------------------------------------
(* Properties.                                                             *)

\* While the loop runs, the pid the plugin signals is a child of its own that
\* it has not reaped: kill(-pid) and kill(pid) in real_disconnect and
\* ensure_killed can never hit a process that got the number later.
SignalsOwnChild ==
    Running /\ pid # 0 => child[pid] \in {"live", "zombie"}

\* Unless a signal stopped it, the main loop ends only when every gpclient it
\* watches has been reaped ("Keep the child watch and kill timeout alive until
\* gpclient exits").
QuitWaitsForChild ==
    ~Running /\ ~signalled => \A c \in Child : child[c] \notin {"live", "zombie"}

\* SIGKILL is an escalation: it goes only to a gpclient that was sent SIGINT
\* before; a timer armed for one child never hits the next.
KillOnlyAsked == killed \subseteq asked

\* A reaped gpclient was either asked to stop, and its end is kept quiet
\* whatever its exit status, or it ended by itself, and NetworkManager was
\* told (Failure, or the change to STOPPED): never both, never neither.
ReportedIffUnexpected ==
    \A c \in Child : child[c] = "reaped" => ((c \in asked) # (c \in told))

\* Every persistent TUN device this service made is the one it will destroy
\* when its current gpclient is reaped; with no gpclient there is none.
TunAccounted ==
    persistent \subseteq (IF pid = 0 THEN {} ELSE {tun_name})

\* The plugin drops its pid only for a child that has just been reaped: no
\* callback of one gpclient makes it lose track of another.
ForgetsOnlyReaped ==
    [][pid # 0 /\ pid' # pid => child'[pid] = "reaped"]_vars

\* The service never deactivates the connection of a device that one of its
\* live gpclient processes has open.
NeverCutsLiveVpn ==
    [][Running /\ assumed' # assumed =>
         \A n \in assumed \ assumed' : n \in persistent => attached[n] \notin Child]_vars

\* The abstract service's phase and ended processes, from priv->pid, the
\* disconnect_requested flag, the main loop and the child watches that fired.
SessionPhase ==
    CASE loop = "exited" -> "gone"
      [] loop = "quit" /\ signalled -> "interrupted"
      [] loop = "quit" /\ ~signalled -> "leaving"
      [] Running /\ pid = 0 -> "idle"
      [] Running /\ pid # 0 /\ disconnect_requested -> "stopping"
      [] OTHER -> "running"
SessionEnded == {c \in Child : child[c] = "reaped"}

Session == INSTANCE VpnSession WITH
    phase <- SessionPhase, current <- pid, requested <- asked,
    killed <- killed, reported <- told, ended <- SessionEnded

\* With its timers, flags, deferred quit and libnm's states the service does
\* only what VpnSession promises: one gpclient at a time, ended quietly if it
\* was asked to, else reported; SIGKILL only while stopping; and it leaves of
\* its own accord only when none runs.
ImplementsSession == Session!Spec

\* A deferred quit happens: the service that waits for its gpclient to end
\* does end, unless NetworkManager connects again before that.
Overlap == \E c, d \in Child : c # d /\ {child[c], child[d]} \subseteq {"live", "zombie"}
QuitPendingQuits == (quit_pending /\ disconnect_requested) ~> (~Running \/ Overlap)

\* A requested disconnect gets rid of the gpclient, even one that ignores
\* SIGINT.
DisconnectEnds == disconnect_requested ~> (pid = 0 \/ ~Running)

\* A launch does not hang: a gpclient that never gets as far as its
\* configuration is given up, and is gone in the end.
StuckLaunchEnds ==
    (Running /\ pid # 0 /\ state = "starting")
       ~> (~Running \/ pid = 0 \/ state = "started")
=============================================================================
