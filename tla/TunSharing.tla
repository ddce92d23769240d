------------------------------ MODULE TunSharing ------------------------------
(***************************************************************************)
(* Several nm-gpclient-service processes on one host: NetworkManager starts *)
(* one per active VPN (supports-multiple-connections=true).  They share     *)
(* the lock file, the kernel's TUN devices and NetworkManager's assumed     *)
(* connections, so here a callback that touches these takes one action per  *)
(* access, where GpclientService, with a single service, needs only one.    *)
(*                                                                          *)
(* A service that has quit and the process started for the next activation  *)
(* are the same "idle" element of Service.  The failures of a launch that   *)
(* concern one service alone are in GpclientService.                        *)
(***************************************************************************)
EXTENDS Integers

CONSTANTS
    Service,    \* service processes, one per VPN
    Child,      \* gpclient processes, by pid
    TunCount,   \* interface names vpn0 .. vpn(TunCount-1); 256 in the code
    Faults      \* what may go wrong, a subset of AllFaults

\* "sigterm", "crash": a service is ended by a signal; "litter": a gpclient
\* ends without removing its lock file; "spawn": gpclient cannot be started.
AllFaults == {"sigterm", "crash", "litter", "spawn"}

Tun == 0 .. (TunCount - 1)
NoTun == -1         \* priv->tun_name == NULL
Nobody == 0         \* who has a TUN device open: nobody, a Service or a Child
NoFile == 0         \* the lock file is absent, or it holds a Child's pid, or
Stale == -1         \*   the pid of a process that died before the model starts

ASSUME SharingAssumption ==
    /\ Child \subseteq Nat \ {0}
    /\ TunCount \in Nat \ {0}
    /\ Faults \subseteq AllFaults
    /\ Service \cap Int = {}

VARIABLES
    pc,         \* where each service is
    tun,        \* its priv->tun_name
    pid,        \* its priv->pid
    child,      \* the kernel's view of each gpclient
    tunOf,      \* the --interface argument of each living gpclient
    lock,       \* the lock file
    blank,      \* it is there, and its gpclient has not written the pid yet
    seen,       \* the pid that a service has read from it
    persistent, \* TUN devices that stay when they are closed
    attached,   \* who has each device open
    assumed,    \* devices NetworkManager has a "tun" connection for
    \* history: living gpclients that took the lock file; devices of sessions whose
    \* service died or could not spawn; whether a gpclient was ever taking the
    \* lock while a service had read the file and was not yet done with it
    holders, abandoned, overlapped

tunVars == <<persistent, attached, assumed>>
procVars == <<child, tunOf>>
lockVars == <<lock, blank, seen, holders, overlapped>>
vars == <<pc, tun, pid, child, tunOf, lock, blank, seen, persistent, attached,
          assumed, holders, abandoned, overlapped>>

\* idle: in the main loop, no gpclient.  Connect passes through opened (the
\* device is open), made (it is persistent), found (there is a lock file),
\* read (it holds the pid seen), stale (it is to be removed), clear (it is out
\* of the way), up (gpclient runs).  ending and refused: the device is to be
\* destroyed; closing: it is open.
Places == {"idle", "opened", "made", "found", "read", "stale", "clear", "up",
           "ending", "refused", "closing"}

TypeOK ==
    /\ pc \in [Service -> Places]
    /\ tun \in [Service -> Tun \cup {NoTun}]
    /\ pid \in [Service -> Child \cup {0}]
    /\ child \in [Child -> {"none", "live", "zombie", "gone"}]
    /\ tunOf \in [Child -> Tun \cup {NoTun}]
    /\ lock \in Child \cup {NoFile, Stale}
    /\ blank \in BOOLEAN
    /\ seen \in [Service -> Child \cup {NoFile, Stale}]
    /\ persistent \subseteq Tun
    /\ attached \in [Tun -> Service \cup Child \cup {Nobody}]
    /\ assumed \subseteq Tun
    /\ holders \subseteq Child
    /\ abandoned \subseteq Tun
    /\ overlapped \in BOOLEAN

Init ==
    /\ pc = [s \in Service |-> "idle"]
    /\ tun = [s \in Service |-> NoTun]
    /\ pid = [s \in Service |-> 0]
    /\ child = [c \in Child |-> "none"]
    /\ tunOf = [c \in Child |-> NoTun]
    /\ lock \in (IF "litter" \in Faults THEN {NoFile, Stale} ELSE {NoFile})
    /\ persistent = {}
    /\ attached = [n \in Tun |-> Nobody]
    /\ assumed = {}
    /\ blank = FALSE
    /\ seen = [s \in Service |-> NoFile]
    /\ holders = {} /\ abandoned = {}
    /\ overlapped = FALSE

FreeTun == {n \in Tun : attached[n] = Nobody}

\* kill(pid, 0): a process that has not been reaped.
pid_is_running(c) == c \in Child /\ child[c] \in {"live", "zombie"}

Goto(s, place) == pc' = [pc EXCEPT ![s] = place]

-----------------------------------------------------------------------------
(* Connect, from the device to the spawned gpclient.                       *)

\* Faulty variant: the search for a name goes one past the last.
OpenTun_past(s, want) ==
    /\ pc[s] = "idle"
    /\ \E n \in FreeTun \cup {TunCount} :
          /\ IF want = NoTun THEN \A m \in FreeTun : n <= m ELSE n = want
          /\ tun' = [tun EXCEPT ![s] = n]
    /\ Goto(s, "opened")
    /\ UNCHANGED <<pid, procVars, lockVars, tunVars, abandoned>>

\* create_persistent_tundev, TUNSETIFF: the profile's interface name, or the
\* first vpnN nobody has open.  A persistent device that another service has
\* just made and closed is opened just the same.
OpenTun(s, want) ==
    /\ pc[s] = "idle"
    /\ \E n \in FreeTun :
          /\ IF want = NoTun THEN \A m \in FreeTun : n <= m ELSE n = want
          /\ tun' = [tun EXCEPT ![s] = n]
          /\ attached' = [attached EXCEPT ![n] = s]
    /\ Goto(s, "opened")
    /\ UNCHANGED <<pid, procVars, lockVars, persistent, assumed, abandoned>>

\* TUNSETOWNER, TUNSETPERSIST and close.
PersistTun(s) ==
    /\ pc[s] = "opened"
    /\ persistent' = persistent \cup {tun[s]}
    /\ attached' = [attached EXCEPT ![tun[s]] = Nobody]
    /\ Goto(s, "made")
    /\ UNCHANGED <<tun, pid, procVars, lockVars, assumed, abandoned>>

\* prepare_gpclient_lock, one action per access.  g_file_test: is it there?
FindLock(s) ==
    /\ pc[s] = "made"
    /\ Goto(s, IF lock = NoFile THEN "clear" ELSE "found")
    /\ UNCHANGED <<tun, pid, procVars, lockVars, tunVars, abandoned>>

\* read_gpclient_lock_pid: a file that has gone by now, or that holds no pid
\* yet, is as good as stale.
ReadLock(s) ==
    /\ pc[s] = "found"
    /\ IF lock = NoFile \/ blank
       THEN Goto(s, "stale") /\ UNCHANGED seen
       ELSE Goto(s, "read") /\ seen' = [seen EXCEPT ![s] = lock]
    /\ overlapped' = (overlapped \/ (blank /\ pid_is_running(lock)))
    /\ UNCHANGED <<tun, pid, procVars, lock, blank, holders, tunVars, abandoned>>

\* Faulty variant: any lock file is taken for a stale one.
TestPid_trusting(s) ==
    /\ pc[s] = "read"
    /\ Goto(s, "stale")
    /\ seen' = [seen EXCEPT ![s] = NoFile]
    /\ UNCHANGED <<tun, pid, procVars, lock, blank, holders, overlapped, tunVars,
                   abandoned>>

\* pid_is_running, on the pid that was read: the file may hold another one.
TestPid(s) ==
    /\ pc[s] = "read"
    /\ Goto(s, IF pid_is_running(seen[s]) THEN "refused" ELSE "stale")
    /\ seen' = [seen EXCEPT ![s] = NoFile]
    /\ UNCHANGED <<tun, pid, procVars, lock, blank, holders, overlapped, tunVars,
                   abandoned>>

\* unlink, whatever the file holds by now; ENOENT is no error.
UnlinkLock(s) ==
    /\ pc[s] = "stale"
    /\ lock' = NoFile /\ blank' = FALSE
    /\ Goto(s, "clear")
    /\ UNCHANGED <<tun, pid, procVars, seen, holders, overlapped, tunVars, abandoned>>

\* g_spawn_async_with_pipes; pids are handed out in order.
Spawn(s, c) ==
    /\ pc[s] = "clear"
    /\ child[c] = "none" /\ \A d \in Child : d < c => child[d] # "none"
    /\ child' = [child EXCEPT ![c] = "live"]
    /\ tunOf' = [tunOf EXCEPT ![c] = tun[s]]
    /\ pid' = [pid EXCEPT ![s] = c]
    /\ Goto(s, "up")
    /\ UNCHANGED <<tun, lockVars, tunVars, abandoned>>

\* It fails: libnm quits the service, and the device is left behind.
SpawnFails(s) ==
    /\ pc[s] = "clear"
    /\ "spawn" \in Faults
    /\ abandoned' = abandoned \cup {tun[s]}
    /\ tun' = [tun EXCEPT ![s] = NoTun]
    /\ Goto(s, "idle")
    /\ UNCHANGED <<pid, procVars, lockVars, tunVars>>

-----------------------------------------------------------------------------
(* The end of a session, and NeedSecrets.                                  *)

\* deactivate_assumed_tun_connection: a "tun" connection on a device that
\* belongs to the service's user, as only create_persistent_tundev's do; best
\* effort, over D-Bus.
deactivate_assumed_tun_connection(n) ==
    \/ n \in assumed \cap persistent /\ assumed' = assumed \ {n}
    \/ UNCHANGED assumed

\* The child watch, up to the clean-up of the device.
openconnect_watch_cb(s) ==
    /\ pc[s] = "up"
    /\ child[pid[s]] = "zombie"
    /\ child' = [child EXCEPT ![pid[s]] = "gone"]
    /\ pid' = [pid EXCEPT ![s] = 0]
    /\ deactivate_assumed_tun_connection(tun[s])
    /\ Goto(s, "ending")
    /\ UNCHANGED <<tun, tunOf, lockVars, persistent, attached, abandoned>>

\* destroy_persistent_tundev, TUNSETIFF: nothing is destroyed if somebody has
\* the device open, and the service forgets it all the same.
OpenToDestroy(s) ==
    /\ pc[s] \in {"ending", "refused"}
    /\ IF tun[s] \in FreeTun
       THEN /\ attached' = [attached EXCEPT ![tun[s]] = s]
            /\ Goto(s, "closing")
            /\ UNCHANGED tun
       ELSE /\ tun' = [tun EXCEPT ![s] = NoTun]
            /\ Goto(s, "idle")
            /\ UNCHANGED attached
    /\ UNCHANGED <<pid, procVars, lockVars, persistent, assumed, abandoned>>

\* Faulty variant: the device is closed, but TUNSETPERSIST is not called.
DestroyTun_kept(s) ==
    /\ pc[s] = "closing"
    /\ attached' = [attached EXCEPT ![tun[s]] = Nobody]
    /\ tun' = [tun EXCEPT ![s] = NoTun]
    /\ Goto(s, "idle")
    /\ UNCHANGED <<pid, procVars, lockVars, persistent, assumed, abandoned>>

\* TUNSETPERSIST 0 and close.
DestroyTun(s) ==
    /\ pc[s] = "closing"
    /\ persistent' = persistent \ {tun[s]}
    /\ attached' = [attached EXCEPT ![tun[s]] = Nobody]
    /\ tun' = [tun EXCEPT ![s] = NoTun]
    /\ Goto(s, "idle")
    /\ UNCHANGED <<pid, procVars, lockVars, assumed, abandoned>>

\* NeedSecrets, before Connect: the service has no gpclient of its own, and
\* knows nothing of the others'.
real_need_secrets(s, want) ==
    /\ pc[s] = "idle"
    /\ deactivate_assumed_tun_connection(IF want = NoTun THEN 0 ELSE want)
    /\ UNCHANGED <<pc, tun, pid, procVars, lockVars, persistent, attached,
                   abandoned>>

\* A service dies, of SIGTERM while a gpclient runs or of SIGKILL anywhere:
\* its descriptors are closed and init adopts, and reaps, its child.  The
\* device stays, and so do gpclient and its lock file.
ServiceDies(s) ==
    /\ \/ "sigterm" \in Faults /\ pc[s] = "up"
       \/ "crash" \in Faults /\ pc[s] # "idle"
    /\ abandoned' = abandoned \cup {tun[s]}
    /\ child' = [c \in Child |->
                   IF c = pid[s] /\ child[c] = "zombie" THEN "gone" ELSE child[c]]
    /\ attached' = [n \in Tun |-> IF attached[n] = s THEN Nobody ELSE attached[n]]
    /\ tun' = [tun EXCEPT ![s] = NoTun]
    /\ pid' = [pid EXCEPT ![s] = 0]
    /\ seen' = [seen EXCEPT ![s] = NoFile]
    /\ Goto(s, "idle")
    /\ UNCHANGED <<tunOf, lock, blank, holders, overlapped, persistent, assumed>>

-----------------------------------------------------------------------------
(* gpclient and NetworkManager (external).                                 *)

\* gpclient creates the lock file, which must not be there, and then writes
\* its pid to it, unless somebody has removed the file in the meantime.
CreateLock(c) ==
    /\ child[c] = "live"
    /\ lock = NoFile
    /\ c \notin holders
    /\ lock' = c /\ blank' = TRUE
    /\ holders' = holders \cup {c}
    /\ overlapped' = (overlapped \/ \E s \in Service : pc[s] \in {"read", "stale"})
    /\ UNCHANGED <<pc, tun, pid, procVars, seen, tunVars, abandoned>>
WriteLock(c) ==
    /\ child[c] = "live"
    /\ lock = c /\ blank
    /\ blank' = FALSE
    /\ UNCHANGED <<pc, tun, pid, procVars, lock, seen, holders, overlapped, tunVars,
                   abandoned>>

\* gpclient opens the device named by --interface, or makes one of that name.
AttachTun(c) ==
    /\ child[c] = "live"
    /\ tunOf[c] \in FreeTun
    /\ attached' = [attached EXCEPT ![tunOf[c]] = c]
    /\ UNCHANGED <<pc, tun, pid, procVars, lockVars, persistent, assumed,
                   abandoned>>

\* gpclient ends, by itself or signalled.  In good order it removes the lock
\* file it wrote.
ChildExit(c) ==
    /\ child[c] = "live"
    /\ child' = [child EXCEPT ![c] =
                   IF \E s \in Service : pid[s] = c THEN "zombie" ELSE "gone"]
    /\ attached' = [n \in Tun |-> IF attached[n] = c THEN Nobody ELSE attached[n]]
    /\ \/ lock = c /\ lock' = NoFile /\ blank' = FALSE
       \/ (lock = c => "litter" \in Faults) /\ UNCHANGED <<lock, blank>>
    /\ tunOf' = [tunOf EXCEPT ![c] = NoTun]
    /\ holders' = holders \ {c}
    /\ UNCHANGED <<pc, tun, pid, seen, overlapped, persistent, assumed, abandoned>>

\* NetworkManager makes a connection for a device it finds, and drops it when
\* the device is gone.
AssumeTun(n) ==
    /\ n \in persistent \/ attached[n] # Nobody
    /\ assumed' = assumed \cup {n}
    /\ UNCHANGED <<pc, tun, pid, procVars, lockVars, persistent, attached,
                   abandoned>>
ForgetTun(n) ==
    /\ n \in assumed \ persistent /\ attached[n] = Nobody
    /\ assumed' = assumed \ {n}
    /\ UNCHANGED <<pc, tun, pid, procVars, lockVars, persistent, attached,
                   abandoned>>

Next ==
    \/ \E s \in Service :
          \/ \E want \in Tun \cup {NoTun} : OpenTun(s, want) \/ real_need_secrets(s, want)
          \/ PersistTun(s) \/ FindLock(s) \/ ReadLock(s) \/ TestPid(s) \/ UnlinkLock(s)
          \/ SpawnFails(s) \/ \E c \in Child : Spawn(s, c)
          \/ openconnect_watch_cb(s) \/ OpenToDestroy(s) \/ DestroyTun(s)
          \/ ServiceDies(s)
    \/ \E c \in Child : CreateLock(c) \/ WriteLock(c) \/ AttachTun(c) \/ ChildExit(c)
    \/ \E n \in Tun : AssumeTun(n) \/ ForgetTun(n)

Spec == Init /\ [][Next]_vars

-----------------------------------------------------------------------------
(* Properties.                                                             *)

\* Services that settle on the same name, find each other's device open, or
\* give up on a lock file still leave none behind: a persistent device is that
\* of a session, or of a service that died or could not start gpclient.
TunsAccounted == persistent \subseteq abandoned \cup {tun[s] : s \in Service}

\* "gpclient is already running with pid": at most one of the gpclients that
\* took the lock file is alive, however the services' looks at it interleave
\* with each other and with the ends of gpclients, crashes and lock files left
\* behind included.  It can fail only once a gpclient was taking the lock while
\* a service had read the file and was not yet done with it, for the unlink
\* does not look at the file again.
OneHolder == ~overlapped => \A c, d \in holders : c = d

\* "Other VPNs can remain active": no service deactivates the connection of a
\* device that a gpclient of another service has open.
OtherVpnsRemain ==
    [][\A n \in assumed \ assumed' : n \in persistent => attached[n] \notin Child]_vars
=============================================================================
