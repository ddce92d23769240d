--------------------------- MODULE TunSharingProofs ---------------------------
(***************************************************************************)
(* Proofs about TunSharing, for every number of services, gpclients and    *)
(* interface names, and every set of faults.                               *)
(***************************************************************************)
EXTENDS TunSharing, TLAPS

\* Where a service is, against the device and the gpclient it holds.
PlaceFits ==
    \A s \in Service :
        /\ pc[s] = "idle" <=> tun[s] = NoTun
        /\ pc[s] = "up" <=> pid[s] # 0
        /\ pid[s] # 0 => child[pid[s]] \in {"live", "zombie"}
        /\ pid[s] # 0 /\ child[pid[s]] = "live" => tunOf[pid[s]] = tun[s]

\* No gpclient is the child of two services.
OneParent == \A s, t \in Service : pid[s] # 0 /\ pid[s] = pid[t] => s = t

\* Who has a device open has a use for it: a service that makes or destroys
\* it, or the living gpclient that was given its name.
AttachFits ==
    \A n \in Tun :
        /\ attached[n] \in Service => tun[attached[n]] = n
        /\ attached[n] \in Service => pc[attached[n]] \in {"opened", "closing"}
        /\ attached[n] \in Child =>
              child[attached[n]] = "live" /\ tunOf[attached[n]] = n

\* A living gpclient is that of a session, or has been left by its service.
LaunchFits ==
    \A c \in Child :
        child[c] = "live" => tunOf[c] \in abandoned \/ \E s \in Service : pid[s] = c

\* As long as no gpclient was taking the lock behind a service's back, the file
\* is that of every living gpclient that took it, a service that has read it
\* still finds there what it read, and none is about to remove a living one's.
LockFits ==
    /\ \A c \in holders : child[c] = "live"
    /\ ~overlapped => \A c \in holders : lock = c
    /\ ~overlapped => \A s \in Service : pc[s] = "read" => lock \in {NoFile, seen[s]}
    /\ ~overlapped => \A s \in Service : pc[s] = "stale" => lock \notin holders

SharingInv ==
    TypeOK /\ PlaceFits /\ OneParent /\ AttachFits /\ LaunchFits /\ TunsAccounted /\ LockFits

\* Services and pids are never taken for each other in "attached".
LEMMA NoServiceIsPid == \A s \in Service : s \notin Child /\ s # 0
<1>1. \A s \in Service : s \notin Int
  BY SharingAssumption
<1>2. 0 \in Int /\ \A c \in Child : c \in Int
  BY SharingAssumption
<1> QED BY <1>1, <1>2, Zenon

\* Initially everything is free, but for a lock file left by a crash.
LEMMA InitSharingInv == Init => SharingInv
<1> SUFFICES ASSUME Init PROVE SharingInv
  OBVIOUS
<1> USE SharingAssumption DEF Init, Tun, NoTun, Nobody, NoFile, Stale
<1>1. TypeOK
  BY DEF TypeOK, Places
<1>2. PlaceFits /\ OneParent
  BY DEF PlaceFits, OneParent
<1>3. AttachFits
  <2>1. \A n \in Tun : attached[n] = 0 /\ 0 \notin Service /\ 0 \notin Child
    BY DEF AttachFits
  <2> QED BY <2>1 DEF AttachFits
<1>4. LaunchFits /\ TunsAccounted
  BY DEF LaunchFits, TunsAccounted
<1>5. LockFits
  BY DEF LockFits
<1> QED BY <1>1, <1>2, <1>3, <1>4, <1>5 DEF SharingInv

-----------------------------------------------------------------------------
(* One lemma for each action, one step for each part of the invariant.     *)

\* Connect, access by access; a refused or failed launch included.
LEMMA OpenTunInv ==
  ASSUME SharingInv, NEW s \in Service, NEW want \in Tun \cup {NoTun}, OpenTun(s, want)
  PROVE  SharingInv'
<1> USE SharingAssumption DEF SharingInv, Tun, NoTun, Nobody, NoFile, Stale, procVars, lockVars, tunVars, Goto, OpenTun, FreeTun
<1>1. TypeOK'
  BY DEF TypeOK, PlaceFits, Places
<1>2. PlaceFits' /\ OneParent'
  BY DEF TypeOK, PlaceFits, OneParent, Places
<1>3. AttachFits'
  <2> SUFFICES ASSUME NEW n \in Tun
               PROVE  /\ attached'[n] \in Service =>
                             tun'[attached'[n]] = n /\ pc'[attached'[n]] \in {"opened", "closing"}
                      /\ attached'[n] \in Child =>
                             child'[attached'[n]] = "live" /\ tunOf'[attached'[n]] = n
    BY DEF AttachFits
  <2>1. PICK m \in FreeTun : /\ tun' = [tun EXCEPT ![s] = m]
                            /\ attached' = [attached EXCEPT ![m] = s]
    OBVIOUS
  <2>2. s \notin Child /\ attached[n] # s
    <3>1. pc[s] = "idle"
      OBVIOUS
    <3> QED BY <3>1, NoServiceIsPid DEF AttachFits
  <2>3. CASE n = m
    BY <2>1, <2>2, <2>3 DEF TypeOK
  <2>4. CASE n # m
    <3>1. attached'[n] = attached[n]
      BY <2>1, <2>4 DEF TypeOK
    <3>2. attached[n] \in Service =>
             tun'[attached[n]] = tun[attached[n]] /\ pc'[attached[n]] = pc[attached[n]]
      BY <2>1, <2>2 DEF TypeOK
    <3> QED BY <3>1, <3>2 DEF AttachFits
  <2> QED BY <2>3, <2>4
<1>4. LaunchFits'
  BY DEF TypeOK, PlaceFits, OneParent, LaunchFits
<1>5. TunsAccounted'
  BY DEF TypeOK, PlaceFits, AttachFits, LaunchFits, TunsAccounted
<1>6. LockFits'
  BY DEF TypeOK, PlaceFits, LockFits
<1> QED BY <1>1, <1>2, <1>3, <1>4, <1>5, <1>6

LEMMA PersistTunInv ==
  ASSUME SharingInv, NEW s \in Service, PersistTun(s)
  PROVE  SharingInv'
<1> USE SharingAssumption DEF SharingInv, Tun, NoTun, Nobody, NoFile, Stale, procVars, lockVars, tunVars, Goto, PersistTun
<1>1. TypeOK'
  BY DEF TypeOK, PlaceFits, Places
<1>2. PlaceFits' /\ OneParent'
  BY DEF TypeOK, PlaceFits, OneParent, Places
<1>3. AttachFits'
  BY DEF TypeOK, PlaceFits, AttachFits, Places
<1>4. LaunchFits'
  BY DEF TypeOK, PlaceFits, OneParent, LaunchFits
<1>5. TunsAccounted'
  <2>1. tun[s] \in {tun[t] : t \in Service}
    OBVIOUS
  <2> QED BY <2>1 DEF TunsAccounted
<1>6. LockFits'
  BY DEF TypeOK, PlaceFits, LockFits
<1> QED BY <1>1, <1>2, <1>3, <1>4, <1>5, <1>6

LEMMA FindLockInv ==
  ASSUME SharingInv, NEW s \in Service, FindLock(s)
  PROVE  SharingInv'
<1> USE SharingAssumption DEF SharingInv, Tun, NoTun, Nobody, NoFile, Stale, procVars, lockVars, tunVars, Goto, FindLock
<1>1. TypeOK'
  BY DEF TypeOK, PlaceFits, Places
<1>2. PlaceFits' /\ OneParent'
  BY DEF TypeOK, PlaceFits, OneParent, Places
<1>3. AttachFits'
  BY DEF TypeOK, PlaceFits, AttachFits, Places
<1>4. LaunchFits'
  BY DEF TypeOK, PlaceFits, OneParent, LaunchFits
<1>5. TunsAccounted'
  BY DEF TypeOK, PlaceFits, AttachFits, LaunchFits, TunsAccounted
<1>6. LockFits'
  BY DEF TypeOK, PlaceFits, LockFits
<1> QED BY <1>1, <1>2, <1>3, <1>4, <1>5, <1>6

LEMMA ReadLockInv ==
  ASSUME SharingInv, NEW s \in Service, ReadLock(s)
  PROVE  SharingInv'
<1> USE SharingAssumption DEF SharingInv, Tun, NoTun, Nobody, NoFile, Stale, procVars, lockVars, tunVars, Goto, ReadLock, pid_is_running
<1>1. TypeOK'
  <2>1. overlapped' \in BOOLEAN
    OBVIOUS
  <2>2. seen' \in [Service -> Child \cup {0, -1}] /\ pc' \in [Service -> Places]
    <3>1. CASE lock = 0 \/ blank
      BY <3>1 DEF TypeOK, Places
    <3>2. CASE ~(lock = 0 \/ blank)
      BY <3>2 DEF TypeOK, Places
    <3> QED BY <3>1, <3>2
  <2>3. UNCHANGED <<tun, pid, child, tunOf, lock, blank, holders, persistent, attached,
                    assumed, abandoned>>
    OBVIOUS
  <2> HIDE DEF ReadLock
  <2> QED BY <2>1, <2>2, <2>3 DEF TypeOK
<1>2. PlaceFits' /\ OneParent'
  BY DEF TypeOK, PlaceFits, OneParent, Places
<1>3. AttachFits'
  BY DEF TypeOK, PlaceFits, AttachFits, Places
<1>4. LaunchFits'
  BY DEF TypeOK, PlaceFits, OneParent, LaunchFits
<1>5. TunsAccounted'
  BY DEF TypeOK, PlaceFits, AttachFits, LaunchFits, TunsAccounted
<1>6. LockFits'
  BY DEF TypeOK, PlaceFits, LockFits
<1> QED BY <1>1, <1>2, <1>3, <1>4, <1>5, <1>6

LEMMA TestPidInv ==
  ASSUME SharingInv, NEW s \in Service, TestPid(s)
  PROVE  SharingInv'
<1> USE SharingAssumption DEF SharingInv, Tun, NoTun, Nobody, NoFile, Stale, procVars, lockVars, tunVars, Goto, TestPid, pid_is_running
<1>1. TypeOK'
  BY DEF TypeOK, PlaceFits, Places
<1>2. PlaceFits' /\ OneParent'
  BY DEF TypeOK, PlaceFits, OneParent, Places
<1>3. AttachFits'
  BY DEF TypeOK, PlaceFits, AttachFits, Places
<1>4. LaunchFits'
  BY DEF TypeOK, PlaceFits, OneParent, LaunchFits
<1>5. TunsAccounted'
  BY DEF TypeOK, PlaceFits, AttachFits, LaunchFits, TunsAccounted
<1>6. LockFits'
  BY DEF TypeOK, PlaceFits, LockFits
<1> QED BY <1>1, <1>2, <1>3, <1>4, <1>5, <1>6

LEMMA UnlinkLockInv ==
  ASSUME SharingInv, NEW s \in Service, UnlinkLock(s)
  PROVE  SharingInv'
<1> USE SharingAssumption DEF SharingInv, Tun, NoTun, Nobody, NoFile, Stale, procVars, lockVars, tunVars, Goto, UnlinkLock
<1>1. TypeOK'
  BY DEF TypeOK, PlaceFits, Places
<1>2. PlaceFits' /\ OneParent'
  BY DEF TypeOK, PlaceFits, OneParent, Places
<1>3. AttachFits'
  BY DEF TypeOK, PlaceFits, AttachFits, Places
<1>4. LaunchFits'
  BY DEF TypeOK, PlaceFits, OneParent, LaunchFits
<1>5. TunsAccounted'
  BY DEF TypeOK, PlaceFits, AttachFits, LaunchFits, TunsAccounted
<1>6. LockFits'
  BY DEF TypeOK, PlaceFits, LockFits
<1> QED BY <1>1, <1>2, <1>3, <1>4, <1>5, <1>6

LEMMA SpawnInv ==
  ASSUME SharingInv, NEW s \in Service, NEW c \in Child, Spawn(s, c)
  PROVE  SharingInv'
<1> USE SharingAssumption DEF SharingInv, Tun, NoTun, Nobody, NoFile, Stale, procVars, lockVars, tunVars, Goto, Spawn
<1>1. TypeOK'
  BY DEF TypeOK, PlaceFits, Places
<1>2. PlaceFits' /\ OneParent'
  BY DEF TypeOK, PlaceFits, OneParent, Places
<1>3. AttachFits'
  BY DEF TypeOK, PlaceFits, AttachFits, Places
<1>4. LaunchFits'
  BY DEF TypeOK, PlaceFits, OneParent, LaunchFits
<1>5. TunsAccounted'
  BY DEF TypeOK, PlaceFits, AttachFits, LaunchFits, TunsAccounted
<1>6. LockFits'
  BY DEF TypeOK, PlaceFits, LockFits
<1> QED BY <1>1, <1>2, <1>3, <1>4, <1>5, <1>6

LEMMA SpawnFailsInv ==
  ASSUME SharingInv, NEW s \in Service, SpawnFails(s)
  PROVE  SharingInv'
<1> USE SharingAssumption DEF SharingInv, Tun, NoTun, Nobody, NoFile, Stale, procVars, lockVars, tunVars, Goto, SpawnFails
<1>1. TypeOK'
  BY DEF TypeOK, PlaceFits, Places
<1>2. PlaceFits' /\ OneParent'
  BY DEF TypeOK, PlaceFits, OneParent, Places
<1>3. AttachFits'
  BY DEF TypeOK, PlaceFits, AttachFits, Places
<1>4. LaunchFits'
  BY DEF TypeOK, PlaceFits, OneParent, LaunchFits
<1>5. TunsAccounted'
  BY DEF TypeOK, PlaceFits, AttachFits, LaunchFits, TunsAccounted
<1>6. LockFits'
  BY DEF TypeOK, PlaceFits, LockFits
<1> QED BY <1>1, <1>2, <1>3, <1>4, <1>5, <1>6

\* The end of a session.
LEMMA WatchInv ==
  ASSUME SharingInv, NEW s \in Service, openconnect_watch_cb(s)
  PROVE  SharingInv'
<1> USE SharingAssumption DEF SharingInv, Tun, NoTun, Nobody, NoFile, Stale, procVars, lockVars, tunVars, Goto, openconnect_watch_cb, deactivate_assumed_tun_connection
<1>1. TypeOK'
  BY DEF TypeOK, PlaceFits, Places
<1>2. PlaceFits' /\ OneParent'
  BY DEF TypeOK, PlaceFits, OneParent, Places
<1>3. AttachFits'
  BY DEF TypeOK, PlaceFits, AttachFits, Places
<1>4. LaunchFits'
  BY DEF TypeOK, PlaceFits, OneParent, LaunchFits
<1>5. TunsAccounted'
  BY DEF TypeOK, PlaceFits, AttachFits, LaunchFits, TunsAccounted
<1>6. LockFits'
  BY DEF TypeOK, PlaceFits, LockFits
<1> QED BY <1>1, <1>2, <1>3, <1>4, <1>5, <1>6

LEMMA OpenToDestroyInv ==
  ASSUME SharingInv, NEW s \in Service, OpenToDestroy(s)
  PROVE  SharingInv'
<1> USE SharingAssumption DEF SharingInv, Tun, NoTun, Nobody, NoFile, Stale, procVars, lockVars, tunVars, Goto, OpenToDestroy, FreeTun
<1>1. TypeOK'
  <2>1. CASE tun[s] \in FreeTun
    <3>1. attached' = [attached EXCEPT ![tun[s]] = s] /\ tun' = tun
      BY <2>1
    <3>2. pc' = [pc EXCEPT ![s] = "closing"] /\ tun[s] \in Tun
      BY <2>1
    <3>3. UNCHANGED <<pid, child, tunOf, lock, persistent, assumed, abandoned>>
      OBVIOUS
    <3> QED BY <3>1, <3>2, <3>3 DEF TypeOK, Places
  <2>2. CASE tun[s] \notin FreeTun
    BY <2>2 DEF TypeOK, PlaceFits, Places
  <2> QED BY <2>1, <2>2
<1>2. PlaceFits' /\ OneParent'
  BY DEF TypeOK, PlaceFits, OneParent, Places
<1>3. AttachFits'
  <2>1. CASE tun[s] \in FreeTun
    <3>1. attached' = [attached EXCEPT ![tun[s]] = s] /\ tun' = tun /\ s \notin Child
      BY <2>1, NoServiceIsPid
    <3>2. pc' = [pc EXCEPT ![s] = "closing"] /\ child' = child /\ tunOf' = tunOf
      BY <2>1
    <3>3. \A n \in Tun : attached[n] # s
      BY DEF TypeOK, AttachFits
    <3> QED BY <3>1, <3>2, <3>3 DEF TypeOK, AttachFits
  <2>2. CASE tun[s] \notin FreeTun
    <3>1. attached' = attached /\ tun' = [tun EXCEPT ![s] = -1]
      BY <2>2
    <3>2. pc' = [pc EXCEPT ![s] = "idle"] /\ child' = child /\ tunOf' = tunOf
      BY <2>2
    <3>3. \A n \in Tun : attached[n] # s
      BY DEF TypeOK, AttachFits
    <3> QED BY <3>1, <3>2, <3>3 DEF TypeOK, AttachFits
  <2> QED BY <2>1, <2>2
<1>4. LaunchFits'
  BY DEF TypeOK, PlaceFits, OneParent, LaunchFits
<1>5. TunsAccounted'
  <2>1. CASE tun[s] \in FreeTun
    BY <2>1 DEF TunsAccounted
  <2>2. CASE tun[s] \notin FreeTun
    \* Whoever has the device open vouches for it.
    <3>1. tun[s] \in Tun /\ attached[tun[s]] \in Service \cup Child
      BY <2>2 DEF TypeOK, PlaceFits
    <3>2. tun[s] \in abandoned \/ \E t \in Service \ {s} : tun[t] = tun[s]
      <4>1. CASE attached[tun[s]] \in Service
        BY <3>1, <4>1 DEF AttachFits
      <4>2. CASE attached[tun[s]] \in Child
        <5>1. /\ child[attached[tun[s]]] = "live"
              /\ tunOf[attached[tun[s]]] = tun[s]
          BY <3>1, <4>2 DEF AttachFits
        <5>2. pid[s] = 0
          BY DEF PlaceFits
        <5>3. ASSUME NEW t \in Service, pid[t] = attached[tun[s]]
              PROVE  t # s /\ tun[t] = tun[s]
          BY <4>2, <5>1, <5>2, <5>3 DEF PlaceFits
        <5> QED BY <4>2, <5>1, <5>3 DEF LaunchFits
      <4> QED BY <3>1, <4>1, <4>2
    <3>3. tun' = [tun EXCEPT ![s] = -1] /\ persistent' = persistent /\ abandoned' = abandoned
      BY <2>2
    <3>4. ASSUME NEW n \in persistent
          PROVE  n \in abandoned \/ \E t \in Service \ {s} : tun[t] = n
      BY <3>2, <3>4 DEF TunsAccounted
    <3>5. \A t \in Service \ {s} : tun'[t] = tun[t]
      BY <3>3 DEF TypeOK
    <3> QED BY <3>3, <3>4, <3>5 DEF TunsAccounted
  <2> QED BY <2>1, <2>2
<1>6. LockFits'
  BY DEF TypeOK, PlaceFits, LockFits
<1> QED BY <1>1, <1>2, <1>3, <1>4, <1>5, <1>6

LEMMA DestroyTunInv ==
  ASSUME SharingInv, NEW s \in Service, DestroyTun(s)
  PROVE  SharingInv'
<1> USE SharingAssumption DEF SharingInv, Tun, NoTun, Nobody, NoFile, Stale, procVars, lockVars, tunVars, Goto, DestroyTun
<1>1. TypeOK'
  BY DEF TypeOK, PlaceFits, Places
<1>2. PlaceFits' /\ OneParent'
  BY DEF TypeOK, PlaceFits, OneParent, Places
<1>3. AttachFits'
  BY DEF TypeOK, PlaceFits, AttachFits, Places
<1>4. LaunchFits'
  BY DEF TypeOK, PlaceFits, OneParent, LaunchFits
<1>5. TunsAccounted'
  <2>1. ASSUME NEW n \in persistent'
        PROVE  n \in abandoned \/ \E t \in Service \ {s} : tun[t] = n
    BY <2>1 DEF TunsAccounted
  <2>2. \A t \in Service \ {s} : tun'[t] = tun[t]
    BY DEF TypeOK
  <2> QED BY <2>1, <2>2 DEF TunsAccounted
<1>6. LockFits'
  BY DEF TypeOK, PlaceFits, LockFits
<1> QED BY <1>1, <1>2, <1>3, <1>4, <1>5, <1>6

LEMMA NeedSecretsInv ==
  ASSUME SharingInv, NEW s \in Service, NEW want \in Tun \cup {NoTun}, real_need_secrets(s, want)
  PROVE  SharingInv'
<1> USE SharingAssumption DEF SharingInv, Tun, NoTun, Nobody, NoFile, Stale, procVars, lockVars, tunVars, Goto, real_need_secrets, deactivate_assumed_tun_connection
<1>1. TypeOK'
  BY DEF TypeOK, PlaceFits, Places
<1>2. PlaceFits' /\ OneParent'
  BY DEF TypeOK, PlaceFits, OneParent, Places
<1>3. AttachFits'
  BY DEF TypeOK, PlaceFits, AttachFits, Places
<1>4. LaunchFits'
  BY DEF TypeOK, PlaceFits, OneParent, LaunchFits
<1>5. TunsAccounted'
  BY DEF TypeOK, PlaceFits, AttachFits, LaunchFits, TunsAccounted
<1>6. LockFits'
  BY DEF TypeOK, PlaceFits, LockFits
<1> QED BY <1>1, <1>2, <1>3, <1>4, <1>5, <1>6

LEMMA DiesInv ==
  ASSUME SharingInv, NEW s \in Service, ServiceDies(s)
  PROVE  SharingInv'
<1> USE SharingAssumption DEF SharingInv, Tun, NoTun, Nobody, NoFile, Stale, procVars, lockVars, tunVars, Goto, ServiceDies
<1>1. TypeOK'
  BY DEF TypeOK, PlaceFits, Places
<1>2. PlaceFits' /\ OneParent'
  BY DEF TypeOK, PlaceFits, OneParent, Places
<1>3. AttachFits'
  BY DEF TypeOK, PlaceFits, AttachFits, Places
<1>4. LaunchFits'
  BY DEF TypeOK, PlaceFits, OneParent, LaunchFits
<1>5. TunsAccounted'
  BY DEF TypeOK, PlaceFits, AttachFits, LaunchFits, TunsAccounted
<1>6. LockFits'
  BY DEF TypeOK, PlaceFits, LockFits
<1> QED BY <1>1, <1>2, <1>3, <1>4, <1>5, <1>6

\* gpclient and NetworkManager.
LEMMA CreateLockInv ==
  ASSUME SharingInv, NEW c \in Child, CreateLock(c)
  PROVE  SharingInv'
<1> USE SharingAssumption DEF SharingInv, Tun, NoTun, Nobody, NoFile, Stale, procVars, lockVars, tunVars, Goto, CreateLock
<1>1. TypeOK'
  BY DEF TypeOK, PlaceFits, Places
<1>2. PlaceFits' /\ OneParent'
  BY DEF TypeOK, PlaceFits, OneParent, Places
<1>3. AttachFits'
  BY DEF TypeOK, PlaceFits, AttachFits, Places
<1>4. LaunchFits'
  BY DEF TypeOK, PlaceFits, OneParent, LaunchFits
<1>5. TunsAccounted'
  BY DEF TypeOK, PlaceFits, AttachFits, LaunchFits, TunsAccounted
<1>6. LockFits'
  BY DEF TypeOK, PlaceFits, LockFits
<1> QED BY <1>1, <1>2, <1>3, <1>4, <1>5, <1>6

LEMMA WriteLockInv ==
  ASSUME SharingInv, NEW c \in Child, WriteLock(c)
  PROVE  SharingInv'
<1> USE SharingAssumption DEF SharingInv, Tun, NoTun, Nobody, NoFile, Stale, procVars, lockVars, tunVars, Goto, WriteLock
<1>1. TypeOK'
  BY DEF TypeOK, PlaceFits, Places
<1>2. PlaceFits' /\ OneParent'
  BY DEF TypeOK, PlaceFits, OneParent, Places
<1>3. AttachFits'
  BY DEF TypeOK, PlaceFits, AttachFits, Places
<1>4. LaunchFits'
  BY DEF TypeOK, PlaceFits, OneParent, LaunchFits
<1>5. TunsAccounted'
  BY DEF TypeOK, PlaceFits, AttachFits, LaunchFits, TunsAccounted
<1>6. LockFits'
  BY DEF TypeOK, PlaceFits, LockFits
<1> QED BY <1>1, <1>2, <1>3, <1>4, <1>5, <1>6

LEMMA AttachTunInv ==
  ASSUME SharingInv, NEW c \in Child, AttachTun(c)
  PROVE  SharingInv'
<1> USE SharingAssumption DEF SharingInv, Tun, NoTun, Nobody, NoFile, Stale, procVars, lockVars, tunVars, Goto, AttachTun, FreeTun
<1>1. TypeOK'
  BY DEF TypeOK, PlaceFits, Places
<1>2. PlaceFits' /\ OneParent'
  BY DEF TypeOK, PlaceFits, OneParent, Places
<1>3. AttachFits'
  BY DEF TypeOK, PlaceFits, AttachFits, Places
<1>4. LaunchFits'
  BY DEF TypeOK, PlaceFits, OneParent, LaunchFits
<1>5. TunsAccounted'
  BY DEF TypeOK, PlaceFits, AttachFits, LaunchFits, TunsAccounted
<1>6. LockFits'
  BY DEF TypeOK, PlaceFits, LockFits
<1> QED BY <1>1, <1>2, <1>3, <1>4, <1>5, <1>6

LEMMA ChildExitInv ==
  ASSUME SharingInv, NEW c \in Child, ChildExit(c)
  PROVE  SharingInv'
<1> USE SharingAssumption DEF SharingInv, Tun, NoTun, Nobody, NoFile, Stale, procVars, lockVars, tunVars, Goto, ChildExit
<1>1. TypeOK'
  BY DEF TypeOK, PlaceFits, Places
<1>2. PlaceFits' /\ OneParent'
  BY DEF TypeOK, PlaceFits, OneParent, Places
<1>3. AttachFits'
  BY DEF TypeOK, PlaceFits, AttachFits, Places
<1>4. LaunchFits'
  BY DEF TypeOK, PlaceFits, OneParent, LaunchFits
<1>5. TunsAccounted'
  BY DEF TypeOK, PlaceFits, AttachFits, LaunchFits, TunsAccounted
<1>6. LockFits'
  BY DEF TypeOK, PlaceFits, LockFits
<1> QED BY <1>1, <1>2, <1>3, <1>4, <1>5, <1>6

LEMMA AssumeTunInv ==
  ASSUME SharingInv, NEW n \in Tun, AssumeTun(n) \/ ForgetTun(n)
  PROVE  SharingInv'
<1> USE SharingAssumption DEF SharingInv, Tun, NoTun, Nobody, NoFile, Stale, procVars, lockVars, tunVars, Goto, AssumeTun, ForgetTun
<1>1. TypeOK'
  BY DEF TypeOK, PlaceFits, Places
<1>2. PlaceFits' /\ OneParent'
  BY DEF TypeOK, PlaceFits, OneParent, Places
<1>3. AttachFits'
  BY DEF TypeOK, PlaceFits, AttachFits, Places
<1>4. LaunchFits'
  BY DEF TypeOK, PlaceFits, OneParent, LaunchFits
<1>5. TunsAccounted'
  <2>1. UNCHANGED <<persistent, abandoned, tun>>
    OBVIOUS
  <2> QED BY <2>1 DEF TunsAccounted
<1>6. LockFits'
  BY DEF TypeOK, PlaceFits, LockFits
<1> QED BY <1>1, <1>2, <1>3, <1>4, <1>5, <1>6

-----------------------------------------------------------------------------
(* The invariant and what follows from it.                                 *)

\* No step of any service, gpclient or NetworkManager breaks the invariant.
LEMMA StepSharingInv == SharingInv /\ [Next]_vars => SharingInv'
<1> SUFFICES ASSUME SharingInv, [Next]_vars PROVE SharingInv'
  OBVIOUS
<1>1. ASSUME NEW s \in Service, NEW want \in Tun \cup {NoTun},
             OpenTun(s, want) \/ real_need_secrets(s, want)
      PROVE  SharingInv'
  BY <1>1, OpenTunInv, NeedSecretsInv
<1>2. ASSUME NEW s \in Service,
             PersistTun(s) \/ FindLock(s) \/ ReadLock(s) \/ TestPid(s) \/ UnlinkLock(s) \/ SpawnFails(s)
      PROVE  SharingInv'
  BY <1>2, PersistTunInv, FindLockInv, ReadLockInv, TestPidInv, UnlinkLockInv, SpawnFailsInv
<1>3. ASSUME NEW s \in Service, NEW c \in Child, Spawn(s, c) PROVE SharingInv'
  BY <1>3, SpawnInv
<1>4. ASSUME NEW s \in Service,
             openconnect_watch_cb(s) \/ OpenToDestroy(s) \/ DestroyTun(s) \/ ServiceDies(s)
      PROVE  SharingInv'
  BY <1>4, WatchInv, OpenToDestroyInv, DestroyTunInv, DiesInv
<1>5. ASSUME NEW c \in Child, CreateLock(c) \/ WriteLock(c) \/ AttachTun(c) \/ ChildExit(c)
      PROVE  SharingInv'
  BY <1>5, CreateLockInv, WriteLockInv, AttachTunInv, ChildExitInv
<1>6. ASSUME NEW n \in Tun, AssumeTun(n) \/ ForgetTun(n) PROVE SharingInv'
  BY <1>6, AssumeTunInv
<1>7. CASE UNCHANGED vars
  <2> USE <1>7 DEF vars
  <2>1. TypeOK' /\ PlaceFits' /\ OneParent'
    BY DEF SharingInv, TypeOK, PlaceFits, OneParent
  <2>2. AttachFits' /\ LaunchFits'
    BY DEF SharingInv, AttachFits, LaunchFits
  <2>3. TunsAccounted' /\ LockFits'
    BY DEF SharingInv, TunsAccounted, LockFits
  <2> QED BY <2>1, <2>2, <2>3 DEF SharingInv
<1> QED BY <1>1, <1>2, <1>3, <1>4, <1>5, <1>6, <1>7 DEF Next

\* The invariant holds in every reachable state.
LEMMA SharingInvHolds == Spec => []SharingInv
<1> QED BY InitSharingInv, StepSharingInv, PTL DEF Spec

\* Types: what NeedSecrets, Connect and the child watches of any number of
\* services do to the lock file and to the devices stays in its domains.
THEOREM SharingTypeCorrect == Spec => []TypeOK
<1>1. SharingInv => TypeOK
  BY DEF SharingInv
<1> QED BY <1>1, SharingInvHolds, PTL

\* create_persistent_tundev and destroy_persistent_tundev of services that
\* know nothing of each other: a persistent device always belongs to a running
\* session, or to a service that died or could not start gpclient.
THEOREM SharedTunsAccounted == Spec => []TunsAccounted
<1>1. SharingInv => TunsAccounted
  BY DEF SharingInv
<1> QED BY <1>1, SharingInvHolds, PTL

\* prepare_gpclient_lock of any number of services: of the gpclients that took
\* the lock file at most one lives, however the services' looks at the file, the
\* removals and the ends of gpclients interleave, and whatever a crash has left
\* in it, until a gpclient takes it between a service's read and its unlink.
THEOREM LockKeepsOut == Spec => []OneHolder
<1>1. SharingInv => OneHolder
  BY DEF SharingInv, LockFits, OneHolder
<1> QED BY <1>1, SharingInvHolds, PTL

=============================================================================
