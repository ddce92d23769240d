# Formal models of NetworkManager-gpclient

NetworkManager-gpclient makes GlobalProtect VPNs available in NetworkManager by
driving the external programs `gpclient` (the tunnel) and `gpauth` (the browser
sign-on). This directory holds TLA+ models of its programs, TLC runs that check
them on small instances, and TLAPS proofs for all instances. `PROJECT.json` maps
every definition to the lines it models and lists runs, findings and hazards.

    tlc -workers 2 -config ServiceSafety.cfg GpclientService.tla
    tlapm GpclientServiceProofs.tla

## The system

| Component | Source | State | Operations |
|---|---|---|---|
| VPN service | `src/src/nm-gpclient-service.c` | the current child's `pid`, its TUN device, `disconnect_requested`, `quit_pending`, the SIGKILL timer; libnm's state and timers | `Connect`, `NeedSecrets`, `Disconnect`, child watch, timer, signals, quit |
| TUN devices and lock file | same | kernel devices, NetworkManager's assumed connections, `/run` lock file | create, hand over, destroy, deactivate; test and remove the lock |
| vpnc-script helper | `src/src/nm-gpclient-service-helper.c` | what it built from its environment | `SetFailure`, or `SetConfig`, `SetIp4Config`, `SetIp6Config` |
| Authentication dialog | `src/auth-dialog/nm-gpclient-auth-dialog.c` | poll loop, gpauth's output, stop requests | run `gpauth`, stop it, reap it, print secrets, wait for the agent |
| Editor | `src/properties/nm-gpclient-editor.c` | the widgets | show a profile, write a profile |
| Editor plugin loader | `src/properties/nm-gpclient-editor-plugin.c`, `src/shared/nm-utils/` | the module and factory it loaded first | find, `dlopen` and keep the GTK 3 or GTK 4 editor |
| Browser helper | `src/src/nm-gpclient-browser-helper` | none | choose a browser from setting and installed programs, `exec` it |
| Legacy editor | `src/properties/nm-openconnect-editor*.c` | - | not built |

How they interact. The editor writes a profile (`vpn.data`, secret flags). On
activation NetworkManager starts the service and calls `NeedSecrets`; as long as
secrets are wanted it asks the user's secret agent, which runs the
authentication dialog with the profile on stdin and reads secrets from its
stdout. Then it calls `Connect`: the service creates a persistent TUN device,
checks the lock file, spawns `gpclient` in a process group of its own and writes
the cookie to its stdin. When the tunnel is up `gpclient` runs the helper, which
gives the configuration to the service over D-Bus, and libnm passes it on. The
session ends by `Disconnect`, by a timeout of libnm, by `SetFailure`, when
`gpclient` ends, or by a signal to the service.

What is hard. The service is a single-threaded main loop, so nothing preempts a
callback, but between two callbacks `gpclient`, NetworkManager and the helper do
what they like: a requested end races an unrequested one, a helper's call
arrives after `Disconnect`, timers armed for one child may meet the next,
`SIGKILL` may be needed, and a failure half-way through a launch leaves a
device, a descriptor or a process. The dialog multiplexes gpauth, its agent,
Unix signals and time with `poll`, and a browser may hold gpauth's pipes after
gpauth has ended. Editor, dialog and service each interpret the same profile
with their own code. All hazards, at their lines, are in `PROJECT.json`.

What makes each part correct:

* service: signals only its own unreaped child; `SIGKILL` only after `SIGINT`;
  every end is reported exactly if it was not asked for; it quits, and only when
  its child is gone; no persistent device is forgotten; it does not cut off its
  own VPN;
* dialog: prints a secret only if it was not told to stop, and only a whole one;
  leaves no gpauth, alive or zombie, not even if it is killed; stops when told;
  cannot deadlock with gpauth on full pipes;
* helper: never lets the VPN become active with half of its configuration, never
  leaves the service waiting for a part that does not come; routes as given;
* several services (one process per active VPN): the lock file keeps out a second
  gpclient (up to a gap, see Findings), no device is left behind, and one VPN does
  not disturb another (it does, see Findings);
* editor and loader: what the user saw is what is used; a process never has two
  editor modules, and none for the wrong GTK;
* profile: the three programs agree on server, mode and transport; a cookie is
  used once, for the server it was obtained for; a sign-on is not asked for in
  vain.

## Modules

**GpclientService** - the service with its children, devices and lock file. One
callback is one action; a handler with many exits (`Connect`) is one action per
outcome, in the order of the code. `pid`, `tun_name`, `disconnect_requested`,
`quit_pending` and `kill_timeout` are the fields of
`NMOpenconnectPluginPrivate`; `loop` is the GLib main loop; `child[c]` is the
kernel's view of a gpclient: `live`, `zombie`, `reaped`, `gone` (left to
init), or `lost` (exited, and nothing watches it). libnm is external and
modelled as far as the plugin relies on it: `Connect` only in INIT and STOPPED,
STOPPING and STOPPED within one callback, `quit` on STOPPED (after 180 s with
`--debug`), a 60 s timer after `Connect`, STARTED when the helper's
configuration is complete, whatever the state was. `asked`, `killed` and `told`
are history. `tun_name` is a number, and of a TUN device the model has whether
it is persistent, who has it open and whether NetworkManager assumed it.

**VpnSession** - what the service promises, in six variables and eight actions:
one gpclient at a time, which ends quietly if it was asked to stop and is else
reported, `SIGKILL` only while it is being stopped, and a gpclient left running
only by a service that is interrupted. GpclientService implements it
(`ImplementsSession`): `SessionPhase` computes the abstract phase from `loop`,
`signalled`, `pid` and `disconnect_requested`; timers, `quit_pending` and libnm's
states do not appear in it.

**TunSharing** - several services on one host. They meet in three places: the
lock file, the TUN devices, NetworkManager's assumed connections. Where
GpclientService has one action per callback, because nothing runs between its
system calls that touches these, TunSharing has one per access: `Connect` is
`OpenTun`, `PersistTun`, `FindLock` (is there a file), `ReadLock`, `TestPid` (does
the pid it held still run), `UnlinkLock`, `Spawn`, the end of a session
`openconnect_watch_cb`, `OpenToDestroy`, `DestroyTun`. `seen` is the pid a service
has read and not yet tested; the file may hold another one by then. The parts of
a callback that concern one service alone are left to GpclientService. gpclient is
external: it is assumed to create the lock file only if there is none, and then to
write its pid (`CreateLock`, `WriteLock`; the file is `blank` in between).
`holders`, `abandoned` and `overlapped` are history: the living gpclients that took
the lock, and whether one ever took it while a service had read the file and was
not done with it, or was read before it had written its pid. **MCTunSharing** adds
the symmetry of the services, for TLC.

**AuthDialog** - the dialog as a process. A pass of the poll loop of
`collect_auth` is two actions (`Poll`, `Reap`), because gpauth may end between
`poll` and `waitpid`. A gpauth that has ended is a zombie, or, where the dialog
inherited an ignored `SIGCHLD` and the kernel reaps it at once, `freed`: then a
signal sent before `waitpid` fails is counted in `stray`. "QUIT\n" is two pieces, so that it can be split between
reads and between the two readers. Output is counted in chunks; a pipe holds
`Capacity` chunks, then its writer blocks. `heard` is history: a stop request
that the dialog read, or a signal before its last look.

**SignOn** - what the dialog promises the agent, in five variables and ten
actions: one gpauth at most, not started for an agent that has withdrawn,
signalled only when the sign-on is given up, `SIGKILL` after `SIGTERM`, reaped
before the dialog ends; one secret, whole, and none after a stop that came in
time. AuthDialog implements it (`ImplementsSignOn`): `Stage` is computed from the
program counter and `cancelled`, `Life` from gpauth's state, and what the poll
loop does besides is a stutter.

**Activation** - one profile through editor, `NeedSecrets` rounds, dialog and
`Connect`. State is the profile, the secrets kept, the secrets collected, and
gpclient's arguments while it runs. NetworkManager and the agent are external:
rounds are existing secrets of the system, existing secrets of the agent, new
secrets; secrets are kept unless `NOT_SAVED`. A cookie carries what it was
obtained for and when. A `Connect` that is acceptable may still fail to launch
gpclient (`LaunchFails`: version, device, lock file, spawn, write of the cookie).

**ServiceHelper** - the helper from its environment to its last D-Bus call, with
the service's end of the calls. An include entry is whether its address is set
and can be parsed, and its prefix length, which may be out of range or missing
(`Bad`) or no number; a name server is its family, or `Bad`; `valid` stands for the
address parsers whose failure leads to `helper_failed`. The two loops over an
include list test an entry in different orders: `ip4_entry` and `ip6_entry` are
what each makes of it. What a pass does then is alike in both, and the loop is a
recursive function over its passes. `Spec`, for the runs, has the routes of one
family or name servers, `AnySpec`, for the proofs, all of them.

**EditorChoices** - the browser and the reported OS: the editor's combo boxes and
custom entry, the data items, what dialog and service make of them, and the
browser helper's choice among the installed programs. Values made by hand
(`auto`, `manual`, an OS the editor does not offer) are included. `touched` and
`chosen` are history.

**EditorPlugin** - the plugin and its loader in the process that shows the editor,
composed with EditorChoices, whose `Open` succeeds only if the loader finds an
editor. `cached` is the loader's static variable. The host process, which may
load GTK after the first attempt, and the installed files are external.

**GpclientServiceProofs**, **AuthDialogProofs**, **TunSharingProofs**,
**ActivationProofs**, **ServiceHelperProofs**, **EditorPluginProofs** - the proofs,
one module for each program. EditorPluginProofs has EditorChoices' as well.

The modules meet where the processes do: `HelperConfig` and `HelperFailure` of
GpclientService are what ServiceHelper does in detail, `ConnectInvalid` and
`ConnectLaunched` stand for the decisions of Activation's `real_connect`, and
Activation's `DialogNew` is a run of AuthDialog, which SignOn summarises: no
secret, or one whole secret and no gpauth left. TunSharing sees of each service
what GpclientService does to the shared things.

## Runs

| Run | Question | Bounds |
|---|---|---|
| `service_safety` | whom the service signals, what it reports, when it ends, what it leaves; that it implements VpnSession | two children, two devices; SIGTERM, no device account, failing `open`, `ioctl`, `unlink` |
| `service_early` | `SignalsOwnChild`, and that a disconnect, a stuck launch and a deferred quit end, with overlapping Connects and lost children | two children, one device, all failures of a launch and of the clean-up |
| `tun_sharing` | which devices several services leave, how a second gpclient can get past the lock | three services, three children, one device; services that die, lock files left behind, failing spawns |
| `auth_dialog` | everything about the dialog, and that it implements SignOn | two chunks of output per pipe, pipes of one chunk, all faults |
| `activation` | agreement of the three programs, cookies, sign-ons in vain | two servers, four combinations of flags, two activations |
| `service_helper` | the hand-over, the routes and the name servers | lists of up to two entries, one prefix length besides 0 |
| `editor_choices` | the browser shown is the browser used; an explicit Firefox is one; the loader never mixes two editors | one custom command, one odd OS, six programs, two editor modules |
| `service_early_quit`, `service_spawn_leak`, `sharing_cuts_vpn`, `activation_placeholder`, `helper_includes` | each refutes one statement of the documentation, see Findings | one or two devices; one activation; one entry |

Why the bounds are enough. Two children are needed for one to meet what was left
by another, and no state refers to more than the current and the previous one; two
device names make the search for a free name, a taken name and a leaked one
possible at once (256 is the code's bound, `TunCount` here). The lock file needs
three gpclients: the one whose pid was read, the one whose lock is removed for it,
and the one that takes the lock after that (two show only what a file left behind,
or not yet written, does); each has a service of its own, so that no order among
them is excluded. The devices meet through a name they share, so one name, which
all three services want, is the crowded case; with two names the run would not end
in minutes, and `SharedTunsAccounted` is the theorem for any number of names and
services. Three services are not enough for `OneHolder` by themselves either,
since what a service sees depends on the order of all the others' accesses: that
more of them add nothing is the theorem `LockKeepsOut`, not an argument about
bounds. ServiceHelper reads the routes of the families and the name servers
independently, so its run varies one list at a time (the theorems about it do
without this). Two chunks and a pipe of one give a blocked writer and output split
over passes. Two activations are one cookie and its reuse. For EditorChoices one
value of each kind the code tells apart is enough. Two include entries give every
pair of bad, default and proper, in either order. The bounds `Child`, `TunCount`,
`Json`, `Capacity`, `Service`, `MaxActivations` and `MaxRoutes` are constants; the
theorems hold for all of them.

Deadlock is not checked for the service, the dialog and the helper: these
processes end; nor for `tun_sharing`, where the processes run out. It is checked for `activation` and `editor_choices`, where a
profile can always be edited.

Every property is paired in `PROJECT.json` with a faulty variant of a mapped
definition (the operators marked "Faulty variant" in the modules) that breaks it.

### Fairness

Safety runs assume none. `FairSpec` of GpclientService assumes that the main
loop dispatches ready sources (GLib does, in priority order, and none of ours
keeps the loop busy), that a timer expires, and that a process that was sent
`SIGKILL` dies. It assumes nothing of NetworkManager, of the helper, or of a
gpclient that was only sent `SIGINT`; so `DisconnectEnds` rests on the 2 s timer
and `StuckLaunchEnds` on libnm's 60 s timer. `FairSpec` of AuthDialog assumes
that the dialog, and the child between `fork` and `exec`, run, that 2 s pass, and
that a killed process dies; nothing of agent, browser, or a gpauth that was only
sent `SIGTERM`.

### Findings

Each is a violation run and quotes the statement it refutes in `PROJECT.json`.

* `service_early_quit`: `Connect` does not look for an old child. One that comes
  while the last gpclient is dying overwrites `pid`; the old child's watch then
  clears it, and with the deferred quit ends the loop with the new gpclient
  running. The same overlap mixes up `disconnect_requested` and the SIGKILL
  timer. Whether NetworkManager ever does this is outside the repository; the
  constant `Faults` has it as `"connect_early"`, and the theorems that need its
  absence say so.
* `service_spawn_leak`: a failed spawn leaves the persistent device.
* `sharing_cuts_vpn`: `NeedSecrets` of a second VPN deactivates the assumed
  connection on `vpn0` while the first VPN's gpclient has that device open; it
  looks only at its own `pid`.
* `activation_placeholder`: the placeholder gateway is passed to gpclient for
  hand-made portal profiles without `auto_gateway`.
* `helper_includes`: includes of which none can be parsed give a default route.

Met on the way, without a statement they contradict, or with less consequence:

* A configuration that arrives after `Disconnect` makes libnm's state STARTED
  again. The service quits all the same (`QuitPendingQuits`) and not too early
  (`QuitWaitsForChild`), but in that state; `src/tools/test-disconnect.c:103`
  expects STOPPED, in a test without a helper.
* The lock file is tested, read and removed without a lock of its own. Service s
  reads the pid of gpclient c; c ends in good order, removes its file and is
  reaped; gpclient d creates the file and writes its pid; s finds c gone and
  unlinks the file, which is d's; its own gpclient e takes the free lock, and d and
  e are both alive. A file read before its pid is written is taken for stale as
  well. `OneHolder` has the condition `~overlapped` for this, and without it TLC
  finds the order above.
* Where `SIGCHLD` is ignored, the kernel frees gpauth's pid at its exit, and a
  cancelled pass of the poll loop signals that pid before `waitpid` fails. It
  happens at most once (`SignalsOwnGpauth`).
* The lock file, the device and gpclient's version are tested in `Connect`, after
  the user has signed on; if one of them refuses, the sign-on was in vain.
* An IPv6 include with a prefix of 0 is a default route even if its address cannot
  be parsed, an IPv4 one is not; an include whose `MASKLEN` is no number is a
  default route in both families.
* A service that is refused by the lock file destroys the device it opened by
  name, even if another service has opened it again since and its gpclient has
  not attached yet. `TunsAccounted` holds regardless.
* The loader returns no editor and no `GError` when the cached module is not the
  one asked for. After `dladdr` fails it sets an error but goes on (line 64).
* Split DNS is lost for tunnels with IPv6 only; one name server that cannot be
  parsed discards all of them, while a bad route is skipped.
* Saving a profile in the editor drops a reported OS that its combo box does not
  have.

## Proofs

For all sets of processes and numbers of devices (assumption
`ConstantsAssumption`, nothing else unless stated):

* `TypeCorrect`: `TypeOK`, one lemma per group of callbacks. Disconnects and
  quits are used by many actions, so their types are lemmas (`DisconnectTypes`,
  `QuitTypes`).
* `SignalsOwnChildHolds`: with every fault, overlapping Connects included. The
  invariant is inductive with `TypeOK`.
* `QuitWaits`, `KillIsEscalation`, `ReportsAreExact`, `NoChildIsLost`: without
  overlapping Connects (the violation run shows that the assumption is needed).
  The last one, `ForgetsOnlyReaped`, has no run of its own: a pid that is dropped
  early breaks `ImplementsSession`.
  None of these invariants is inductive: that the SIGKILL timer hits the right
  child needs that it is armed only while `disconnect_requested`, that the flag
  tells whether the current child was asked, and that the current child is the
  only one watched. `SupInv` = `OneChild` (pid and watched processes), `FlagsFit`
  (flags and that child; a child nobody asked to stop belongs to an active
  state, which is why its end is always reported) and `HistoryFits`.
* `ServiceImplementsSession`: the refinement, under the same assumption. Each
  group of callbacks is mapped to one abstract action or a stutter by a lemma of
  its own; `SupInv` decides which. A repeated Disconnect, for instance, stutters
  because the flag says the child was asked already, and the child watch is
  `End(quiet)` because the reaped child is the current one and the flag its own.
* `CleanUpSparesLiveVpn`: `NeverCutsLiveVpn`, from `OneChild` and
  `AttachedLive` (who has a device open is alive).
* `NoTunLeftBehind`: in addition without failures of the spawn, of the write of
  the cookie and of the clean-up itself, which do leak. `TunInv` adds that only
  live processes have devices open and that nobody but the current child has the
  current one, so that it can be destroyed when that child is dead.

For all sizes of output and pipes and all faults, from `DialogInv` =
`TypeOK`, `FlowFits` (program counter against gpauth's life), `ChunksFit` (what
gpauth wrote is in the pipe or in the buffer, and `success` means everything was
written), `SecretFits`, `StopFits` (a request that was heard is still in a
variable the dialog will look at):

* `DialogTypeCorrect`, `StoppedMeansSilent`, `PrintedMeansWhole`,
  `ExitMeansReaped`, `SignalsStayHome`;
* `DialogImplementsSignOn`: the refinement, from `DialogInv` and `KillFits`, which
  ties the timer of `stop_gpauth` to `cancelled` and to the signals sent. Giving
  up is one abstract step because the first cancelled pass always sends `SIGTERM`
  unless gpauth is over, and it is final because `cancelled` is never cleared.

For all numbers of services, gpclients and names and all faults (assumption
`SharingAssumption`), from `SharingInv` = `TypeOK`, `PlaceFits` and `OneParent`
(where a service is against the device and the gpclient it holds), `AttachFits`
and `LaunchFits` (who has a device open has a use for it), `TunsAccounted` and
`LockFits`, with one lemma per action:

* `SharingTypeCorrect`;
* `SharedTunsAccounted`: the hard step is a service that forgets a device it finds
  open (`OpenToDestroy`): whoever has it open is another service that holds its
  name, or a living gpclient whose service holds it or has died;
* `LockKeepsOut`: `LockFits` says that, unless accesses have overlapped, the file is
  that of the living gpclient that took it, if there is one; that a service about
  to test a pid has read it from the file that is there, if any is; and that one
  about to unlink removes no living gpclient's file. So a gpclient that creates
  the file, which it can only if there is none, is the only holder.

For all sets of servers and of flag values and any number of activations
(Activation's `ConstantsAssumption`: names are not the placeholders, and
`NOT_SAVED` is a flag), from `ActInv` = `TypeOK` and six parts:

* `StoredOld`: a stored cookie is older than all activations. No run reaches a
  state where one is stored, and this is the reason: secrets are only stored on the
  way to `Connect`, where `RoundFits` says that the flags have been found safe,
  and they cannot be edited during an activation. `SecretsFit` (a cookie at hand
  is of this activation or was left over) then gives `CookieIsFresh`.
* `FreshFits`: a cookie of this activation was obtained where the service will
  look. Dialog and service take data item and secret in opposite order; what ties
  them is that the dialog prints a gateway secret that equals the item if there is
  one. This gives `CookieIsForTheServer`, and `NoSignOnInVain`: the secret is all
  that validation could still miss, so that after a sign-on only a switch that is
  neither yes nor no, or the launch itself, makes the activation fail.
* `ShownFits` (a profile nobody edited by hand is as the editor wrote it) and
  `ArgsFit` give `EditorIsFollowed` and `TransportIsShown`. `ActivationTypeCorrect`
  says besides types that a launch has a server.

For include lists and lists of name servers of every length, all prefix lengths,
and calls that fail or not (`AnySpec`), from `HelperInv` = `Control`, `HandoffFits`
(which parts have arrived, by how far the helper is), `ServiceFits` (the service
counts as the helper does, until it is disconnected) and `ConfigFits` (nothing is
sent before it is built, and what is built stays as it is):

* `HelperTypeCorrect`, `NeverHalfConfigured`, `CompletedIsStarted`;
* `RoutesAreFaithful`: `EntryRight` says of either loop which entries are routes and
  which are default routes, and `PassesRight` what the loop makes of a list of
  them: the routes after n passes of the loop are the good ones among
  the first n entries, and the default is noted if it was given.
  Induction theorems that take a predicate are of no use to the prover, so the
  induction is over a set of numbers (`NatSetInduction`, from the well-foundedness
  of `<`); that the recursion of `get_routes` defines a function is itself shown
  that way (`PassesExist`);
* `DnsIsWhole`: with no bad entry, the servers of the two families are disjoint
  and together all there are, whence the sum (`CountsAdd`). That the service is
  STARTED only with a built configuration is `NeverHalfConfigured` again.

For all custom commands, odd OS texts and installed programs (EditorChoices'
`ConstantsAssumption`: no text of the user is a keyword):

* of the editor, from `EditorInv` = `TypeOK`, `UntouchedFits` (an
  untouched editor shows the profile even after it has been saved, which may
  drop an OS), `LaunchFits` and `ChoiceIsUsed`: `BrowserIsAsChosen`,
  `FirefoxIsFirefox` and `SavingKeepsProfile`. The invariant is that of
  EditorChoices' own `Spec`; the three theorems are stated of the composition with
  the loader, `PluginSpec`, which `PluginImplementsEditor` shows to implement it:
  each of its steps is the editor's or leaves the editor alone;
* of the loader, for any order of loading GTK, restarts and changed files, from
  `LoaderInv` = `PluginTypeOK` and `OneEditorModule`, with `EditorInv`:
  `PluginTypeCorrect`, `OneModuleForGood`, `EditorMatchesToolkit`.

Only model-checked: the liveness properties (`QuitPendingQuits`,
`DisconnectEnds`, `StuckLaunchEnds`, `StopEnds`, `NeverBlocksGpauth`,
`OrphanDies`), since the prover handles neither fairness nor ENABLED. Every
invariant and every action property that a run checks is a theorem, for the
supervision of gpclient under the assumptions named above.

## Not modelled

* The shared utilities (`nm-shared-utils.c`, `nm-glib.h`, `nm-macros-internal.h`):
  string and integer helpers without state, of which the programs use one, to
  parse the log level. The legacy editor (`nm-openconnect-editor*.c`,
  `auth-helpers.c`) is not built. Of the browser helper and of
  `build_gpclient_env`, the environment they make for the desktop session.
* Data items that are only passed on, the environment of gpclient, log output.
* What gpclient does with a lock file it finds: that it refuses, and creates the
  file only if there is none, is assumed in TunSharing. Pids are not used again
  there, so the service never mistakes another process for a gpclient.
* The end of `gpauth --version`, which the dialog waits for without a time limit:
  it is assumed.
* Interrupts within a callback: a Unix signal to the service sets the loop's
  quit flag and has no effect before the callback returns, except in
  the time before the loop runs.
* libnm beyond what the plugin uses, and NetworkManager's own retries.

## Plan

1. *Done*: GpclientService, AuthDialog, Activation, ServiceHelper,
   EditorChoices, and the proofs above.
2. *Done*: `VpnSession` and `SignOn`, and GpclientService and AuthDialog shown to
   implement them, by TLC and by TLAPS.
3. *Done*: `TunSharing`, which of the service's guarantees survive a second
   service, and its proofs; `EditorPlugin`, the loader composed with the editor.
4. *Done*: the proofs about Activation, ServiceHelper, EditorChoices and
   EditorPlugin.
5. The seams that are only described under Modules: a summary of the hand-over
   (the service gets nothing, the whole configuration, or a failure) that
   ServiceHelper implements, with GpclientService's `HelperConfig` and
   `HelperFailure` as its steps.
