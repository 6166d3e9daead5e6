# lazyVPN in TLA+

lazyVPN is a Go program that connects a desktop to commercial WireGuard
providers. A background *connection daemon* owns the tunnel: it connects,
watches its health, reconnects and fails over. A dashboard (TUI), a command
line and a status bar talk to it over a Unix socket. The killswitch and the LAN
modes are UFW rules that all three change. This directory models the parts in
which several actors or several failures meet, checks them with TLC and proves
the most important facts with TLAPS. Source paths are relative to the
repository root; `PROJECT.json` maps each definition to its lines.

## 1. Inventory

| component | code | state it keeps | operations | meets whom |
|---|---|---|---|---|
| connection daemon | `internal/daemon/connection.go` | `state`, current and previous server, retry and bad-tick counters, health tracker, command queue, client map | `doConnect`, `doSwitch`, `doDisconnect`, `lightHealthTick`, `heavyHealthTick`, `attemptRecovery`, `attemptFailover` on one main goroutine | WireGuard, firewall, config, clients |
| sleep/wake listener | same file, 1451-1750 | none of its own; writes the daemon's | `prepareForSleep`, wake handler | races the main goroutine |
| clients and protocol | same file, `client.go`, `protocol.go` | socket connections, one goroutine each | attach, send, drop on a failed write, leave; `exitIfOrphaned` | TUI, status bar, CLI |
| start, stop and locking | `Run`, `cleanup`, `client.go`, `disconnect.go` | PID file, socket file | spawn, connect-or-spawn, `StopDaemon`, `stopConnectionDaemon` | several processes |
| connect and disconnect | `internal/wireguard/connect.go`, `disconnect.go`, `status.go` | kernel interface, routes, resolver, `LastConnectedServer` | `Connect` (six stages that may fail), `DisconnectWithCallback`, `ForceDisconnect`, `cleanupFailedConnection` | firewall, netlink, config |
| firewall | `internal/firewall/*.go` | UFW's ordered rules tagged by owner, default policy, enabled flag, "we enabled it" marker | `Enable`, `EnableSimple`, `Disable`, `Update`, LAN stealth/block/allow, `Reconcile`, `Teardown` | three processes, one UFW |
| config store | `internal/config/config.go` | `config.json`, in-memory copy per process | load, save (rename), `Reload`, `ReloadUserPrefs`, `SaveConnectionState` | three processes, no lock between them; two goroutines of the daemon |
| health score | `internal/daemon/health.go` | handshake, DNS failures, a ring buffer of pings | `record...`, `computeScore`, `reset` | the two ticks, the dashboard |
| providers, server lists, caches | `internal/config/provider.go`, `internal/provider/gluetun.go`, `internal/ui/providersetup.go`, `removeprovider.go` | credentials per provider, one file of all lists, one cache per provider | setup, fetch, filter, refresh, remove | goroutines of several views over the same files |
| layout and dashboard | `internal/ui/layout.go`, `dashboard.go`, `authprompt.go`, `footer.go` | the view shown, cached firewall switches, a busy flag, a password prompt, a daemon connection | toggles, ticks, messages of background commands | daemon, firewall, other views |
| connect and disconnect from the TUI | `internal/ui/progress.go`, `internal/daemon/client.go` | lines read, verdict | ask the daemon, or spawn one; read its events | daemon, other clients |
| server browser | `internal/ui/serverbrowser.go` | rows, filter, latencies, a question, measurements in flight | search, measure, connect, favourites | network, layout |
| install, update, uninstall | `cmd/lazyvpn/main.go` | what is on the system, what `config.json` records of it | some twenty steps each | daemon and TUI that run meanwhile |
| secure deletion | `internal/security/`, `cmd/lazyvpn/delete_ui.go` | events, options offered, files skipped | shred or unlink, retry, fall back, skip, summary | the user, journald |
| download of updates, leak test, latency, logging, notifications, sudo | `internal/update`, `tools`, `latency`, `logger`, `notify`, `sudo` | - | I/O | none |

How they interact. The TUI and the CLI send JSON commands; `handleClient` puts
them on `commandCh` (capacity 10, a full queue answers with an error), the main
loop's `select` takes them in competition with two tickers, `sigCh` and
`stopCh`. Events go back by `broadcastEvent`, which drops a client whose write
fails. The listener goroutine and the client goroutines share the daemon's
fields under `stateMu`, in sections so short that a handler is interrupted at
almost every one of its steps. `Connect` and `Disconnect` call the firewall
directly; so do the CLI and the dashboard, from other processes, and `ufwMu`
only serialises one process.

What is hard, and what must hold:

* **daemon**: retries, health ticks and failover all end in one function, with
  counters reset on some paths only. A lost tunnel must be resolved (traffic or
  an announced failure), the retry budget must bind, the reported server must be
  the one dialled, and what clients heard must agree with the state.
* **sleep/wake**: two critical sections on another goroutine, a ten-second wait
  between reading the state and acting on it. The daemon must settle and
  reconnect.
* **clients**: a daemon nobody watches must exit after a failed connect, a stop
  must end it, and nothing may be started after an announced disconnect.
* **killswitch**: no failure, cleanup or recovery may lower it; only the user,
  or auto-disable on the user's disconnect. (Where lazyVPN activated UFW itself the
  rollback of a refused update does: section 4.)
* **start/stop**: at most one daemon, and no process removes the files of a
  daemon that is alive.
* **config**: the daemon's read-modify-write must not undo a preference saved by
  another process, and the file must name the connection the daemon last had.
* **tunnel**: each of some twelve commands can fail or be the last before a
  crash, and the network changes meanwhile; a connect that succeeds must leave a
  whole tunnel, a teardown must leave nothing.
* **dashboard**: a message reaches whichever view is shown when it arrives. The
  display must follow the firewall in the end, no two commands may read one
  connection, and an operation refused for want of a password must be the one
  that runs after it.
* **operations from the TUI**: each must end, and none may be shown as a success
  that the daemon did not report.
* **install and uninstall**: what only `config.json` remembers must outlive what
  it remembers, whatever is interrupted; nothing may write the file afterwards.
* **lists**: one provider's failed download costs nothing, and a provider counted as
  deleted leaves nothing.

`PROJECT.json` lists the hazards with their lines and the properties that
cover them; those without a property say why.

## 2. Plan

| order | module | what it is | status |
|---|---|---|---|
| 1 | `Host` | interface, tunnel and killswitch as the daemon sees them; stages of Connect and Disconnect | done |
| 2 | `Daemon` (extends `Host`), `MCDaemon` | main goroutine, listener, clients, orphan watcher | done |
| 3 | `Daemon_proofs` | type correctness and five safety properties | done |
| 4 | `Firewall`, `Firewall_proofs` | ordered tagged rules; every operation as the sequence of UFW commands it runs, each of which may fail | done; two processes at once still to be checked |
| 5 | `Tunnel`, `Tunnel_proofs` | every command of Connect, Disconnect and ForceDisconnect on interface, routes, pins and resolver; refines `Host` | done |
| 6 | `DaemonLock`, `DaemonLock_proofs` | PID file and socket across processes | done |
| 7 | `ConfigStore`, `ConfigStore_proofs` | load, save and reload by several processes | done |
| 8 | `Health`, `RecentProbes` | tracker and score; the sliding window its ring buffer implements | done; proved in `Machine_proofs` |
| 9 | `Dashboard`, `ConnectFlow`, `Browser`, `Screens_proofs` | the TUI's messages, operations and late answers | done |
| 10 | `Deletion`, `Lifecycle`, `Catalog`, `Catalog_proofs`, `Machine_proofs` | a deletion step; install, update, uninstall; providers and lists | done |
| 11 | `MCMachine`, `MCScreens`, `MCSystem` | instances for 4 to 10; the type invariants of the first two are proved in `Machine_proofs` and `Screens_proofs` | done |
| 12 | `Killswitch` | abstract promise (sealed or open) that `Firewall` implements | open |

Abstract specifications still worth stating: the promise of the killswitch over
the rules that carry it (12), and the daemon's life as a client sees it (what
may follow what among the broadcast events; `ConnectFlow` assumes one). Every
invariant and every action property that a passing run checks is proved
(`SystemTypeOK` as its two parts); the theorems worth proving next are that `Firewall` implements `Killswitch` and that
`Daemon` broadcasts in the order `ConnectFlow` assumes.

Still open for `Firewall`: the run with `Serial = FALSE`. `ufwMu` is the lock of
one process (`killswitch.go:121` says it "protects all UFW operations to prevent
concurrent modifications"), and with dashboard and daemon at work together
`LanSurvives` does not hold. `NoClearnet` does, and is proved without `Serial`.

## 3. Modules

### Host

`link` is the WireGuard interface: `none`, `flowing`, `dead` (traffic stopped,
last handshake younger than three minutes, or no handshake yet), `stale`
(older), `cleared` (no peers). The split between `dead` and `stale` is there
because `IsConnected` (`internal/wireguard/status.go`) trusts a recent
handshake, or none on a fresh peer, and `Connect` takes the orderly or the
forced way down according to it. `tunnel` is the server the interface is
configured for, `ks` the killswitch. `ConnectNotLoaded`, `ConnectUnparsed`,
`ConnectNotCreated`, `ConnectUp`, `VerifyPasses`, `ConnectEnds` and `ConnectCleanup`
are the points at which `Connect` can end or be delayed; `Disconnect(reported)` is
`DisconnectWithCallback` with the killswitch flag its callback sees. The user,
other tools and the server act in the last section.

Of the killswitch this module knows whether it is up and, if so, whether a rebuild of
its rules that fails leaves it up. `firm` is the deny policy of a UFW that was active
before lazyVPN and tells its policy: the rollback of `enableLocked` puts deny back.
`loose` is every other one: lazyVPN activated UFW, so that the rollback ends in
`maybeRestoreUFW`, which may deactivate it, or the policy cannot be read at the
moment (`StatusWavers`). Connect rebuilds the rules before it dials, after it has
verified (the LAN block) and in its clean-up, and only logs that one failed; each of
the three leaves `ks` in `KsAfterRebuild`. This is the distinction between `SealKept`
and `SealAlwaysKept` of `Firewall`, seen from the daemon.

### Daemon

One variable for each field of `ConnectionDaemon` that decides anything, `main`
for the place of the main goroutine, `job` for the locals of the handler under
way, `sleeper` for the listener, `conns` for clients. A step is one critical
section of `stateMu` or `clientMu`, or one call that takes real time, so the
listener and the clients interleave at each of them. Critical sections with
nothing between them that another goroutine could tell apart are one step
(`Restore`, `BackInService`).

| code | actions |
|---|---|
| `RunWithConnect` | `Spawn` |
| `doConnect`, `doSwitch` | `HandleConnect`, `HandleSwitch`, `SwitchForced`, `DialStep`, `VerifyStep`, `ConnectSucceeds`, `BackInService`, `ConnectFails` |
| `doDisconnect` | `HandleDisconnect`, `DisconnectDone` |
| `lightHealthTick`, `checkScoreBasedRecovery` | `LightTick`, `LightCheck`, `JudgeOk`, `JudgeLow`, `ResumesFromFailed`, `StaysFailed` |
| `heavyHealthTick` | `HeavyTick`, `HeavyAnswered`, `HeavyUnanswered` |
| `attemptRecovery`, `attemptFailover` | `Recover`, `RecoverSucceeds`, `RecoverFails`, `FailoverTries`, `FailoverSucceeds`, `FailoverFails`, `FailoverExhausted` |
| `prepareForSleep`, wake handler | `SleepBegins`, `SleepClearsPeers`, `SleepMarks`; `WakeBegins`, `WakeTearsDown`, `WakePrimes`, `WakeSettles` |
| `handleClient`, `broadcastEvent`, `exitIfOrphaned` | `Attach`, `Send`, `Drop`, `Detach`, `LastGone`, `OrphanSample`, `OrphanExpires` |
| `mainLoop`'s `sigCh` and `stopCh` cases | `Terminate`, `ObserveStop` |

Abstractions. The composite health score is any value its samples allow (a
tracker just reset never scores low). Candidate tiers of failover are an
arbitrary order over the other servers. Settings are read from the file at the
moment of use, so each read takes any value of `KsPrefs`, `AutoRecoverPrefs` or
`AutoFailoverPrefs`. Unbounded counters stop at a cap the code cannot tell from
anything above (`UpTo`). One orphan watcher stands for all: a second one is
either followed from its start or ignored. `Disruptions` selects what the
surroundings do (suspends, SIGKILL, SIGTERM, killswitch toggles, removal of the
interface, another tool bringing it up).

### Firewall

`rules` is UFW's ordered list, each rule a match, a verb and the tag lazyVPN puts
in its comment; `policy` the default for outgoing traffic, `enabled` whether UFW
is active, `marker` the file that records that lazyVPN activated it. What UFW
does with them (`AddRule`, `Accepted`, `Named`: one rule per match, first match
wins, deletion by rule) is modelled from how `internal/firewall` relies on it
and marked external in `PROJECT.json`.

An operation is the sequence of commands it runs (`Script`), with its rollback
(`Rollback`); `task[p]` holds the operation under way in process `p`, the
commands still to come, the policy it read and the rules it is deleting. A step
is one command, which takes effect or fails (`WriteFails`). A `strict` command
is one whose error the code returns; the others are logged and passed over.

| code | definitions |
|---|---|
| `enableLocked`, `EnableSimple`, `Update` | `SealRules`, `KsRules`, `DoSavePolicy`, `DoStopUnlessDeny`, `DoRefuse` |
| `Disable` | `Script`, `DoReassert` |
| `EnableLANStealth`, `EnableLANBlock` | `LanLayer`, `LanRules` |
| `reconcileLocked`, `DisableIPv6`, `EnableIPv6`, `Teardown` | `Rebuild`, `V6Rules`, `TearAll` |
| `addRule`, `deleteRulesByTag`, `ensureUFWEnabled`, `maybeRestoreUFW` | `DoAdd`, `DoClear`, `DoDelete`, `DoActivate`, `DoRelease` |
| `Connect`, `cleanupFailedConnection`, `DisconnectWithCallback` | the actions of `Daemon` (inside this module) |
| `runKillswitch`, the dashboard's toggles, first install, uninstall | `User` |

Abstractions. IPv4 only; the six private ranges are one match, and so are a
resolver's UDP and TCP rule. Traffic is three packets: to the internet and to
the LAN on the physical interface, and a query to a server's resolver. `IfOn`
assumes that the caller's own look at the killswitch succeeds. The installer
only runs on an empty ruleset. The kernel side of IPv6 protection, logging
levels, and `DisableLANBlock` and `DisableLANStealth` (which only the
uninstaller calls, right before `Teardown` repeats them) are left out.

### Tunnel

The interface, the peer's endpoint, the two split routes, which link answers
DNS, and the host routes that pin endpoints to the physical gateway. An operation
is the list of commands it runs (`ConnectScript`, `TeardownScript`), `todo[a]`
what goroutine `a` has left of it, `job[a]` its locals. A command takes effect or
fails; a failing one sends a Connect into `EarlyFailure` or `LateFailure`, and is
passed over in a teardown. Resolver and host route are different: Connect does not
look whether the old host route went or the new one came (`configureRoutes`; for an
endpoint given by hostname neither does), and `configureDNS` succeeds where there is
no resolver to configure and where the physical interface was not demoted.
`Arranges` lets each of the four go missing (`Unsaid`), and `job[a].missed` remembers
which did. The sleep/wake goroutine runs `StartForce` beside the
main one, the process may die between any two commands (`TunnelCrash`), the
network may change (`Roam`), with or without its old routes.

| code | definitions |
|---|---|
| `Connect` (`connect.go`) | `ConnectScript`, `Existing`, `Create`, `Configure`, `RaiseLink`, `Arranges` (`SetDns`, `Pin`), `AddSplit`, `Verify` |
| `cleanupFailedConnection` and the early returns | `LateFailure`, `EarlyFailure` |
| `DisconnectWithCallback`, `ForceDisconnect` | `TeardownScript`, `Capture`, `RevertDns`, `DropSplit`, `DropPin`, `Delete` |
| `internal/netlink` | what each command leaves of the machine |

`job[a].clean` is a history variable: the operation began alone and neither
another goroutine, nor the network, nor a failing clean-up command has interfered,
and a teardown found a peer to read the endpoint from. So `TeardownRestores` is not
about the forced teardown after a suspend, nor about one that was killed; what those
leave, `ConnectRepairs` says the next Connect puts right. `DropSplit` removes both
routes or neither: the interface goes next, and its routes with it.
`RefinesHost` shows that all this, crashes and interleavings included, looks to
`Host` like its atomic steps: `ConnectUp` only where no tunnel is, no change of
server while it lives, `LinkRemoved` at once. Firewall and IPv6 are left out here.

### DaemonLock

`pidFile` and `socket` name the process whose file is there, `written` whether
the PID is in it yet; a step is one file operation, and a file is removed by
name, whoever created it. `CreatePid` to `Chmod` are `Run` up to its main loop,
`CloseListener` to `RemovePid` are `cleanup`, `ReadPid` to `UnlinkSocket` are
`StopDaemon` and `stopConnectionDaemon`, `ForceKill` and `StopTimesOut` what their
waits end in. `calm` is a rigid assumption: the user waits for one start or stop
before the next. Each process starts once; the names `Pids` are not reused.

### ConfigStore

`config.json`, three groups of fields (`server`: `LastConnectedServer` and what it
offers; `session`; `pref`: everything the user sets), a copy per process. Each
daemon goroutine is inside `SaveConnectionState` (`SaveLoads`, `SaveRenames`,
`SaveFails`), `Reload` or `ReloadUserPrefs` (`ReloadLoads`, `ReloadSwaps`) or
outside; users' programs read (`UserReloads`), learn of the server by an event
(`UserIsTold`) and save everything (`UserSaves`). The file may be missing, broken
or hold junk. `truth` is the connection the daemon last had, `foul` says which
of the file and the daemon's copy may hold connection fields that are not the
daemon's last (another process saved its own, a save failed, the file was edited, a
Reload overlapped a save), which is the exception of `FileFollowsDaemon`; a daemon
that dies in the middle of a save leaves `truth` to what the file says. What a save
of another process loses between the daemon's read and its rename is excluded from
`DaemonKeepsPrefs`: the code has no lock over it.

### Health and RecentProbes

`Health` is the tracker with its ring buffer and the four scores in integer
arithmetic (`math.Round` of a quotient is `Rounded`). `RecentProbes` is what the
buffer is for, a sliding window; `RefinesRecent` is the refinement, with the ring
unrolled from the index (`RecentPings`). The handshake's age is in minutes.

### Dashboard

`dash` holds the fields of `Dashboard`, `screen` what the layout shows. Work done by
a `tea.Cmd` is in `ops` (rebuilds) or `readers` (readers of a daemon
connection); its answer is in `mail`, a set, since commands finish in any order.
`Deliver` is `Layout.Update`, then `Dashboard.Update`: `Lost` for a message that
finds another view or an open prompt, `Gets...` for the rest. `OpRuns` is
`reconcileFirewallCmd`, `StatusUpdate` the footer's tick, `ReconcileTick` the
dashboard's own. `settled` is the assumption of the liveness property, never read by
the code's actions except to stop the user. The cached LAN mode has three positions,
the others two.

### ConnectFlow

One connect or disconnect from `progress.go`, in the goroutine that `startConnect` or
`startDisconnect` starts. `flow.at` is its place: `begin` (is there a daemon, can it be
dialled), `send` (`RequestSwitch`, `RequestDisconnect`), `spawn` and `attach`
(`SpawnAndConnect`), `listen` and `listenSpawned` (the two event loops, which differ),
`erring` (the error line a connect ends with), `force` (`ForceDisconnect` where no
daemon answered), `closed` (the channel of lines is closed). A dial that fails goes on
to spawn a daemon, a command that cannot be sent is an error. `stream` holds the
events its connection has still to deliver, `view` what is shown.

Lines reach the view through a channel of `Buffer` (20 in the code) by a send that does
not wait: `flow.held` counts what is in it, `Shows` takes one out, `Written` drops the
line when it is full. The verdict is the code's own, the absence of an error line
among those that got through; `flow.lost` remembers that an error's did not. When the
daemon's queue is full it answers a command with an error (`flow.refused`).

The daemon is here what its socket shows: `DaemonTakes`, `DaemonEnds`,
`DaemonReports`, `DaemonGivesUp`, `DaemonExits` are the events that `Daemon`
broadcasts, with the order it broadcasts them in; other clients send commands too. A
password prompt (`UserAnswers`), a user who leaves (`UserLeaves`), a daemon that dies
between the look and the dial, and a refused spawn are steps.

### Browser

The list and its filters as sets, what takes the keys (`phase`), the question under
the list, and `results`, the answers of commands on their way. These form a set:
two equal answers on their way at once count as one. An answer lands on the browser
shown when it arrives (`TakeLoad`, `TakeLatencies`, `TakeQuickest`,
`TakeAuthNeeded`). `asked` counts connects asked for whose view has not appeared.
Wording, sorting and layout of rows are left out.

### Deletion

One step of the uninstaller that deletes files: `Attempts` tries a file with the
tool of the round and records an event, a tool that was killed may have done its
work; `RoundEnds`, then the menu (`Retry`, `FallBackToRm`, `SkipRest`), each way out
offered once. `Kind` is what the summary says of a file. For systemd's journals
`journald` is stopped first and started after the first round.

### Lifecycle

`there` is what of lazyVPN is on the system, `records` what `config.json` says of
it, `script` the installer or uninstaller with its step and its own copy of the
file. `InstallSteps` and `UninstallSteps` are the orders of `main.go`; each step
has its action, which does its work, fails with a warning or is declined
(`Mostly`, `Drops`), or leaves what it should remove and says nothing (`Leaves`):
`firewall.Teardown` only logs rules it could not delete and a UFW it could not turn
off, so the uninstaller prints a success over them; files of the user's own that cannot
be read and directories without files are passed over; whether the configuration
directory went is not looked at.

`records` may also be `Broken`, a file that does not parse (`ConfigBreaks`): the
installer then starts from the defaults and saves them, the uninstaller and the TUI
go by the defaults without a word, a daemon does not start over it, and one that runs
writes its own copy (`Loaded`, `FilePatched`). The daemon and a TUI run beside the
scripts and save the file in their ways (`DaemonPatches`, `DaemonLeaves`, `TUISaves`),
each from the copy it last read (`held`, `tui.knows`; `DaemonReloads`, `TUIReloads`).
`past` is history: what the user was told remains, whether the uninstall ran alone,
what an installer recorded, and what of it a TUI saved over with an older copy or a
broken file took along (`lost`).

### Catalog

Credentials, `servers_raw.json` and one cache per provider; the wizard's fetch, the
refresh of the settings view and a removal run at once, and each holds what it read
when it began (`seed`, `todo`, `doomed`). A list is the edition that was published. A
fetch that cannot read the raw file when it starts goes on with no lists at all
(`StartsFetch`). A deletion is four steps, each of which may fail: the credentials,
the provider's own list, a look at the providers left and, with none, the raw file
(`RemoveConf`, `RemoveLists`, `LookForOthers`, `RemoveRawLists`); a list that cannot be
deleted ends it with an error after the credentials are gone, and the provider, no
longer offered for removal, is not counted as removed (`kept`). `current` and `excused`
are history: the fetch knows what the raw file holds; a provider was deleted while a
fetch worked for it.

### MCMachine, MCScreens and MCSystem

These components have no variable in common: they meet through the daemon or
through files that another module models. So each of the three instances starts in one
component, `part`, and moves that one only. Their states add up instead of
multiplying, and one run answers for five, four or two components. `MCSystem` holds
`Firewall` and `Lifecycle`, whose behaviours are long and narrow.

## 4. Runs

| run | question | bounds |
|---|---|---|
| `daemon_recovery` | Do budget, reported server, killswitch and resolution of a lost tunnel survive retries, failover, crashes, SIGTERM, removals and toggles? | 2 servers, 2 retries, 2 bad ticks, all settings, no clients |
| `daemon_sleep` | Does the daemon settle and reconnect when suspends and wakes hit any point of a handler? | 1 server, 1 retry, 2 bad ticks |
| `daemon_clients` | Is the right server remembered, are clients told the truth, does a forsaken or stopped daemon exit? | 1 server, 1 client, queue of 1, 1 sample |
| `firewall` | Whatever command fails, does the killswitch stay closed, a chosen LAN mode open, and one mode at a time in force? And do install and uninstall keep their promises, whatever fails, is declined or runs beside them? | 2 servers, one named by hostname; modes Stealth and Block; a default route present; 1 failure; operations one after the other; 1 trouble |
| `machine` | Do the tunnel's commands, `config.json`, the health score, a deletion and the server lists keep their promises, whatever fails, crashes or runs beside them? | 2 endpoints, 2 gateways; 1 server, 1 user process, 2 preferences; a window of 4 pings, 3 latencies, 8 minutes, 4 DNS failures; 2 files; 2 providers, 2 editions, 2 fetches |
| `screens` | Do PID file and socket keep the daemon single, does the dashboard's display follow the firewall, does each operation end with a true verdict, does a browser connect once? | 2 processes, 1 stopping command; 1 switch, 2 connections, 1 rebuild, 1 tick, 1 message; queue of 2, channel of 2 lines, 1 report unread, 2 foreign commands; 2 servers, one of them broken, 2 answers |
| `dashboard_busy` | a statement of `dashboard.go` that the layout does not keep | smallest instance |
| `firewall_seal`, `firewall_dns` | two statements of the repository about the firewall that the code does not keep | smallest instance, no failures |
| `daemon_suspended`, `daemon_ks_drop`, `daemon_last` | three statements of the repository that the code does not keep | smallest instance |

Two servers are needed for failover to have somewhere to go and for the
reported server to be wrong; with two retries and two bad ticks a counter can be
at, below and above its limit. `daemon_clients` needs one client only: its
properties are about whether *any* client is attached, and a second one adds no
new order of attach, sample and leave around the watcher. A queue of one is
enough for a command to be waiting when `stopCh` closes; the empty server name
already differs from the only server, which is what `SwitchBackTarget` needs;
the theorems below drop these bounds. In the runs of `Daemon` and `Firewall`
`CHECK_DEADLOCK` stays on; in `machine`, `screens` and `dashboard_busy` it is off,
because there a component really may stop: an operation that is over, a deletion
that is done, processes that have each run once.

In `firewall` two servers let a Connect replace the rules of another server and
one of them makes `enableLocked` refuse its endpoint, so that an update ends in
its rollback without any failure; one failure puts every prefix of every script
in front of every rollback (920,953 of the run's 991,127 distinct states). Stealth
and Block are the modes whose rules overlap with the killswitch's; `allow` adds
the LAN rule alone, which `firewall_seal` and the theorems cover. IPv6
toggles are off in this run (`Calls`): their scripts end in the same rebuild.
Three faults are left out of it, `delete`, `show` and `verbose`: a rule that
could not be deleted or listed keeps its place in front of the ones added next,
with which `LanSurvives` and `OneLanMode` do not hold and are promised by no
document; a failing `verbose` has its own limit (section 6). With one trouble every
single step of install and uninstall is once declined, failing or interrupted, or a
TUI or a new daemon comes beside a script, or the file breaks.

In `machine` (962,353 distinct states) two endpoints and two gateways let a host
route be that of another server or of an earlier network; two providers let one
download fail beside one that succeeds, and one of them be the last that is
removed; two fetches overlap, and with two editions one can set a list of the other
back. Twenty slots in the buffer of pings wrap like
four, and 50, 200 and 600 ms fall in three branches of `LatencyScore`; eight
minutes and four DNS failures lie beyond the last branch of the others. Endpoints,
gateways and providers are symmetric. In `screens` (310,999) two processes are
enough for one to remove the file of the other, two connections for a message of
an earlier one, one message under way for it to arrive after the view has changed,
and a queue of two for a foreign command before or after the flow's own; two foreign
commands fill it, and the flow's own is then refused. A channel of two lines drops the
third, which may be the error's; with room for more than the four or five lines of an
operation nothing would ever be dropped.

What the runs show. *Holds*: `RetryBudget`, `TunnelIsCurrent`,
`SwitchBackTarget`, `HeardAgrees`, `KillswitchHeld`, `TunnelLossResolved`,
`SettlesAfterSleep`, `WakeReconnects`, `NoZombie`, `ExitsWhenAsked`; of the
firewall, `SealKept`, `LanSurvives`, `OneLanMode`. Of the installation, in `firewall`:

* `ConfigStaysGone`, `NothingLeftUntold`: after an uninstall that was alone nothing
  writes `config.json` again, and of credentials, keys, privileges, the daemon's files
  and the binary nothing is left that the user was not told of. Firewall rules, the
  user's own files, empty directories and a tunnel the user keeps are not among them
  (`Unheeded`): those the uninstaller may leave without a word.
* `RecordOutlivesSudoers`: no interruption loses the record of the sudoers file; a
  TUI's stale copy or a broken file does (`past.lost`).

In `machine`:

* `ConnectRepairs`, `TeardownRestores`, `RefinesHost`: an undisturbed Connect leaves
  interface, peer and split routes of the tunnel it was asked for, and resolver,
  demotion and host route but for what it was refused and passed over; an undisturbed
  teardown leaves nothing, over whatever crashes, roaming and suspends had left; and
  `Tunnel` implements the steps of `Host`.
* `DaemonKeepsPrefs`, `FileFollowsDaemon`: the daemon's read-modify-write of
  `config.json` loses no preference, and the file follows the connection.
* `RefinesRecent`, `WorseNeverLooksBetter`: the ring is a sliding window, and bad
  news never raises the score.
* `SummaryIsHonest`: a deletion's summary says what became of each file.
* `RefreshKeepsLists`, `NoOrphanList`: a failed download costs no list, unless the
  fetch could not read the file it overlays or was overtaken; a provider counted as
  deleted leaves none, unless a fetch was working for it.

In `screens`:

* `OneDaemonWhenCalm`, `ExitLeavesNothing`, `StaleFilesNeverBlock`: one daemon at a
  time, no files after an orderly exit, none that keep the next daemon from
  starting after a crash.
* `DisplayConverges`, `OneReaderPerConnection`, `PromptHasItsOp`: the display is the
  firewall's in the end, whatever message was lost or late; no two readers on one
  connection; a prompt always with the operation it is for.
* `SuccessHasGround`, `FlowEnds`: no success the daemon did not report, unless the
  line of an error was dropped by the full channel; and an end to every operation but
  a disconnect that a full queue refused, which waits for an event that never comes
  while health reports renew its deadline (`WaitForDisconnect`). Without either
  exception TLC finds the counterexample.
* `OneConnectPerBrowser`.

*Does not hold*, with a counterexample each:

* `SuspendedStaysUnhealthy`: a light tick whose score was computed before the
  suspend puts the daemon back to connected over an interface without peers.
* `KillswitchSurvivesDrop`: recovery of a dropped tunnel goes through the
  orderly disconnect inside `Connect`, so auto-disable lowers the killswitch.
* `DisconnectIsLast`: after `stopCh` is closed, `select` may first take a
  queued command and connect again.
* `SealAlwaysKept`: the rollback of `enableLocked` restores the deny policy and
  then lets `maybeRestoreUFW` deactivate UFW, if lazyVPN had activated it and no
  other rule of lazyVPN is left. `SealKept` is the same statement for a UFW that
  was the user's own.
* `BusyOnlyWhileApplying`: a sub-view opened during a rebuild gets its result; the
  dashboard that comes back is busy for ever and ignores its firewall keys.
* `BlockKeepsDns`: Connect's update moves the resolver's allow, which Block
  shares with the killswitch, behind Block's deny.

Limits met while modelling, kept in the statements: `KillswitchHeld` is about a firm
killswitch only, for the reason of `SealAlwaysKept`; `RetryBudget` and
`HeardAgrees` exclude suspends (`SleepMarks` in the middle of a recovery hands it
one more attempt; `WakeSettles` broadcasts nothing), and `TunnelLossResolved`
assumes that nobody removes the interface for ever, because a public IP that
changed by itself passes for a working tunnel. `OneDaemon` itself does not hold: a
start that has found a stale PID file removes it by name when another start has
already replaced it, and a stop may remove the files of the next daemon; hence
`calm`, with which `OneDaemonWhenCalm` says nothing of such overlaps, nor
`ExitLeavesNothing` of a daemon that is killed. Two fetches at once lose each
other's lists, and a provider deleted during its fetch gets its cache back
(`RefreshKeepsLists`, `NoOrphanList`). When the last answered ping leaves the window,
its latency counts as a perfect one (`WorseNeverLooksBetter`). A toggle writes all switches from the dashboard's cache
and so undoes one changed elsewhere since; the display still converges, to the
result. Seen and not checked: the error of an earlier wizard's fetch, arriving
late, zeroes the keys of the wizard shown (`providersetup.go:279`), removal of
providers asks the TUI's copy of `LastConnectedServer` (`removeprovider.go:153`),
and the key of a row omits its provider
(`serverbrowser.go:971`).

## 5. Fairness

`Handling`: a handler runs to its end; each call in it has a timeout. The
listener's and watcher's continuations are weakly fair: a goroutine that can run
will. The cases of the main loop's `select` are strongly fair, because Go picks
uniformly among the ready ones and a ticker is ready again and again: commands,
the two ticks, the signal, `stopCh`. Nothing is assumed of users, clients that
have not been dropped, the server, the machine's suspends, or the choice among
outcomes of a call. `daemon_clients` assumes only the lifetime part (no ticker,
no command). `Firewall` states safety only and assumes no fairness.

`LockFairness`: a started process runs on, a stopping command too, and a daemon that
was told to go (`told`: a signal or a request its main loop selects on) goes; it
does not assume that anyone starts or stops one. `DashboardFairness`: the footer's
tick comes every second, a command that runs ends, and the runtime delivers every
message, one weak fairness per kind of message and connection; no key is ever
assumed, nor a daemon that answers. `FlowFairness`: the operation's goroutine and
its view run (every read has a deadline, so `LosesDaemon` is always open to it), a daemon
that is there takes its commands, and a Connect ends by its timeouts. In `screens` the three
are assumed together: no component has a fair action enabled where it starts, so
the fairness of one constrains no behaviour of another. `machine` is safety only.

## 6. Proofs

### The daemon

`Daemon_proofs` proves, for every set of servers and clients, every limit and
(except where noted) every set of disruptions:

| theorem | statement | argument |
|---|---|---|
| `TypeCorrect` | `Spec => []TypeOK` | one step per action; the caps of `UpTo` and of the queue |
| `TunnelIsCurrentAlways` | `Spec => []TunnelIsCurrent`, no other tool raising the interface | `TunnelInv`: a tunnel is the job's target while a Connect is past its dial, the current server otherwise, and a recovery's target is the current server |
| `SwitchBackTargetAlways` | `Spec => []SwitchBackTarget` | `SwitchInv`: in a switch, and after it failed, the previous server equals the current one, because only a success changes the latter |
| `RetryBudgetAlways` | `Spec => []RetryBudget`, no suspends | `BudgetInv`: the count is strictly below the limit wherever a retry may start, and equals the attempt number while one runs |
| `HeardAgreesAlways` | `Spec => []HeardAgrees`, no suspends | `HeardInv`: agreement at every point of the main goroutine, not only at rest |
| `KillswitchIsHeld` | `Spec => KillswitchHeld`, a firm killswitch | only `Disconnect`, the stages of Connect and `FastTeardown` write `ks`, through `KsAfterDisconnect` and `KsAfterRebuild`, and neither opens a firm one without auto-disable |

None of the daemon's five invariants is inductive as stated: each says something only
when the main loop is at rest, and has to be extended over the inside of the
handlers. The assumptions are the named ones of `Host` and `Daemon`
(`NoServerAssumption`, `KsPrefsAssumption`, `LimitsAssumption`,
`PrefsAssumption`, `DisruptionsAssumption`), which TLC evaluates in every run,
and the hypothesis on `Disruptions` written in the theorem.

### The firewall

`Firewall_proofs`, for every set of servers, hostnames, modes and calls, any number
of failures and any ruleset they lead to:

| theorem | statement | argument |
|---|---|---|
| `FirewallTypeCorrect` | `Spec => []FirewallTypeOK` | `TypeInv`: every script and rollback is a sequence of commands (`ScriptSafe`, `RollbackSafe`), built from its parts by concatenation |
| `NoClearnetAlways` | `Spec => []NoClearnet`, two processes interleaved, all faults | `TypeInv` also says that no rule, and no command to come, admits the physical interface; with a deny policy first match then cannot |
| `SealKeptAlways` | `Spec => SealKept`, if operations do not overlap (`Serial`) and the two reads of UFW's state do not fail (`ReadsSucceed`) | `SealInv`, below |
| `OneLanModeAlways` | `Spec => []OneLanMode`, if operations do not overlap and rules can be listed and deleted (`DeletionsSucceed`) | `LanInv`, below |
| `LanSurvivesAlways` | `Spec => []LanSurvives`, under the same two hypotheses | `LanInv`, below |

`NoClearnet` is a property no run checks, because TLC could only repeat the proof
on fewer rules. `SealKept` needs to know what the commands *to come* may do to the
policy. `SealInv` says so for each operation: an enable or update has either not
read the policy yet, or what it read is the policy of the user's UFW and it will
set the policy only by its last command, to deny, or it is in a rollback that puts
back what was read; a rebuild with the killswitch on only ever sets deny; a LAN
layer never sets the policy. Both hypotheses are needed. If the policy cannot be
read, the rollback takes it for open and a second failure opens the killswitch
(`killswitch.go:158`); with two processes, the policy read may be that of before
the other one's enable. The commands that may fail are then `add`, `delete`,
`policy`, `activate`, `release` and `show`, and there may be any number of failures,
where the run allows one.

`LanSurvives` and `OneLanMode` speak of UFW between operations, when the scripts
have been carried out or have broken off anywhere. `LanInv` follows them through.
`Arranged` is what the list of rules is at every moment: one rule per match, the
rules of one mode at most, and a rule that admits the LAN in front of the one that
rejects what leaves on the physical interface (`AdmitFirst`; the killswitch's rule
for that match is never an allow, which `TypeInv` says). `Orderly` is what the
commands to come must be for it to stay so: before a command that adds a rule, the
tags in conflict with it (the other modes; the killswitch's, if it admits the LAN)
are without rules or cleared by an earlier command, and not added in between. That
holds of every script and every rollback (`Script`, `Rollback`), of what is left of
one after any command, and, since rules that must be gone are known by tag
(`Gone`), after the rules of a tag have been listed and only some of them deleted.
Neither hypothesis can be dropped: a reject that could not be deleted keeps its
place in front (`reconcile.go:73`), and two processes interleave their deletions
and additions (`killswitch.go:121`). Every other command may fail, any number of
times; Allow and the toggles of IPv6, which the run leaves out, are included.

### The other components

The other proof modules speak of a component by itself, `Init /\ [][Next]_vars`
without fairness, for every value of its constants:

| theorem | statement | argument |
|---|---|---|
| `TunnelTypeCorrect` | `TunnelTypeOK` | one step per command, failed or not |
| `TunnelRefinesHost` | `RefinesHost`, crashes and two goroutines included | `TunnelInv`, below |
| `LockTypeCorrect` | `LockTypeOK` | one step per file operation |
| `ExitLeavesNothingAlways` | `ExitLeavesNothing`, calm or not | `ExitInv`: past `CloseListener` the socket is not the process's own |
| `OneDaemonWhenCalmAlways` | `OneDaemonWhenCalm` | `CalmInv`: a process past the PID file is the one it names, one process starts at a time, and while one is being stopped no other is there |
| `OneConnectPerBrowserAlways` | `OneConnectPerBrowser` | `GuardInv`: a connect asked for holds the guard |
| `SuccessHasGroundAlways` | `SuccessHasGround` | `VerdictInv`: a failure the flow read is among the lines as an error, or its line was lost, and a connect that ended without one has read that the daemon is connected |
| `PromptHasItsOpAlways` | `PromptHasItsOp`, if no switch is called "none" | `PromptInv`: no rebuild, and no result of one, is the empty operation |
| `OneReaderPerConnectionAlways` | `OneReaderPerConnection` | `ReaderInv`: a connection has a reader, or one message on its way, or neither |
| `DaemonKeepsPrefsAlways` | `DaemonKeepsPrefs` | `PatchInv`: at most one goroutine has read the file and not yet written it, and what it read is what the file says unless it knows better |
| `FileFollowsDaemonAlways` | `FileFollowsDaemon` | `FollowInv`: the daemon's copy, and what an undisturbed `Reload` read, name the connection too |
| `NoOrphanListAlways` | `NoOrphanList` | `OrphanInv`: what a fetch still has to filter is configured or was deleted under it, and only the provider being erased has a list without credentials besides those whose deletion failed |
| `RefreshKeepsListsAlways` | `RefreshKeepsLists` | `SeedInv`: a fetch that read the raw file and that nobody overtook holds its lists, and none is newer than what is published |
| `ConnectIsWhole`, `TeardownIsClean` | `ConnectRepairs`, `TeardownRestores` | `ProgressInv`, below |
| `ConfigRemainsGone`, `LeavesAreTold` | `ConfigStaysGone`, `NothingLeftUntold` | `SweepInv`, below |
| `SudoersStaysOnRecord` | `RecordOutlivesSudoers` | `RecordInv`, below |
| `SummaryTellsTheTruth` | `SummaryIsHonest` | `TriesInv`: a file called deleted is in the state the tool leaves it in, and past the round every file has been tried and has a latest try |
| `TrackerRefinesRecent` | `RefinesRecent` | `HealthShape`, below |
| `WorseIsWorse` | `WorseNeverLooksBetter` | each of the four scores falls with its sample, rounding included, and an unanswered ping keeps the last latency while an answer is left in the window |
| `ConfigTypeCorrect`, `CatalogTypeCorrect`, `LifecycleTypeCorrect`, `DeletionTypeCorrect`, `HealthTypeCorrect` | the components' type invariants | `ConfigShape`, `CatalogShape`, `LifecycleShape`, `DeletionShape`, `HealthShape` |
| `BrowserTypeCorrect`, `DashboardTypeCorrect`, `FlowTypeCorrect` | the same of the views | `BrowserShape`; `DashTyped` with `ReaderInv`; `QueueShape`, below |
| `MachineTypeCorrect`, `ScreensTypeCorrect` | `MachineTypeOK`, `ScreensTypeOK`, of the two instances that hold several components | the parts' invariants, each kept by its own part's steps and by those that leave it alone |

`Tunnel` needs its scripts to be understood to be proved: `StepInv` says that in
what is left of any script a configuration directly follows the creation of the
interface and the raising directly follows the configuration, and that the
sleep/wake goroutine does none of them; `DeviceInv` then says what the interface
is when the main goroutine is about to do one. That is why a tunnel comes up only
where none is, even when the other goroutine deletes the interface in between.
`FileFollowsDaemon` is not inductive because a `Reload` writes back what it read
before it took the lock: `FollowInv` needs to know that what it read is still true.

What a Connect leaves is a property of its end, and each of its commands brings
about one part of it. `ProgressInv` tells, from the next two commands of an operation
that began alone and has not been disturbed, which parts are already there
(`Connecting`: the interface is new once the configuration is past, and so on;
`CleaningUp` and `TearingDown` the same for the two ways down). `Linked` says that two
neighbours in a script determine the place (a command may occur in several scripts,
or twice in one), and `AloneInv` that an undisturbed operation is the only one. No
assumption is made on what an earlier crash, failure or move to another network left.

An uninstall is twenty-one steps beside which a daemon and a TUI may save
`config.json`, and each step may fail with a warning. `SweepInv` says that for every
step that is over (`Over`) what it is there to remove is gone, or told, or of the
kinds it cannot know of or leaves unheeded (`Accounted`), and that after the step that stops the daemon
no one is left to write. `RecordInv` is about interruptions, which start the next
script from what `config.json` says, and about saves from older copies: whatever was
ever recorded and is still there is recorded now, or was told, or a TUI's save or a
broken file lost it.

In `HealthShape` the index lies within the buffer and, until the buffer is full, is
the count; with the lemmas on the index taken modulo the window, writing one slot is
appending at one end of the sequence and dropping at the other, for every
`PingWindow`, which TLC can only show for a small one.

`FlowTypeCorrect` bounds the events that an operation's connection has yet to
deliver. `MaxStream` caps only the reports the daemon makes of its own accord; the
answers to commands come on top. `QueueShape` says that the events unread and those
owed (`Owed`: two for a command queued, one for the one the daemon is working on, two
for each that other clients or the flow itself may still send) are never more than
`MaxStream + 2 * MaxOthers + 4`.

The hypotheses are the named assumptions of the modules and the one written with
`PromptHasItsOpAlways`.

### What is not proved

Only model-checked are the properties that hold under fairness,
`TunnelLossResolved`, `SettlesAfterSleep`, `WakeReconnects`, `NoZombie`,
`ExitsWhenAsked`, `StaleFilesNeverBlock`, `DisplayConverges` and `FlowEnds`:
TLAPS has no rule for `ENABLED`, on which weak and strong fairness rest. The six
violations are counterexamples and need no proof. What the theorems say of
`Firewall` with overlapping operations is `FirewallTypeCorrect` and `NoClearnet`;
the rest is not true there.

## 7. Not modelled

Parsing (WireGuard files, provider lists, sort and filter orders), HTTP downloads,
rendering, the settings view and the small views (rename, DNS providers, manual
adding and removing of `.conf` files), the filtering of shell histories and of
file-system snapshots by the uninstaller, the output for the status bar, latency and
leak measurements, logging, notification and the `sudo` plumbing: they have no
protocol between actors, or none beyond the save of `config.json` that `ConfigStore`
has. The netlink layer is what `Tunnel` does with it; the client's waits are in
`DaemonLock` and `ConnectFlow`.

The components of `machine`, `screens` and `firewall` are put side by side, not composed: no
state of one is read by another. `Daemon` and `Firewall` are not composed either: in
`Host` the killswitch is `ks`, and an operation on it takes effect, leaves it alone or,
where it is loose, may open it, which is what `Killswitch` is to justify. `Tunnel` implements the
steps of `Host` on the interface, not those on the killswitch.
