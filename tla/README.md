# conwatch: TLA+ models, model checking and proofs

conwatch watches the network interfaces of a Linux desktop. A daemon, the
*watcher*, reads a configuration file, which it writes if there is none, listens
to the kernel's link notifications and keeps one child process, `conwatch-tray`,
for every interface that is operationally up and let through by the
configuration. A *tray* pings a target once per second over its interface, by
IPv4 and IPv6, and shows the outcome as an icon and a tooltip.

This directory holds TLA+ modules translated from the source, TLC
configurations that check them on small instances, and TLAPS proofs for every
value of the constants. Line numbers below are of the source tree under `src/`
(the repository root); `PROJECT.json` maps every definition to its lines.

    tlc -workers 2 -config watcher_safety.cfg MCWatcher     # a run
    tlapm WatcherProofs.tla                                  # a proof module

## 1. Inventory

### 1.1 The parts of the system

| Part | Source | State it keeps | Operations |
|---|---|---|---|
| Watcher daemon | `src/watcher/watcher.cpp`, `watcher_iface_state.cpp`, `main.cpp` | `m_ifaces` (name and up/down last seen, per ifindex), `m_shouldExit`, the signalfd | `run`, `poll`, `handleSignals`, `onChange`, `onRemoved`, `startIfEligible` |
| Netlink socket | `src/watcher/netlink.cpp` | the socket; the kernel's queue behind it | `open`, `requestDump`, `processPendingMessages`, `handleMessage` |
| Process manager | `src/watcher/process_manager.cpp` | `m_byIfindex`, `m_ifindexByPid`; the kernel's process table | `start`, `stop`, `reapExited`, `stopAll`, `isRunning` |
| Configuration | `src/watcher/config_load.cpp`, `config_resolve.cpp` | none after the load | `load`, `isEligible`, the resolvers |
| Start-up, configuration file | `src/watcher/main.cpp`, `config.cpp` | `config.yaml`, a temporary file beside it | `ensureExists`, `writeDefaultConfig` |
| Ping monitor (tray) | `src/conwatch-tray/main.cpp`, `ping_monitor*.cpp` | two `ProtoTrack`s, `m_lastTickState`, current icon and tooltip | construction, `tick`, `checkGateway4/6`, `renderTray`, Quit |
| Raw ICMP sockets | `ping_monitor_socket4.cpp`, `ping_monitor_socket6.cpp` | one socket per protocol, its receive buffer | `openSocket`, `sendPing`, `recvReply` |
| Display rules | `ping_monitor_status_text.cpp`, `ping_monitor_tick.cpp` | none | `stateOf`, `severityOf`, `worstSeverityOf`, `glyphFor`, status text |
| Icon painting | `ping_monitor_icon.cpp` | a cache of painted icons | `setIcon`, `iconFor` |
| Gateway resolver and override | `src/shared/gateway_*.cpp` | none | `resolve`, `GatewayOverride` |
| Target resolver | `src/shared/target_resolve.cpp` | none | `resolve` |

The build files, packaging and tests have no run-time behaviour of their own.

### 1.2 How the parts interact

* **systemd and user to watcher**: the service is started again after a failure;
  the user edits `config.yaml` at any time, and restarts the service to apply it.
* **kernel to watcher**: link notifications and the answers to one dump request
  share one socket queue. The daemon polls that socket and a signalfd; both are
  drained to EAGAIN in each round. `NetlinkWatcher` calls back `onChange` and
  `onRemoved`, which call `ProcessManager`.
* **watcher to trays**: `fork`/`exec` with six arguments resolved from the
  configuration, SIGTERM, `waitpid`. A child inherits the daemon's blocked
  signals until it empties its mask.
* **trays to watcher**: nothing but their end (SIGCHLD). A tray that ends is not
  started again before the interface's next transition.
* **tray to network**: raw ICMP sockets bound to the interface's index. The
  target's and the gateway's replies use the same socket and the same ICMP id.
* **tray to user**: icon and tooltip, redrawn only when six remembered values
  have changed; Quit, served only between two ticks.

### 1.3 What is hard here, and what makes each part correct

`PROJECT.json` lists each hazard at its line. In summary:

* *Watcher and netlink.* Links change between bind, dump request and dump
  entries; interfaces are renamed, their names and indexes come back; the queue
  overflows and drops notifications. Correct means: the daemon's record of a
  link catches up with the kernel, and the trays follow the record.
* *Process manager.* `stop` forgets a child that is still alive; SIGCHLDs
  merge; pids are reused; a SIGTERM may reach a child that has not yet emptied
  its signal mask; `waitpid(-1)` hands back children nobody tracks. Correct
  means: the two maps agree, no signal goes to a stranger, no tray is forgotten
  unsignalled, dead ones are collected, shutdown ends.
* *Tray.* Two protocols at different points of an outage, two thresholds on one
  counter, a gateway state that belongs to one outage, a display that is updated
  only on change, replies that come late, sockets bound to an index that is
  gone. Correct means: what is shown is current and consistent, a connection
  that lasts is found again, an outage that lasts is shown.
* *Configuration.* Which list wins, which value wins, and whether an interface's
  own settings arrive at its tray past five resolvers, an argument vector and two
  kinds of defaults. A default file written in five calls by a process that may
  end between any two of them, beside a user who saves the same file, on a file
  system that may be full. Correct means: the file is never half written, a
  user's file is never replaced, every setting counts, and the daemon comes up.

## 2. The modules

| Module | Models | Uses |
|---|---|---|
| `Host` | identifiers the kernel hands out, the calls that may fail | |
| `Config` | loading, eligibility, per-interface resolution and the tray's argument vector, as operators | `Host` |
| `ProcessManager` | the two maps and the process table; operations as operators from a process manager to the (set of) process managers it leaves | `Host` |
| `Netlink` | the kernel's links, the socket and its queue, as a state machine | `Host` |
| `Watcher` | the daemon: composition of the three above | `Config`, `ProcessManager`, `Netlink`, `TraySupervision` |
| `TraySupervision` | what the daemon promises: the abstract specification | |
| `TargetResolver` | a target text to an address per family, as operators | |
| `TraySetup` | how a tray reads its arguments, as operators | `TargetResolver` |
| `Startup` | `ensureExists`, load, run; crashes, restarts and the user's edits; from file to tray arguments | `Config`, `TraySetup` |
| `GatewayResolver` | the batches of a route dump folded to a gateway, as operators | |
| `StatusIcon` | colour, glyph and status text, pure | |
| `RawSocket` | the sockets and the network behind them | `StatusIcon`, `GatewayResolver` |
| `PingMonitor` | the tray: construction, tick, gateway check, display | `RawSocket`, `TraySetup`, `PingRounds` |
| `PingRounds` | what a tray promises: the abstract specification | |
| `MCWatcher`, `MCStartup`, `MCPingMonitor` | the instances TLC checks | |
| `ProcessManagerProofs`, `WatcherProofs`, `SyncProofs`, `SupervisionProofs`, `QuiescenceProofs` | the proofs about the daemon | |
| `StartupProofs`, `GatewayResolverProofs`, `PingMonitorProofs` | the proofs about the start-up and the tray | |

The arguments are where the halves meet: `Config!TrayArgv` is what the watcher
hands to `execv`, `TraySetup!TrayArgs` is how the tray's `main` reads it, and
`PingMonitor!Init` builds the two tracks from what those arguments can be.

### 2.1 Watcher

The daemon is one thread. `pc` says between which two system calls it is; at
each of those points links, trays and whoever stops the daemon may move.

| `pc` | Code | Actions |
|---|---|---|
| `open`, `request`, `signalfd` | `Watcher::run` before the loop, `openSignalFd` | `OpenSocket`, `RequestDump`, `openSignalFd` |
| `poll` | `Watcher::poll` | `Poll`, `LeaveLoop` |
| `netlink` | `processPendingMessages` | `ProcessMessage` (one message with its whole callback), `MessagesDone` |
| `signals`, `reap` | `handleSignals`, `reapExited` | `ReadSignal`, `SignalsDone`, `reapExited`, `ReapDone` |
| `stopAll`, `waitAll` | `ProcessManager::stopAll` | `SignalAll`, `WaitAll`, `Exit` |

A callback is one step: from `recv` to the next `recv` the code makes only
`kill` and `fork` calls, whose effects on the process table are in the same
step. `start` returns a set: any free pid may be handed out, or the fork fails.
A reaped pid is free again. `revents` of `poll` is kept (`sigReady`): a signal
that arrives during the netlink half waits for the next round.

The kernel side (`Netlink`, `Broadcast` to `DumpDone`) is external. It is what
`netlink.cpp` relies on: a message tells the link as it was when the message
was queued; messages stay in order; a notification that finds the queue full is
dropped and reported as ENOBUFS at a later `recv`; a dump waits for room and is
not atomic. (Linux, once it has dropped a message, goes on dropping until the
queue has been drained; the model accepts messages again as soon as there is
room. Both end in the same states of a link: told, or in `unseen`.) `unseen` is a history variable: the links whose current state never
reached the queue. Not modelled: messages of the AF_BRIDGE family, and the
parsing of the attributes.

A child is *running* (with the interface it was started for, whether a SIGTERM
was sent, whether it still has the inherited mask) or a *zombie*. With `"exec"`
among `Faults` a tray may also end by itself, which stands for a failed `exec`,
a missing system tray, and Quit.

### 2.2 Tray

`step` says where the thread is: `idle` (the Qt event loop), `tick` (at the
start of `tickV4` or `tickV6`, `proto` says which), `target` or `gateway`
(blocked in `recvReply` for that ping), `render` (the end of `tick`). An action
covers the code from one blocking call to the next, so the world may change
between a ping and its answer and nowhere else inside a tick.

The code has every function twice, for IPv4 and IPv6; the two copies were
compared line by line and do the same, so the model has one, with the protocol
as a parameter.

A *world* is what the tray cannot see: whether the interface exists and with
which index, the addresses of the host (of this interface and of others, global
and link-local), the kernel's routes in the order of a dump, who answers over the
interface, and whether the target answers over another interface as well (which matters
only for a socket whose SO_BINDTODEVICE failed). `NetFaults` says what else may
happen: `socket()`, `sendto()` and `getifaddrs()` fail, replies come after the
receive timeout, other ICMP traffic reaches the socket. A lookup of the gateway
folds the route dump, cut into batches anywhere and broken off by a call that
fails, with the operators of `GatewayResolver`. Echo replies carry no sequence number in
the model since no code reads it; they carry who sent them, which the code could
read and does not. Replies under way are a set per protocol (`wire`): two
replies of one sender under way at once count as one.

A status text is the facts it tells (state, losses, gateway); an icon is its
cache key (severity and glyph), since `iconFor` paints one picture per key.

### 2.3 Start-up

`pc` says which call comes next: `down` (no process), `exists`, `mkdir`, `open`,
`write` and `rename` (`ensureExists` and `writeDefaultConfig`), `load`,
`running`.

| Variable | Code |
|---|---|
| `file`, `tmp` | `config.yaml` and `config.yaml.tmp`: a YAML map, a malformed text, or no file |
| `config`, `text` | the `Config` the watcher runs with, and the file it was read from |
| `saved`, `raced` | history: what the user saved last, and whether that was between the test for the file and the rename |

A YAML map is a function on the keys that are present, so that a key with its
default value and a missing key differ as they do in the code. `Crash` ends the
process between any two calls; `Start` is the restart by systemd
(`Restart=on-failure`, `RestartSec=3`). With `"full"` among `Faults`
a directory that is missing cannot be made (it may be missing as long as neither
file is there), the stream cannot be opened, or it writes any initial part of the
default text. `load`
is the composition of the four steps of `config_load.cpp`; `fnmatch`,
`inet_pton` and `getaddrinfo` are given relations (`Fnmatch`, `Literal`, `Dns`),
and a name service that cannot be reached is one of the cases (`Resolvers`).

### 2.4 What the watcher promises

`TraySupervision` has links, reports about them that come in order and may be
lost, what the watcher knows, and at most one tray per link, by name. A tray is
started in one case only: a report tells the watcher something new of a link that
is up and wanted. It has no sockets, pids, signals, maps or shutdown. Its
definitions are a specification and not a translation, so they are not mapped to
lines. `Watcher` implements it under

| `TraySupervision` | `Watcher` |
|---|---|
| `links` | `Seen`: name and up/down of each link |
| `news` | `News`: the queue, each message reduced to whom it is about and what it says |
| `known` | `m_ifaces` |
| `tray` | `Trays`: the name of the tracked tray of each link |
| `Eligible` | the names that `isEligible` lets through |

This holds with every call failing and every notification droppable. It is what
the invariants alone do not say: that a tray that has ended is not started again
by a notification that repeats what is known, and that the states the daemon
learns are those the link had, in their order.

### 2.5 What a tray promises

`PingRounds` has rounds, and in a round one outcome for each protocol: left out,
for want of an address; answered; or lost. A loss adds one to the count of losses
in a row, up to the threshold; only then may the gateway be asked, and its answer
counts until the next one. What is shown is drawn at the end of the round,
from the outcomes so far. It has no sockets, replies, timeouts, worlds or
remembered values. Like `TraySupervision` it is a specification and not mapped to
lines. `PingMonitor` implements it under

| `PingRounds` | `PingMonitor` |
|---|---|
| `status` | `Statuses`: of each track whether it has an address, its losses up to the threshold, and `gatewayReachable` |
| `shown` | `Display`: the colour and glyph of `icon`, and what the tooltip tells |
| `round` | `InRound`: the tick has begun and is not drawn |
| `due` | `Due`: the protocols whose target's outcome is still to come in this tick |
| `asked` | `Asked`: the protocol whose gateway's reply is being waited for |
| `Threshold` | `FailStreakForGatewayCheck` |
| `Addressable` | the protocols the interface has an address of in some world |

It says of every path through the two tick functions, with their early returns,
that no protocol is passed over or counted twice, that IPv6 has its turn whatever
became of IPv4, and that `Render`, which skips the drawing when six remembered
values are unchanged, cannot be told from one that always draws.

## 3. The runs

Each run asks one question of the system. Times are for two workers.

| Run | Asks | Instance | Distinct states | Time |
|---|---|---|---|---|
| `watcher_safety` | with everything that can fail failing | 2 links, 1 eligible and 1 excluded name, 2 pids, queue 2, 3 link events, every fault | 1,412,224 | 47 s |
| `watcher_noloss` | what holds, or comes to hold, only if no notification is lost and no call fails; liveness | 2 links, 2 eligible names, 3 pids, queue 5, 2 link events | 912,417 | 95 s |
| `watcher_overrun` | finding | queue of 1 | | 1 s |
| `watcher_hang` | finding | trays that need not react | | 1 s |
| `startup` | the configuration file and what is read from it | 4 names, 9 user files, 3 crashes, 2 edits | 3,466 | 1 s |
| `config_noop` | finding | an exclude list of just `*` | | 1 s |
| `config_partial` | finding | a full file system | | 1 s |
| `tray_safety` | the display, with two protocols and a bad network | 4 worlds, thresholds 2 and 2, every network fault | 2,154,180 | 116 s |
| `tray_recovers` | liveness of the tray | 7 worlds, one protocol, thresholds 3 and 2 | 152,187 | 29 s |
| `tray_colour`, `tray_late`, `tray_flood` | findings | as above, with the fault in question | | 1-5 s |

What the passing runs show:

* `watcher_safety`: `TypeOK`; `MapsAgree` (the two maps are inverse to each
  other); `TracksOnlyItsChildren` (no `kill` can hit a reused pid);
  `NoForgottenChild`; `TrayMatchesKnownLink`; `Synced`; `NoOrphanTray`;
  `SupervisesTrays` (the refinement of 2.4); `StopsHaveCause` (a tray is told to
  end only in the shutdown, or in the step in which the daemon learns that its
  link, up until then under its name, no longer is). All of them hold with dropped
  notifications, failed forks, failed dumps, merged SIGCHLDs and a shutdown that
  gives up after one wait (`MaxWaits = 1` for 200, so that giving up happens).
* `watcher_noloss`: `OneTrayPerName` (while names move between indexes),
  `KnownUpHasTray`, `DumpLeavesNoGap`, `ShutdownReapsAll`, and what they add up to,
  `QuietIsRight`: whenever nothing is left to read after the dump, the trays
  nobody has told to end are one for each eligible link that is up, and no
  others. Each is false with a lost notification or a failed fork, which is why it
  has a run of its own: the queue holds all that can be sent (2 dumped links,
  `NLMSG_DONE`, 2 events), the pids suffice for all trays that are ever wanted at
  once with one still dying, the waits for all pids. Under `FairSpec` also
  `Converges` (once links are quiet each eligible link that is up has exactly one
  live tray, and no other name has one), `ShutdownCompletes`, `ZombiesReaped`. A
  child that gets its SIGTERM while it still has the inherited mask is one of the
  cases.
* `startup`: `TypeOK`; `FileIsWhole`; `UserFileKept`; `RealListsObserved` (what
  is monitored passes the file's real include and exclude list; the converse is
  the subject of `config_noop`); `OwnSettingsReachTray` (target, target6, gateway
  and label of an interface, from the file through `TrayArgv` and `TrayArgs` to
  the addresses pinged); `StartsEventually` (whatever earlier starts left behind).
* `tray_safety`: `TypeOK`; `DisplayFresh` (six remembered values suffice to
  notice every change of what is shown); `GatewayIsCurrent`; `GatewayIsOurs`;
  `IconAgreesWithTooltip`; `RedOnlyAfterWarning`; `TicksAreRounds` (the
  refinement of 2.5).
* `tray_recovers`: `SkippedWithoutAddress`, `Recovers`, `OutageShown` and
  `UpstreamOutageShown`, after any sequence of renumberings, removals, late
  addresses, late routes and outages.

### 3.1 Bounds

* *Link events* are counted (`MaxLinkEvents`); `Converges` needs them to end.
  Two events reach a rename with a name taken over by another index and a delete
  and re-add under the same index, three an overflow of a queue of two.
  Boot states are all link tables in the passing runs. What `watcher_noloss` says of
  two events besides liveness is proved for any number.
* *The count of losses* wraps at `MaxFailStreak` by one period of the socket's
  recreation (`Lost`). The code reads the count only through `= 0`, `% 10`
  and `>= 10`, and shows it; wrapping keeps the first three as they are, which is
  proved (`BoundLosesNothing`).
* *Thresholds* are 2 or 3 instead of 10. In `tray_recovers` the two differ, so
  that a socket's recreation falls before, at and after the gateway check;
  `tray_safety` has them equal as in the code. The proofs are for any values.
* *Crashes and edits* (`MaxCrashes`, `MaxEdits`): three crashes can end the
  process at three of the calls that write the file, two edits are one in
  the window between test and rename and one after it. The user's files are one
  of each kind the code tells apart: malformed, each of the two lists real, a
  no-op or missing, the no-op exclude list by itself, and overrides of every
  setting.
* *The receive buffer* of the tray holds one message (`RxCapacity`), the least
  with which a late reply can be met by the next receive.
* *Symmetry* is used on ifindexes and pids, in runs of safety properties only.

### 3.2 Fairness

* *Daemon* (`DaemonFairness`): weak fairness of its steps. It is one thread
  that never waits except in `poll` and `waitpid`, whose readiness is the guard.
* *Kernel* (`KernelFairness`): a runnable child empties its mask; a child with
  an unblocked pending SIGTERM dies; a dump goes on when the queue has room.
  That a tray dies of SIGTERM is an assumption: trays install no handler. The
  run `watcher_hang` drops it, and shows what stopAll does then.
* *Tray* (`FairSpec` of `PingMonitor`): the timer fires, `recvfrom` returns, and
  what is under way on the network arrives. Without the fault `"late"` a receive
  does not time out while an answer is under way.
* *Start-up* (`FairSpec` of `Startup`): the process takes its steps, and systemd
  starts it again. That systemd does not give up (its start limit) is an
  assumption, in line with `RestartSec=3`.
* Nobody is assumed to stop the daemon, quit a tray or change a link or a world;
  `Recovers`, `OutageShown` and `UpstreamOutageShown` have a world that lasts as
  their premise.

### 3.3 Findings

Seven runs are expected to end in a violation. Each checks what a document or
comment of the repository says.

1. `watcher_overrun` (`netlink.cpp:115`): ENOBUFS is taken for EAGAIN, no new
   dump is requested, and a dropped notification is never made up for.
2. `watcher_hang` (`process_manager.cpp:90`): the "short timeout" of `stopAll`
   does not exist; one tray that does not die keeps the daemon for ever.
3. `tray_colour` (`ping_monitor_status_text.cpp:49`): README's ordered colour
   rules put yellow before blue, the code blue before yellow.
4. `tray_late` (`ping_monitor_socket4.cpp:66`): a gateway reply that comes after
   its timeout is taken for the target's answer by the next tick.
5. `tray_flood` (`ping_monitor_socket4.cpp:80`): each foreign ICMP packet
   restarts the receive timeout; packets at intervals below 800 ms keep the tick,
   and the event loop, from going on while the target is silent.
6. `config_partial` (`config.cpp:110`): the header promises a temporary file and
   a rename "to avoid partial writes", but nothing looks at the stream, so a full
   file system leaves an empty or cut `config.yaml` that no later start replaces.
7. `config_noop` (`config_load.cpp:36`): `["*"]` is no list for the validation at
   load, whose error message tells the user to write it, and for the tests, in
   either place; `isEligible` takes it for no list as an include list only. As an
   exclude list without a real include list it excludes every interface.
   `RealListsObserved` is the direction that holds, and `OnlyTheNoopMisleads`
   proves that no other file is read otherwise than the real lists say.

## 4. The proofs

For every set of links, names and pids, every configuration and every file,
every set of failing calls, any queue capacity, any bound on events, crashes and
edits, and for every threshold, world, target and network fault of the tray. The
assumptions are the named `ASSUME`s of the modules: `None` is no member of the
sets it is used beside; boot tables have unique names; bounds are naturals, the
queue and the waits are at least one; `MaxFailStreak` is at least the sum of the
two thresholds; the pattern `*` matches every name (`FnmatchAssumption`); no text
is a literal of both families and the empty text is neither a literal nor a host
name (`TargetAssumption`); "gateway" is what a world calls the next hop of its
interface's default routes (`RoutesAssumption`). What a theorem needs beyond
these is in its statement and in the last column.

| Theorem | Says | Under |
|---|---|---|
| `WatcherProofs!TypeCorrect` | `TypeOK` | |
| `WatcherProofs!MapsStayInverse` | `MapsAgree` | |
| `WatcherProofs!KillsHitNoStranger` | `TracksOnlyItsChildren` | |
| `WatcherProofs!NoTrayForgotten` | `NoForgottenChild` | |
| `WatcherProofs!TraysMatch` | `TrayMatchesKnownLink` | |
| `WatcherProofs!NoTrayOrphaned` | `NoOrphanTray` | |
| `WatcherProofs!TraysStopForCause` | `StopsHaveCause` | |
| `SyncProofs!ViewCatchesUp` | `Synced` | |
| `SyncProofs!NoLinkOverlooked` | `DumpLeavesNoGap` | the queue never overruns |
| `SyncProofs!NoTwoTraysOfOneName` | `OneTrayPerName` | the queue never overruns |
| `SupervisionProofs!ImplementsSupervision` | `SupervisesTrays` | |
| `SupervisionProofs!NoTrayMissing` | `KnownUpHasTray` | no fork or exec fails, a pid is always free |
| `QuiescenceProofs!TraysAreRightWhenQuiet` | `QuietIsRight` | the queue never overruns, no fork or exec fails, a pid is always free |
| `QuiescenceProofs!PidsNeverRunOut` | a pid is always free | there is no end of pids |
| `QuiescenceProofs!ShutdownIsComplete` | `ShutdownReapsAll` | finitely many pids, no more than waits |
| `StartupProofs!TypeCorrect` | `TypeOK` | |
| `StartupProofs!NeverHalfWritten` | `FileIsWhole` | the file system is not full |
| `StartupProofs!UserFileNeverLost` | `UserFileKept` | |
| `StartupProofs!NoListPassedOver` | `RealListsObserved` | |
| `StartupProofs!OnlyTheNoopMisleads` | `PatternsObserved`, or the file has the lists of finding 7 | |
| `StartupProofs!OwnSettingsArrive` | `OwnSettingsReachTray` | |
| `GatewayResolverProofs!DrainFindsLastDefaultRoute` | what the batches fold to | |
| `PingMonitorProofs!TypeCorrect` | `TypeOK` | |
| `PingMonitorProofs!DisplayNeverStale` | `DisplayFresh` | |
| `PingMonitorProofs!GatewayCurrent` | `GatewayIsCurrent` | |
| `PingMonitorProofs!GatewayOurs` | `GatewayIsOurs` | |
| `PingMonitorProofs!IconAndTextAgree` | `IconAgreesWithTooltip` | |
| `PingMonitorProofs!WarnedBeforeRed` | `RedOnlyAfterWarning` | the threshold is above one |
| `PingMonitorProofs!ImplementsRounds` | `TicksAreRounds` | |
| `PingMonitorProofs!SkippedProtocolsStaySilent` | `SkippedWithoutAddress` | |
| `PingMonitorProofs!BoundLosesNothing` | that the bound on the count of losses changes no decision | |

*Process manager.* `ProcessManagerProofs` shows that every operation preserves
`ProcessesInv` (types, inverse maps, tracked pids are children, untracked
running children are signalled), and which trays it may leave tracked. These
lemmas speak of operators only and know nothing of the daemon.

*Watcher.* `Inv` is the types, `ProcessesInv`, `TrayMatchesKnownLink`, and two
facts that make it inductive: before signals are blocked nothing has been
started (`NoChildrenYet`: a SIGTERM then simply kills the daemon, which is why
it orphans nobody), and after the kill loop every running child has its SIGTERM
(`AllSignalledInShutdown`, kept because no link callback runs any more).

*Causes.* `StopsHaveCause` follows from `Inv` step by step. Only `stop`, inside a
callback about a link `i`, and the kill loop of the shutdown signal a child, and
`stop` signals the tray of `i` alone. That tray shows what is known of `i`
(`TrayMatchesKnownLink`), and the two branches of `onChange` that reach `stop`, as
well as `onRemoved`, store something else for `i` in the same step.

*View.* `Synced` says: of each link whose current state was ever queued, either
the last message about it in the queue shows that state, or there is no such
message and `m_ifaces` has it. The strengthening is that a socket not yet open
has shown nothing. The induction is over what a message that joins or leaves the
queue does to the last message about a link.

*One tray per name.* It is not enough that the kernel's names are unique: the
daemon's record lags. `NamesInv` says it of every moment the record will pass
through: after any initial part of the queue has been read, no two links would be
recorded under one name, and what reading all of it gives are the links as
they are. Reading a message moves to the next such moment; a link event adds one.

*Refinement.* Each operation of the process manager is shown to change the
trays, as `TraySupervision` sees them, of one link or of none. A kernel step is
`Move`, `Remark` or a stutter, a `recv` with its callback is `Hear`, and a
tracked tray that is collected is `TrayEnds`. `NoTrayMissing` then keeps
`AliveInv`: a tracked tray has no SIGTERM and runs, so that only a transition can
take it.

*Quiet.* `QuietIsRight` is where the parts meet, and needs no invariant of its own.
An empty queue after the dump makes the view the kernel's table (`Synced`,
`DumpLeavesNoGap`). A tray nobody has told to end is tracked (`NoForgottenChild`),
for a link known to be up under its name (`TrayMatchesKnownLink`), hence for one
that is; there is one such tray at most (`OneTrayPerName`, inverse maps), and one
at least (`AliveInv`). That a pid is always free is a hypothesis about the host, and
one that can be met: a step takes one pid at most, so the children are
finitely many (`PidsNeverRunOut`).

*Shutdown.* `WaitsSuffice` counts: the children not yet collected are no more
than the waits that are left. Each `waitpid` that returns takes one of each,
tracked or not; when the waits are used up no child is left, and every tracked
pid is a child.

*Start-up.* `IInv` (the file, and what is about to be renamed into its place, are
whole) needs a file system with room, and is the whole point of the temporary
file: only `rename` touches the file. `KeptInv` ties `saved` to `file` and to
where the process is, so that past the test for the file only an edit in the
window can be lost. The three theorems on what is read unfold `load`, the resolvers
and the argument vector for an arbitrary file.

*Gateway.* `LastFound` of parts is `LastFound` of the whole: what each batch
leaves overwrites what the earlier ones left, so the result is that of the last
message that has one, up to the message that ends the dump. `GatewayIsOurs`
follows, since every message that yields a gateway is a default route over the
interface.

*Tray.* `DisplayFresh` alone is not inductive: `Render` skips the redrawing when
the remembered values equal the current ones, so one has to know that the screen
shows what the remembered values call for (`CacheInv`), that the display is a
function of those values and of `configured`, and that `configured` never
changes. `GatewayIsCurrent` needs what is known while a receive is blocked
(`Waiting`): the threshold was reached, and a gateway is set. `WarnedBeforeRed`
needs the pace of the count between two drawings (`PaceInv`): a protocol that is
not shown as failing has lost at most one ping, and none before this tick's turn.

*Rounds.* A tick function that goes on to the next protocol is one outcome or, if
it asked the gateway before, the gateway's answer; one that blocks on the gateway
is the loss that led there. Finding an address and losing the first ping may
be one step of the tray, and is one of the rounds. That the drawing at the end is
the current one needs `DisplayFresh` and its strengthening again, for the ticks
that draw nothing. The world matters in one place only: an address is found in
some world (`FoundIsAddressable`), so that the rounds, once implemented, give
`SkippedWithoutAddress` by an induction that knows nothing of sockets
(`RoundsSilent`).

*The bound on the count.* `Counts(m, n)` relates the model's count to the code's: they
differ by whole periods of the socket's recreation, and only above the threshold.
It holds at zero, is kept by one more loss, and decides every test the code makes
of the count the same way.

### 4.1 Only model-checked

* Liveness (`Converges`, `ShutdownCompletes`, `ZombiesReaped`,
  `StartsEventually`, `Recovers`, `OutageShown`, `UpstreamOutageShown`): out of
  the prover's reach.

Every invariant and action property of the passing runs, and both refinements, are
proved.

## 5. Not modelled, and why

* A daemon that is killed while its trays run. The unit's control group takes
  them along; outside systemd they stay, and nothing in the code finds the trays
  of an earlier daemon. `Startup` models the crash of the process and what it
  leaves on disk, `Watcher` its orderly end.
* Two daemons that share the temporary file's name (a service and a shell), and a
  power failure after `rename` without `fsync`.
* Messages of the AF_BRIDGE family and the parsing of netlink attributes.
* `checksum`, `shortIfaceTag`, `argsValid`, `resolvePath`, icon painting and the
  wording of texts: they change no state that another part reads.
* Build files, packaging and tests.

Accepted by the code's comments, and so part of the model without a property
against them: an address that is lost without the link going down is not noticed
(`hasLocalAddress` never goes back), and a gateway is looked up once per process.
A socket that could not be bound is used unbound; the model has it, and no
property forbids it.

## 6. Plan

Done, in this order: `Host`, `ProcessManager`, `Netlink`, `Config`, `Watcher`
with its runs; the proofs of the process manager, of the watcher and of
`Synced`; `StatusIcon`, `RawSocket`, `PingMonitor` with their runs and proofs;
`GatewayResolver`, `TargetResolver` and `TraySetup` as parts of the tray;
`Startup` with its run and proofs; `TraySupervision` and the proof that `Watcher`
implements it; the properties that need a queue without overrun, forks that
succeed, or waits enough; `PingRounds` and the proof that `PingMonitor` implements
it; what stops a tray, and what the daemon's parts add up to when it is quiet.

Left, the model:

1. A restarted daemon beside the trays of the one before it, outside systemd.
2. AF_BRIDGE messages: RTM_DELLINK for a port that left its bridge.
3. The congestion of a socket that has overrun.
4. A property that demands a socket bound to the interface, and a finding if the
   unbound one shows a tray green for an interface that is gone.

Left, the proofs:

1. What the liveness properties rest on, as safety: that each step of the start-up,
   and of the shutdown, brings it nearer to its end.
2. `RedOnlyAfterWarning` from the rounds alone, in place of `PaceInv`.
3. The liveness properties themselves stay with TLC.
