------------------------------ MODULE Watcher -------------------------------
(***************************************************************************)
(* The watcher daemon: the poll loop of watcher.cpp, the per-interface     *)
(* state machine of watcher_iface_state.cpp and the shutdown of            *)
(* ProcessManager::stopAll, over the netlink socket and the tray children. *)
(*                                                                         *)
(* The daemon is one thread.  A callback of a netlink message is one step; *)
(* between any two system calls the kernel, the trays and whoever stops    *)
(* the daemon may move.                                                    *)
(***************************************************************************)
EXTENDS Config, ProcessManager, Netlink

CONSTANTS m_cfg,     \* the loaded configuration
          MaxWaits   \* the bound on the waits of stopAll (200 in the code)

ASSUME MaxWaitsAssumption == MaxWaits \in Nat \ {0}

VARIABLES
    pc,            \* where the daemon is
    m_ifaces,      \* the last known state of an interface, or None
    m_processes,   \* the process manager
    m_shouldExit,
    pending,       \* signals waiting in the signalfd
    sigReady,      \* poll() saw the signalfd readable (fds[1].revents)
    waits          \* waits made by stopAll

daemonVars == << pc, m_ifaces, m_processes, m_shouldExit, pending, sigReady,
                 waits >>

vars == << netlinkVars, daemonVars >>

-----------------------------------------------------------------------------
Labels == {"open", "request", "signalfd", "poll", "netlink", "signals",
           "reap", "stopAll", "waitAll", "exited"}

IfaceState == [name : Name, wasUp : BOOLEAN]

ASSUME NoneIsNoIfaceState == None \notin IfaceState

TypeOK ==
    /\ NetlinkTypeOK
    /\ pc \in Labels
    /\ m_ifaces \in [Ifindex -> IfaceState \cup {None}]
    /\ m_processes \in Processes
    /\ m_shouldExit \in BOOLEAN
    /\ pending \subseteq {"CHLD", "TERM"}
    /\ sigReady \in BOOLEAN
    /\ waits \in 0 .. MaxWaits

Init ==
    /\ NetlinkInit
    /\ pc = "open"
    /\ m_ifaces = [i \in Ifindex |-> None]
    /\ m_processes = NoProcesses
    /\ m_shouldExit = FALSE
    /\ pending = {}
    /\ sigReady = FALSE
    /\ waits = 0

Goto(label) == pc' = label

-----------------------------------------------------------------------------
(* Start-up (Watcher::run, NetlinkWatcher::open, openSignalFd).            *)

StartupUnchanged ==
    UNCHANGED << m_ifaces, m_processes, m_shouldExit, pending, sigReady, waits >>

\* socket() and bind().
OpenSocket ==
    /\ pc = "open"
    /\ \/ Bind /\ Goto("request")
       \/ "socket" \in Faults /\ Goto("exited") /\ UNCHANGED netlinkVars
    /\ StartupUnchanged

\* A dump that cannot be asked for is reported and otherwise ignored.
RequestDump ==
    /\ pc = "request"
    /\ \/ requestDump
       \/ "dump" \in Faults /\ UNCHANGED netlinkVars
    /\ Goto("signalfd")
    /\ StartupUnchanged

openSignalFd ==
    /\ pc = "signalfd"
    /\ \/ Goto("poll")
       \/ "signalfd" \in Faults /\ Goto("exited")
    /\ StartupUnchanged
    /\ UNCHANGED netlinkVars

-----------------------------------------------------------------------------
(* The poll loop.                                                          *)

\* poll() returns; what it saw is what this round of the loop acts on.
Poll ==
    /\ pc = "poll"
    /\ ~m_shouldExit
    /\ queue # << >> \/ pending # {}
    /\ Goto(IF queue # << >> THEN "netlink" ELSE "signals")
    /\ sigReady' = (pending # {})
    /\ UNCHANGED << netlinkVars, m_ifaces, m_processes, m_shouldExit, pending,
                    waits >>

LeaveLoop ==
    /\ pc = "poll"
    /\ m_shouldExit \/ "poll" \in Faults
    /\ Goto("stopAll")
    /\ UNCHANGED << netlinkVars, m_ifaces, m_processes, m_shouldExit, pending,
                    sigReady, waits >>

-----------------------------------------------------------------------------
(* Link callbacks: the outcomes of a call as a set of process managers.    *)

startIfEligible(P, i, name) ==
    IF isEligible(m_cfg, name) THEN start(P, i, name) ELSE {P}

WasUp(i) == m_ifaces[i] # None /\ m_ifaces[i].wasUp

IsRenamed(i, name) == m_ifaces[i] # None /\ m_ifaces[i].name # name

\* Mutant: without the rename branch.
ProcessesAfterChange_NoRename(i, name, isUp) ==
    IF isUp = WasUp(i) THEN {m_processes}
    ELSE IF isUp THEN startIfEligible(m_processes, i, name)
    ELSE {stop(m_processes, i)}

\* Mutant: a rename stops the old tray and starts no new one.
ProcessesAfterChange_NoRestart(i, name, isUp) ==
    IF IsRenamed(i, name) /\ WasUp(i) THEN {stop(m_processes, i)}
    ELSE ProcessesAfterChange_NoRename(i, name, isUp)

\* Mutant: whatever the link was before, a tray that is missing is started.
ProcessesAfterChange_NoTransition(i, name, isUp) ==
    IF IsRenamed(i, name) /\ WasUp(i)
    THEN IF isUp
         THEN startIfEligible(stop(m_processes, i), i, name)
         ELSE {stop(m_processes, i)}
    ELSE IF isUp THEN startIfEligible(m_processes, i, name)
    ELSE {stop(m_processes, i)}

\* Mutant: every notification of a link that is up restarts its tray.
ProcessesAfterChange_Restarts(i, name, isUp) ==
    IF isUp
    THEN startIfEligible(stop(m_processes, i), i, name)
    ELSE {stop(m_processes, i)}

ProcessesAfterChange(i, name, isUp) ==
    IF IsRenamed(i, name) /\ WasUp(i)
    THEN IF isUp
         THEN startIfEligible(stop(m_processes, i), i, name)
         ELSE {stop(m_processes, i)}
    ELSE IF isUp = WasUp(i) THEN {m_processes}
    ELSE IF isUp THEN startIfEligible(m_processes, i, name)
    ELSE {stop(m_processes, i)}

\* Mutant: returns before it stores anything when isUp is what it was.
onChange_StoresLate(i, name, isUp) ==
    IF isUp = WasUp(i) /\ ~IsRenamed(i, name)
    THEN UNCHANGED << m_ifaces, m_processes >>
    ELSE /\ m_ifaces' = [m_ifaces EXCEPT ![i] =
                            [name |-> name, wasUp |-> isUp]]
         /\ m_processes' \in ProcessesAfterChange(i, name, isUp)

onChange(i, name, isUp) ==
    /\ m_ifaces' = [m_ifaces EXCEPT ![i] = [name |-> name, wasUp |-> isUp]]
    /\ m_processes' \in ProcessesAfterChange(i, name, isUp)

\* Mutant: forgets the interface and leaves its tray alone.
onRemoved_KeepsTray(i) ==
    /\ m_ifaces' = [m_ifaces EXCEPT ![i] = None]
    /\ UNCHANGED m_processes

onRemoved(i) ==
    /\ m_processes' = IF WasUp(i) THEN stop(m_processes, i) ELSE m_processes
    /\ m_ifaces' = [m_ifaces EXCEPT ![i] = None]

handleMessage(message) ==
    \/ /\ message.type = "DONE"
       /\ UNCHANGED << m_ifaces, m_processes >>
    \/ /\ message.type = "DELLINK"
       /\ onRemoved(message.ifindex)
    \/ /\ message.type = "NEWLINK"
       /\ onChange(message.ifindex, message.link.name,
                   isOperationallyUp(message.link.flags))

\* One turn of the loop of processPendingMessages.
ProcessMessage ==
    /\ pc = "netlink"
    /\ Recv
    /\ handleMessage(Head(queue))
    /\ UNCHANGED << pc, m_shouldExit, pending, sigReady, waits >>

\* recv() fails and the loop ends: EAGAIN and ENOBUFS alike.
MessagesDone ==
    /\ pc = "netlink"
    /\ RecvFails
    /\ Goto(IF sigReady THEN "signals" ELSE "poll")
    /\ UNCHANGED << m_ifaces, m_processes, m_shouldExit, pending, sigReady,
                    waits >>

-----------------------------------------------------------------------------
(* Signals (Watcher::handleSignals, ProcessManager::reapExited).           *)

ReadSignal ==
    /\ pc = "signals"
    /\ \E signal \in pending :
          /\ pending' = pending \ {signal}
          /\ m_shouldExit' = (m_shouldExit \/ signal = "TERM")
          /\ Goto(IF signal = "CHLD" THEN "reap" ELSE "signals")
    /\ UNCHANGED << netlinkVars, m_ifaces, m_processes, sigReady, waits >>

SignalsDone ==
    /\ pc = "signals"
    /\ pending = {}
    /\ sigReady' = FALSE
    /\ Goto("poll")
    /\ UNCHANGED << netlinkVars, m_ifaces, m_processes, m_shouldExit, pending,
                    waits >>

\* Mutant: one waitpid() per SIGCHLD.
reapExited_Once ==
    /\ pc = "reap"
    /\ \E p \in Pid :
          /\ IsZombie(m_processes, p)
          /\ m_processes' = Reaped(m_processes, p)
    /\ Goto("signals")
    /\ UNCHANGED << netlinkVars, m_ifaces, m_shouldExit, pending, sigReady,
                    waits >>

\* One turn of the waitpid(-1, WNOHANG) loop.
reapExited ==
    /\ pc = "reap"
    /\ \E p \in Pid :
          /\ IsZombie(m_processes, p)
          /\ m_processes' = Reaped(m_processes, p)
    /\ UNCHANGED << netlinkVars, pc, m_ifaces, m_shouldExit, pending, sigReady,
                    waits >>

ReapDone ==
    /\ pc = "reap"
    /\ \A p \in Pid : ~IsZombie(m_processes, p)
    /\ Goto("signals")
    /\ UNCHANGED << netlinkVars, m_ifaces, m_processes, m_shouldExit, pending,
                    sigReady, waits >>

-----------------------------------------------------------------------------
(* Shutdown (ProcessManager::stopAll).                                     *)

SignalAll ==
    /\ pc = "stopAll"
    /\ m_processes' = AllSignalled(m_processes)
    /\ Goto("waitAll")
    /\ UNCHANGED << netlinkVars, m_ifaces, m_shouldExit, pending, sigReady,
                    waits >>

\* Mutant: one wait too many.
KeepsWaiting_OffByOne ==
    /\ waits <= MaxWaits
    /\ TrackedPids(m_processes) # {}
    /\ FreePids(m_processes) # Pid

KeepsWaiting ==
    /\ waits < MaxWaits
    /\ TrackedPids(m_processes) # {}
    /\ FreePids(m_processes) # Pid     \* waitpid() does not return ECHILD

\* Mutant: a dead child that is not tracked ends the loop.
WaitAll_BreaksOnUntracked ==
    /\ pc = "waitAll"
    /\ KeepsWaiting
    /\ \E p \in Pid :
          /\ IsZombie(m_processes, p)
          /\ m_processes' = Reaped(m_processes, p)
          /\ waits' = IF p \in TrackedPids(m_processes)
                      THEN waits + 1
                      ELSE MaxWaits
    /\ UNCHANGED << netlinkVars, pc, m_ifaces, m_shouldExit, pending, sigReady >>

\* waitpid(-1, 0) returns some dead child, tracked or not.
WaitAll ==
    /\ pc = "waitAll"
    /\ KeepsWaiting
    /\ \E p \in Pid :
          /\ IsZombie(m_processes, p)
          /\ m_processes' = Reaped(m_processes, p)
    /\ waits' = waits + 1
    /\ UNCHANGED << netlinkVars, pc, m_ifaces, m_shouldExit, pending, sigReady >>

Exit ==
    /\ pc = "waitAll"
    /\ ~KeepsWaiting
    /\ Goto("exited")
    /\ UNCHANGED << netlinkVars, m_ifaces, m_processes, m_shouldExit, pending,
                    sigReady, waits >>

-----------------------------------------------------------------------------
(* The world around the daemon.                                            *)

\* SIGTERM or SIGINT.  It kills a daemon that has not yet blocked them; one
\* more after m_shouldExit is set is never read.
Terminate ==
    /\ pc # "exited"
    /\ ~m_shouldExit
    /\ "TERM" \notin pending
    /\ IF pc \in {"open", "request", "signalfd"}
       THEN Goto("exited") /\ UNCHANGED pending
       ELSE pending' = pending \cup {"TERM"} /\ UNCHANGED pc
    /\ UNCHANGED << netlinkVars, m_ifaces, m_processes, m_shouldExit, sigReady,
                    waits >>

\* The forked child empties its signal mask, then executes the tray.
ChildUnblocks(p) ==
    /\ IsRunningChild(m_processes, p)
    /\ m_processes.children[p].blocked
    /\ m_processes' = Unblocked(m_processes, p)
    /\ UNCHANGED << netlinkVars, pc, m_ifaces, m_shouldExit, pending, sigReady,
                    waits >>

\* A tray dies of SIGTERM; if "exec" may fail, or the user quits the tray,
\* of itself.
ChildExits(p) ==
    /\ IsRunningChild(m_processes, p)
    /\ ~m_processes.children[p].blocked
    /\ m_processes.children[p].sigterm \/ "exec" \in Faults
    /\ m_processes' = Exited(m_processes, p)
    /\ pending' = pending \cup {"CHLD"}
    /\ UNCHANGED << netlinkVars, pc, m_ifaces, m_shouldExit, sigReady, waits >>

LinkStep ==
    /\ pc # "exited"
    /\ KernelStep \/ DumpStep
    /\ UNCHANGED daemonVars

ChildStep ==
    /\ pc # "exited"
    /\ \E p \in Pid : ChildUnblocks(p) \/ ChildExits(p)

Finished == pc = "exited" /\ UNCHANGED vars

-----------------------------------------------------------------------------
DaemonStep ==
    \/ OpenSocket \/ RequestDump \/ openSignalFd
    \/ Poll \/ LeaveLoop
    \/ ProcessMessage \/ MessagesDone
    \/ ReadSignal \/ SignalsDone \/ reapExited \/ ReapDone
    \/ SignalAll \/ WaitAll \/ Exit

Next == DaemonStep \/ LinkStep \/ ChildStep \/ Terminate \/ Finished

Spec == Init /\ [][Next]_vars

-----------------------------------------------------------------------------
(* Safety.                                                                 *)

Tracked(i) == isRunning(m_processes, i)

\* m_byIfindex and m_ifindexByPid stay each other's inverse through start,
\* stop, reapExited and stopAll (process_manager.cpp).
MapsAgree == MapsInverse(m_processes)

\* A tracked pid is an unreaped child of the daemon, so the kill() of stop
\* and stopAll can reach no process that got the pid later.
TracksOnlyItsChildren == TrackedAreChildren(m_processes)

\* No tray is forgotten: a running tray the daemon does not track has been
\* sent its SIGTERM.
NoForgottenChild == UntrackedAreSignalled(m_processes)

\* A tracked tray shows an interface the daemon knows to be up, under the
\* name the tray was started with, and one the filter lets through: the
\* rename branch and the transition test of onChange.
TrayMatchesKnownLink ==
    \A i \in Ifindex : Tracked(i) =>
        /\ WasUp(i)
        /\ TrayIface(m_processes, i) = m_ifaces[i].name
        /\ isEligible(m_cfg, m_ifaces[i].name)

View(link) ==
    IF link = None
    THEN None
    ELSE [name |-> link.name, wasUp |-> isOperationallyUp(link.flags)]

MessagesAbout(i) == {k \in 1 .. Len(queue) : queue[k].ifindex = i}

LastMessageShows(i, k) ==
    /\ queue[k].link = links[i]
    /\ \A l \in MessagesAbout(i) : l <= k

\* The daemon's view catches up: of every link whose state reached the queue,
\* either the last queued message tells the state, or, none being queued,
\* m_ifaces already holds it (onChange stores what it was told before it
\* decides anything, onRemoved forgets).
Synced ==
    \A i \in Ifindex \ unseen :
        \/ MessagesAbout(i) = {} /\ m_ifaces[i] = View(links[i])
        \/ \E k \in MessagesAbout(i) : LastMessageShows(i, k)

\* Nothing is left running behind the daemon's back: once run() has
\* returned, every tray that still runs has been sent its SIGTERM.
NoOrphanTray ==
    pc = "exited" =>
        \A p \in Pid :
            IsRunningChild(m_processes, p) => m_processes.children[p].sigterm

\* As long as there are fewer children than waits, stopAll waits for all it
\* tracks, whatever other dead children waitpid(-1) hands it on the way.
ShutdownReapsAll == pc = "exited" => TrackedPids(m_processes) = {}

\* Subscribing before asking for the dump leaves no gap: when the dump is
\* through, every link has been told of.  (No dropped notification, no dump
\* that failed.)
DumpLeavesNoGap == sock = "dumped" => unseen = {}

\* One live tray per interface name, while names move between interfaces:
\* the tray of the name's former owner has been sent its SIGTERM before the
\* next one is started.  (No dropped notification.)
OneTrayPerName ==
    \A i, j \in Ifindex :
        (/\ Tracked(i)
         /\ Tracked(j)
         /\ TrayIface(m_processes, i) = TrayIface(m_processes, j)) => i = j

\* The tray p runs, and nobody has asked it to end.
IsAlive(P, p) == IsRunningChild(P, p) /\ ~P.children[p].sigterm

\* A tray is never bounced: it is sent its SIGTERM in the shutdown, or in the
\* very step in which the daemon learns that the link it shows, up until then
\* under the name it was started with, is down, has another name or is gone;
\* neither a notification that repeats what is known nor one about another
\* link does that (onChange, onRemoved and stop).
StopsHaveCause ==
    [][\A p \in Pid :
          (/\ IsAlive(m_processes, p)
           /\ IsRunningChild(m_processes', p)
           /\ m_processes'.children[p].sigterm)
              => \/ pc = "stopAll"
                 \/ \E i \in Ifindex :
                       /\ m_processes.byIfindex[i] = p
                       /\ m_ifaces[i] = [name  |-> m_processes.children[p].iface,
                                         wasUp |-> TRUE]
                       /\ m_ifaces'[i] # m_ifaces[i]]_vars

\* Every known, eligible interface that is up has its tray until shutdown.
\* (No call fails and no tray ends by itself: the daemon would not retry.)
KnownUpHasTray ==
    pc \notin {"waitAll", "exited"} =>
        \A i \in Ifindex :
            WasUp(i) /\ isEligible(m_cfg, m_ifaces[i].name) => Tracked(i)

-----------------------------------------------------------------------------
(* The watcher implements the abstract supervision of trays.               *)

ReportOf(message) == [about |-> message.ifindex, state |-> View(message.link)]

TrayOf(P, i) == IF isRunning(P, i) THEN TrayIface(P, i) ELSE None

Seen == [i \in Ifindex |-> View(links[i])]
News == [k \in 1 .. Len(queue) |-> ReportOf(queue[k])]
Trays == [i \in Ifindex |-> TrayOf(m_processes, i)]

Supervision == INSTANCE TraySupervision
    WITH Eligible <- {name \in Name : isEligible(m_cfg, name)},
         links <- Seen, news <- News, known <- m_ifaces, tray <- Trays

\* Whatever fails, whatever is dropped and however the daemon's steps fall
\* between those of the kernel and of the trays: what the daemon knows of a
\* link goes through the states the link had, in their order; a tray starts
\* only when the daemon learns that a link came up or has a new name, never
\* again because of a message that repeats what it knows, and the tray of the
\* old name is gone from then on (onChange and onRemoved of
\* watcher_iface_state.cpp over start, stop and reapExited).
SupervisesTrays == Supervision!Spec

-----------------------------------------------------------------------------
(* Fairness and liveness.                                                  *)

\* The daemon is one runnable thread: it takes the steps it can take.
DaemonFairness == WF_vars(DaemonStep)

\* The kernel runs the children and delivers their signals, and goes on with
\* a dump whenever the queue has room.
KernelFairness ==
    /\ \A p \in Pid : /\ WF_vars(pc # "exited" /\ ChildUnblocks(p))
                      /\ WF_vars(pc # "exited" /\ ChildExits(p))
    /\ WF_vars(pc # "exited" /\ DumpStep /\ UNCHANGED daemonVars)

FairSpec == Spec /\ DaemonFairness /\ KernelFairness

\* Only the daemon is scheduled: a tray may be stopped or hang.
DaemonFairSpec == Spec /\ DaemonFairness

LiveTrays(name) ==
    {p \in Pid : /\ IsRunningChild(m_processes, p)
                 /\ m_processes.children[p].iface = name}

WantsTray(name) ==
    /\ isEligible(m_cfg, name)
    /\ \E i \in Present : /\ links[i].name = name
                          /\ isOperationallyUp(links[i].flags)

\* Whenever nothing is left to read after the dump, the trays are right: each
\* eligible link that is up has one tray that nobody has asked to end, and no
\* other name has any, whatever renames, removals and repeated messages came
\* before.  (No call fails, no notification is dropped, no tray ends by itself.)
QuietIsRight ==
    sock = "dumped" /\ queue = << >> /\ pc \notin {"waitAll", "exited"} =>
        \A name \in Name :
            LET alive == {p \in LiveTrays(name) : IsAlive(m_processes, p)}
            IN  IF WantsTray(name)
                THEN \E p \in Pid : alive = {p}
                ELSE alive = {}

\* Once links are quiet, each eligible link that is up has one tray and no
\* other name has any.  (Link events are bounded by MaxLinkEvents.)
Converges ==
    <>[](\/ pc = "exited"
         \/ \A name \in Name :
               IF WantsTray(name)
               THEN \E p \in Pid : LiveTrays(name) = {p}
               ELSE LiveTrays(name) = {})

\* A SIGTERM or SIGINT that was read ends the daemon.
ShutdownCompletes == m_shouldExit ~> pc = "exited"

\* Over and over no dead tray is left a zombie while the daemon lives,
\* although SIGCHLDs merge while one is pending.
ZombiesReaped ==
    []<>(pc = "exited" \/ \A p \in Pid : ~IsZombie(m_processes, p))
=============================================================================
