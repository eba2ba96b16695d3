--------------------------- MODULE ProcessManager ---------------------------
(***************************************************************************)
(* The tray children of the watcher (process_manager.cpp): the two maps    *)
(* ProcessManager keeps, and the kernel's process table they talk about.   *)
(*                                                                         *)
(* A process manager is a record                                           *)
(*   byIfindex     m_byIfindex: the pid tracked for an interface, or None  *)
(*   ifindexByPid  m_ifindexByPid: the interface of a tracked pid, or None *)
(*   children      the daemon's unreaped children; None is a free pid      *)
(* Operations are operators from a process manager to the process manager, *)
(* or to the set of process managers, they may leave behind: the watcher   *)
(* runs several of them inside one callback.                               *)
(***************************************************************************)
EXTENDS Host

-----------------------------------------------------------------------------
(* The daemon's children as the kernel keeps them: iface is the argv the   *)
(* tray was started with; sigterm, that a SIGTERM was sent to it; blocked, *)
(* that it still runs with the signal mask inherited over fork().          *)

Running == [st : {"running"}, iface : Name,
            sigterm : BOOLEAN, blocked : BOOLEAN]

Zombie == [st : {"zombie"}, iface : Name,
           sigterm : BOOLEAN, blocked : BOOLEAN]

Child == Running \cup Zombie

ASSUME NoneIsNoChild == None \notin Child

Processes == [byIfindex    : [Ifindex -> Pid \cup {None}],
              ifindexByPid : [Pid -> Ifindex \cup {None}],
              children     : [Pid -> Child \cup {None}]]

NoProcesses == [byIfindex    |-> [i \in Ifindex |-> None],
                ifindexByPid |-> [p \in Pid |-> None],
                children     |-> [p \in Pid |-> None]]

FreePids(P) == {p \in Pid : P.children[p] = None}

IsRunningChild(P, p) == P.children[p] \in Running

IsZombie(P, p) == P.children[p] \in Zombie

\* kill(pid, SIGTERM): only a process that still runs takes notice.
Signalled(child) ==
    IF child \in Running THEN [child EXCEPT !.sigterm = TRUE] ELSE child

-----------------------------------------------------------------------------
(* The operations of ProcessManager.                                       *)

isRunning(P, i) == P.byIfindex[i] # None

\* The interface name the tray tracked for i was started with.
TrayIface(P, i) == P.children[P.byIfindex[i]].iface

TrackedPids(P) == {p \in Pid : P.ifindexByPid[p] # None}

Forked(P, i, name, p) ==
    [byIfindex    |-> [P.byIfindex EXCEPT ![i] = p],
     ifindexByPid |-> [P.ifindexByPid EXCEPT ![p] = i],
     children     |-> [P.children EXCEPT ![p] =
                          [st |-> "running", iface |-> name,
                           sigterm |-> FALSE, blocked |-> TRUE]]]

ForkFails(P) == "fork" \in Faults \/ FreePids(P) = {}

start(P, i, name) ==
    IF isRunning(P, i)
    THEN {P}
    ELSE {Forked(P, i, name, p) : p \in FreePids(P)}
             \cup {Q \in {P} : ForkFails(P)}

\* Mutant: untracks the child without the SIGTERM.
stop_NoKill(P, i) ==
    IF ~isRunning(P, i)
    THEN P
    ELSE [P EXCEPT !.byIfindex[i] = None,
                   !.ifindexByPid[P.byIfindex[i]] = None]

stop(P, i) ==
    IF ~isRunning(P, i)
    THEN P
    ELSE LET p == P.byIfindex[i]
         IN  [byIfindex    |-> [P.byIfindex EXCEPT ![i] = None],
              ifindexByPid |-> [P.ifindexByPid EXCEPT ![p] = None],
              children     |-> [P.children EXCEPT ![p] = Signalled(@)]]

\* Mutant: the tracking by interface outlives the child.
Reaped_KeepsByIfindex(P, p) ==
    [P EXCEPT !.ifindexByPid[p] = None, !.children[p] = None]

\* Mutant: the child is collected and stays tracked.
Reaped_KeepsTracking(P, p) == [P EXCEPT !.children[p] = None]

\* waitpid() returned p, and the tracking of p, if any, is dropped.
Reaped(P, p) ==
    [byIfindex    |-> IF P.ifindexByPid[p] = None
                      THEN P.byIfindex
                      ELSE [P.byIfindex EXCEPT ![P.ifindexByPid[p]] = None],
     ifindexByPid |-> [P.ifindexByPid EXCEPT ![p] = None],
     children     |-> [P.children EXCEPT ![p] = None]]

\* Mutant: stopAll only waits.
AllSignalled_Nobody(P) == P

\* The loop at the head of stopAll: a SIGTERM to every tracked child.
AllSignalled(P) ==
    [P EXCEPT !.children =
        [p \in Pid |-> IF p \in TrackedPids(P)
                       THEN Signalled(P.children[p])
                       ELSE P.children[p]]]

-----------------------------------------------------------------------------
(* What the child and the kernel do on their own.                          *)

\* Mutant: the child keeps the mask it inherited.
Unblocked_KeepsMask(P, p) == P

\* The child empties its signal mask before it executes conwatch-tray.
Unblocked(P, p) == [P EXCEPT !.children[p].blocked = FALSE]

Exited(P, p) ==
    [P EXCEPT !.children[p] =
        [st |-> "zombie", iface |-> @.iface,
         sigterm |-> FALSE, blocked |-> FALSE]]

-----------------------------------------------------------------------------
(* What the operations preserve.                                           *)

\* The two maps are each other's inverse.
MapsInverse(P) ==
    /\ \A i \in Ifindex :
          isRunning(P, i) => P.ifindexByPid[P.byIfindex[i]] = i
    /\ \A p \in TrackedPids(P) : P.byIfindex[P.ifindexByPid[p]] = p

\* A tracked pid belongs to an unreaped child.
TrackedAreChildren(P) == \A p \in TrackedPids(P) : P.children[p] \in Child

\* A running child that is not tracked has been sent its SIGTERM.
UntrackedAreSignalled(P) ==
    \A p \in Pid :
        P.children[p] \in Running =>
            p \in TrackedPids(P) \/ P.children[p].sigterm

ProcessesInv(P) ==
    /\ P \in Processes
    /\ MapsInverse(P)
    /\ TrackedAreChildren(P)
    /\ UntrackedAreSignalled(P)
=============================================================================
