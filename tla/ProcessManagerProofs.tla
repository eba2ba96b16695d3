------------------------ MODULE ProcessManagerProofs ------------------------
(***************************************************************************)
(* Every operation of the process manager keeps the two tracking maps, the *)
(* process table and the SIGTERMs consistent (ProcessesInv), for any       *)
(* number of interfaces and processes; and what each operation does to the *)
(* tracking of an interface, which the watcher's proof relies on.          *)
(***************************************************************************)
EXTENDS ProcessManager, TLAPS

USE NoneAssumption, NoneIsNoChild

\* A process manager starts out consistent: it tracks nothing.
LEMMA NoProcessesInv == ProcessesInv(NoProcesses)
<1> DEFINE P == NoProcesses
<1>1. /\ \A i \in Ifindex : P.byIfindex[i] = None
      /\ \A p \in Pid : P.ifindexByPid[p] = None /\ P.children[p] = None
  BY DEF NoProcesses
<1>2. P \in Processes
  BY DEF NoProcesses, Processes
<1>3. MapsInverse(P) /\ TrackedAreChildren(P)
  BY <1>1 DEF MapsInverse, TrackedAreChildren, TrackedPids, isRunning
<1>4. UntrackedAreSignalled(P)
  BY <1>1 DEF UntrackedAreSignalled, Child
<1> QED  BY <1>2, <1>3, <1>4 DEF ProcessesInv

\* stop() of a tracked interface keeps it consistent: the child it untracks
\* has been signalled.
LEMMA StopInv ==
    ASSUME NEW P, ProcessesInv(P), NEW i \in Ifindex
    PROVE  ProcessesInv(stop(P, i))
<1>1. CASE ~isRunning(P, i)
  BY <1>1 DEF stop
<1>2. CASE isRunning(P, i)
  <2> DEFINE p == P.byIfindex[i]
             Q == stop(P, i)
  <2>1. p \in Pid /\ P.ifindexByPid[p] = i
    BY <1>2 DEF ProcessesInv, Processes, MapsInverse, isRunning
  <2>2. P.children[p] \in Child
    BY <2>1 DEF ProcessesInv, TrackedAreChildren, TrackedPids
  <2>3. /\ Q.byIfindex = [P.byIfindex EXCEPT ![i] = None]
        /\ Q.ifindexByPid = [P.ifindexByPid EXCEPT ![p] = None]
        /\ Q.children = [P.children EXCEPT ![p] = Signalled(P.children[p])]
    BY <1>2, <2>1 DEF stop, ProcessesInv, Processes
  <2>4. Signalled(P.children[p]) \in Child
    BY <2>2 DEF Signalled, Child, Running, Zombie
  <2>5. Q \in Processes
    BY <1>2, <2>1, <2>3, <2>4 DEF stop, ProcessesInv, Processes
  <2>6. MapsInverse(Q)
    BY <2>1, <2>3 DEF ProcessesInv, Processes, MapsInverse, isRunning,
                      TrackedPids
  <2>7. TrackedAreChildren(Q)
    BY <2>1, <2>3 DEF ProcessesInv, Processes, TrackedAreChildren, TrackedPids
  <2>8. UntrackedAreSignalled(Q)
    <3> SUFFICES ASSUME NEW q \in Pid, Q.children[q] \in Running,
                        q \notin TrackedPids(Q)
                 PROVE  Q.children[q].sigterm
      BY DEF UntrackedAreSignalled
    <3>1. CASE q = p
      <4>1. Q.children[q] = Signalled(P.children[p])
        BY <2>1, <2>3, <3>1 DEF ProcessesInv, Processes
      <4>2. P.children[p] \in Running
        BY <4>1 DEF Signalled
      <4>3. Q.children[q] = [P.children[p] EXCEPT !.sigterm = TRUE]
        BY <4>1, <4>2 DEF Signalled
      <4> QED  BY <4>2, <4>3 DEF Running
    <3>2. CASE q # p
      BY <2>1, <2>3, <3>2 DEF ProcessesInv, Processes, UntrackedAreSignalled,
                              TrackedPids
    <3> QED  BY <3>1, <3>2
  <2> QED  BY <2>5, <2>6, <2>7, <2>8 DEF ProcessesInv
<1> QED  BY <1>1, <1>2

\* start() keeps it consistent whether it forks, fails to or has nothing to do.
LEMMA StartInv ==
    ASSUME NEW P, ProcessesInv(P), NEW i \in Ifindex, NEW name \in Name,
           NEW Q \in start(P, i, name)
    PROVE  ProcessesInv(Q)
<1>1. CASE Q = P
  BY <1>1
<1>2. CASE /\ ~isRunning(P, i)
           /\ \E p \in FreePids(P) : Q = Forked(P, i, name, p)
  <2>1. PICK p \in FreePids(P) : Q = Forked(P, i, name, p)
    BY <1>2
  <2> DEFINE child == [st |-> "running", iface |-> name,
                       sigterm |-> FALSE, blocked |-> TRUE]
  <2>2. p \in Pid /\ P.children[p] = None
    BY DEF FreePids
  <2>3. P.ifindexByPid[p] = None
    BY <2>2 DEF ProcessesInv, TrackedAreChildren, TrackedPids
  <2>4. /\ Q.byIfindex = [P.byIfindex EXCEPT ![i] = p]
        /\ Q.ifindexByPid = [P.ifindexByPid EXCEPT ![p] = i]
        /\ Q.children = [P.children EXCEPT ![p] = child]
    BY <2>1 DEF Forked
  <2>5. child \in Running
    BY DEF Running
  <2>6. Q \in Processes
    BY <2>1, <2>2, <2>4, <2>5 DEF Forked, ProcessesInv, Processes, Child
  <2>7. MapsInverse(Q)
    BY <1>2, <2>2, <2>3, <2>4 DEF ProcessesInv, Processes, MapsInverse,
                                  isRunning, TrackedPids
  <2>8. TrackedAreChildren(Q)
    BY <2>2, <2>4, <2>5 DEF ProcessesInv, Processes, TrackedAreChildren,
                            TrackedPids, Child
  <2>9. UntrackedAreSignalled(Q)
    BY <2>2, <2>4 DEF ProcessesInv, Processes, UntrackedAreSignalled,
                      TrackedPids
  <2> QED  BY <2>6, <2>7, <2>8, <2>9 DEF ProcessesInv
<1> QED  BY <1>1, <1>2 DEF start

\* Collecting a dead child keeps it consistent, whether or not it is tracked.
LEMMA ReapedInv ==
    ASSUME NEW P, ProcessesInv(P), NEW p \in Pid, P.children[p] \in Zombie
    PROVE  ProcessesInv(Reaped(P, p))
<1> DEFINE Q == Reaped(P, p)
           i == P.ifindexByPid[p]
<1>1. /\ Q.ifindexByPid = [P.ifindexByPid EXCEPT ![p] = None]
      /\ Q.children = [P.children EXCEPT ![p] = None]
  BY DEF Reaped
<1>2. Q.byIfindex = IF i = None THEN P.byIfindex
                    ELSE [P.byIfindex EXCEPT ![i] = None]
  BY DEF Reaped
<1>3. i # None => i \in Ifindex /\ P.byIfindex[i] = p
  BY DEF ProcessesInv, Processes, MapsInverse, TrackedPids
<1>4. Q \in Processes
  BY <1>3 DEF Reaped, ProcessesInv, Processes
<1>5. MapsInverse(Q)
  BY <1>1, <1>2, <1>3 DEF ProcessesInv, Processes, MapsInverse, isRunning,
                          TrackedPids
<1>6. TrackedAreChildren(Q)
  BY <1>1 DEF ProcessesInv, Processes, TrackedAreChildren, TrackedPids
<1>7. UntrackedAreSignalled(Q)
  BY <1>1 DEF ProcessesInv, Processes, UntrackedAreSignalled, TrackedPids,
              Child
<1> QED  BY <1>4, <1>5, <1>6, <1>7 DEF ProcessesInv

\* Signalling every tracked child keeps it consistent, and afterwards every
\* child that runs has been sent its SIGTERM.
LEMMA AllSignalledInv ==
    ASSUME NEW P, ProcessesInv(P)
    PROVE  /\ ProcessesInv(AllSignalled(P))
           /\ \A p \in Pid :
                 AllSignalled(P).children[p] \in Running =>
                     AllSignalled(P).children[p].sigterm
<1> DEFINE Q == AllSignalled(P)
<1>1. /\ Q.byIfindex = P.byIfindex
      /\ Q.ifindexByPid = P.ifindexByPid
      /\ \A p \in Pid : Q.children[p] = IF p \in TrackedPids(P)
                                        THEN Signalled(P.children[p])
                                        ELSE P.children[p]
  BY DEF AllSignalled, ProcessesInv, Processes
<1>2. TrackedPids(Q) = TrackedPids(P)
  BY <1>1 DEF TrackedPids
<1>3. ASSUME NEW c \in Child
      PROVE  /\ Signalled(c) \in Child
             /\ Signalled(c) \in Running => Signalled(c).sigterm
  BY <1>3 DEF Signalled, Child, Running, Zombie
<1>4. \A p \in Pid : Q.children[p] \in Child \cup {None}
  BY <1>1, <1>3 DEF ProcessesInv, Processes, TrackedAreChildren
<1>5. Q \in Processes
  BY <1>1, <1>4 DEF AllSignalled, ProcessesInv, Processes
<1>6. MapsInverse(Q)
  BY <1>1, <1>2 DEF ProcessesInv, MapsInverse, isRunning
<1>7. TrackedAreChildren(Q)
  BY <1>1, <1>2, <1>3 DEF ProcessesInv, TrackedAreChildren, TrackedPids
<1>8. \A p \in Pid : Q.children[p] \in Running => Q.children[p].sigterm
  <2> SUFFICES ASSUME NEW p \in Pid, Q.children[p] \in Running
               PROVE  Q.children[p].sigterm
    OBVIOUS
  <2>1. CASE p \in TrackedPids(P)
    BY <1>1, <1>3, <2>1 DEF ProcessesInv, TrackedAreChildren
  <2>2. CASE p \notin TrackedPids(P)
    BY <1>1, <2>2 DEF ProcessesInv, UntrackedAreSignalled
  <2> QED  BY <2>1, <2>2
<1>9. UntrackedAreSignalled(Q)
  BY <1>8 DEF UntrackedAreSignalled
<1> QED  BY <1>5, <1>6, <1>7, <1>8, <1>9 DEF ProcessesInv

\* The child's own steps keep it consistent: emptying the signal mask ...
LEMMA UnblockedInv ==
    ASSUME NEW P, ProcessesInv(P), NEW p \in Pid, P.children[p] \in Running
    PROVE  ProcessesInv(Unblocked(P, p))
<1> DEFINE Q == Unblocked(P, p)
           child == [P.children[p] EXCEPT !.blocked = FALSE]
<1>1. /\ Q.byIfindex = P.byIfindex
      /\ Q.ifindexByPid = P.ifindexByPid
      /\ Q.children = [P.children EXCEPT ![p] = child]
  BY DEF Unblocked, ProcessesInv, Processes
<1>2. child \in Running /\ child.sigterm = P.children[p].sigterm
  BY DEF Running
<1>3. Q \in Processes
  BY <1>1, <1>2 DEF Unblocked, ProcessesInv, Processes, Child
<1>4. MapsInverse(Q) /\ TrackedAreChildren(Q)
  BY <1>1, <1>2 DEF ProcessesInv, Processes, MapsInverse, isRunning,
                    TrackedPids, TrackedAreChildren, Child
<1>5. UntrackedAreSignalled(Q)
  BY <1>1, <1>2 DEF ProcessesInv, Processes, UntrackedAreSignalled, TrackedPids
<1> QED  BY <1>3, <1>4, <1>5 DEF ProcessesInv

\* ... and ending.
LEMMA ExitedInv ==
    ASSUME NEW P, ProcessesInv(P), NEW p \in Pid, P.children[p] \in Running
    PROVE  ProcessesInv(Exited(P, p))
<1> DEFINE Q == Exited(P, p)
           child == [st |-> "zombie", iface |-> P.children[p].iface,
                     sigterm |-> FALSE, blocked |-> FALSE]
<1>1. /\ Q.byIfindex = P.byIfindex
      /\ Q.ifindexByPid = P.ifindexByPid
      /\ Q.children = [P.children EXCEPT ![p] = child]
  BY DEF Exited, ProcessesInv, Processes
<1>2. child \in Zombie /\ child \notin Running
  BY DEF Running, Zombie
<1>3. Q \in Processes
  BY <1>1, <1>2 DEF Exited, ProcessesInv, Processes, Child
<1>4. MapsInverse(Q) /\ TrackedAreChildren(Q)
  BY <1>1, <1>2 DEF ProcessesInv, Processes, MapsInverse, isRunning,
                    TrackedPids, TrackedAreChildren, Child
<1>5. UntrackedAreSignalled(Q)
  BY <1>1, <1>2 DEF ProcessesInv, Processes, UntrackedAreSignalled, TrackedPids
<1> QED  BY <1>3, <1>4, <1>5 DEF ProcessesInv

-----------------------------------------------------------------------------
(* What an operation does to the trays of interfaces.                      *)

\* From P to Q the interfaces in S gain no tray, and a tray kept keeps the
\* name it was started with.
NoNewTrays(P, Q, S) ==
    \A j \in S :
        isRunning(Q, j) =>
            isRunning(P, j) /\ TrayIface(Q, j) = TrayIface(P, j)

\* stop(i) untracks i and concerns no other interface.
LEMMA StopTrays ==
    ASSUME NEW P, ProcessesInv(P), NEW i \in Ifindex
    PROVE  /\ ~isRunning(stop(P, i), i)
           /\ NoNewTrays(P, stop(P, i), Ifindex)
<1>1. CASE ~isRunning(P, i)
  BY <1>1 DEF stop, NoNewTrays
<1>2. CASE isRunning(P, i)
  <2> DEFINE p == P.byIfindex[i]
             Q == stop(P, i)
  <2>1. p \in Pid /\ P.ifindexByPid[p] = i
    BY <1>2 DEF ProcessesInv, Processes, MapsInverse, isRunning
  <2>2. /\ Q.byIfindex = [P.byIfindex EXCEPT ![i] = None]
        /\ Q.children = [P.children EXCEPT ![p] = Signalled(P.children[p])]
    BY <1>2, <2>1 DEF stop, ProcessesInv, Processes
  <2>3. ~isRunning(Q, i)
    BY <2>2 DEF isRunning, ProcessesInv, Processes
  <2>4. ASSUME NEW j \in Ifindex, isRunning(Q, j)
        PROVE  isRunning(P, j) /\ TrayIface(Q, j) = TrayIface(P, j)
    <3>1. j # i /\ Q.byIfindex[j] = P.byIfindex[j]
      BY <2>2, <2>3, <2>4 DEF ProcessesInv, Processes
    <3>2. isRunning(P, j)
      BY <2>4, <3>1 DEF isRunning
    <3>3. P.byIfindex[j] # p
      BY <2>1, <3>1, <3>2 DEF ProcessesInv, MapsInverse
    <3> QED  BY <2>1, <2>2, <3>1, <3>2, <3>3
             DEF TrayIface, ProcessesInv, Processes
  <2> QED  BY <2>3, <2>4 DEF NoNewTrays
<1> QED  BY <1>1, <1>2

\* start(i, name) of an interface without a tray gives it one under that name,
\* if any, and concerns no other interface.
LEMMA StartTrays ==
    ASSUME NEW P, ProcessesInv(P), NEW i \in Ifindex, NEW name \in Name,
           ~isRunning(P, i), NEW Q \in start(P, i, name)
    PROVE  /\ NoNewTrays(P, Q, Ifindex \ {i})
           /\ isRunning(Q, i) => TrayIface(Q, i) = name
<1>1. CASE Q = P
  BY <1>1 DEF NoNewTrays
<1>2. CASE \E p \in FreePids(P) : Q = Forked(P, i, name, p)
  <2>1. PICK p \in FreePids(P) : Q = Forked(P, i, name, p)
    BY <1>2
  <2> DEFINE child == [st |-> "running", iface |-> name,
                       sigterm |-> FALSE, blocked |-> TRUE]
  <2>2. p \in Pid /\ P.children[p] = None
    BY DEF FreePids
  <2>3. /\ Q.byIfindex = [P.byIfindex EXCEPT ![i] = p]
        /\ Q.children = [P.children EXCEPT ![p] = child]
    BY <2>1 DEF Forked
  <2>4. TrayIface(Q, i) = name
    BY <2>2, <2>3 DEF TrayIface, ProcessesInv, Processes
  <2>5. ASSUME NEW j \in Ifindex \ {i}, isRunning(Q, j)
        PROVE  isRunning(P, j) /\ TrayIface(Q, j) = TrayIface(P, j)
    <3>1. Q.byIfindex[j] = P.byIfindex[j]
      BY <2>3 DEF ProcessesInv, Processes
    <3>2. isRunning(P, j)
      BY <2>5, <3>1 DEF isRunning
    <3>3. P.byIfindex[j] \in TrackedPids(P)
      BY <3>2 DEF ProcessesInv, Processes, MapsInverse, isRunning, TrackedPids
    <3>4. P.byIfindex[j] # p
      BY <2>2, <3>3 DEF ProcessesInv, TrackedAreChildren
    <3> QED  BY <2>2, <2>3, <3>1, <3>2, <3>3, <3>4
             DEF TrayIface, ProcessesInv, Processes, TrackedPids
  <2> QED  BY <2>4, <2>5 DEF NoNewTrays
<1> QED  BY <1>1, <1>2 DEF start

\* Collecting a child gives no interface a tray.
LEMMA ReapedTrays ==
    ASSUME NEW P, ProcessesInv(P), NEW p \in Pid
    PROVE  NoNewTrays(P, Reaped(P, p), Ifindex)
<1> DEFINE Q == Reaped(P, p)
           i == P.ifindexByPid[p]
<1>1. /\ Q.children = [P.children EXCEPT ![p] = None]
      /\ Q.byIfindex = IF i = None THEN P.byIfindex
                       ELSE [P.byIfindex EXCEPT ![i] = None]
  BY DEF Reaped
<1>2. ASSUME NEW j \in Ifindex, isRunning(Q, j)
      PROVE  isRunning(P, j) /\ TrayIface(Q, j) = TrayIface(P, j)
  <2>1. isRunning(P, j) /\ Q.byIfindex[j] = P.byIfindex[j] /\ j # i
    BY <1>1, <1>2 DEF isRunning, ProcessesInv, Processes
  <2>2. P.byIfindex[j] # p
    BY <2>1 DEF ProcessesInv, MapsInverse
  <2> QED  BY <1>1, <2>1, <2>2 DEF TrayIface, ProcessesInv, Processes, isRunning
<1> QED  BY <1>2 DEF NoNewTrays

\* A SIGTERM to every tray changes neither what is tracked nor a tray's name.
LEMMA AllSignalledTrays ==
    ASSUME NEW P, ProcessesInv(P)
    PROVE  NoNewTrays(P, AllSignalled(P), Ifindex)
<1>1. AllSignalled(P).byIfindex = P.byIfindex
  BY DEF AllSignalled, ProcessesInv, Processes
<1>2. ASSUME NEW j \in Ifindex, isRunning(P, j)
      PROVE  TrayIface(AllSignalled(P), j) = TrayIface(P, j)
  <2> DEFINE p == P.byIfindex[j]
  <2>1. p \in Pid /\ p \in TrackedPids(P)
    BY <1>2 DEF ProcessesInv, Processes, MapsInverse, isRunning, TrackedPids
  <2>2. AllSignalled(P).children[p] = Signalled(P.children[p])
    BY <2>1 DEF AllSignalled, ProcessesInv, Processes
  <2>3. Signalled(P.children[p]).iface = P.children[p].iface
    BY DEF Signalled, Running
  <2> QED  BY <1>1, <2>2, <2>3 DEF TrayIface
<1> QED  BY <1>1, <1>2 DEF NoNewTrays, isRunning

\* Nor do the steps of a child.
LEMMA ChildTrays ==
    ASSUME NEW P, ProcessesInv(P), NEW p \in Pid, P.children[p] \in Running
    PROVE  /\ NoNewTrays(P, Unblocked(P, p), Ifindex)
           /\ NoNewTrays(P, Exited(P, p), Ifindex)
<1>1. Unblocked(P, p).byIfindex = P.byIfindex
  BY DEF Unblocked, ProcessesInv, Processes
<1>2. Exited(P, p).byIfindex = P.byIfindex
  BY DEF Exited, ProcessesInv, Processes
<1>3. ASSUME NEW q \in Pid
      PROVE  /\ Unblocked(P, p).children[q].iface = P.children[q].iface
             /\ Exited(P, p).children[q].iface = P.children[q].iface
  BY DEF Unblocked, Exited, ProcessesInv, Processes, Running
<1>4. \A j \in Ifindex : isRunning(P, j) => P.byIfindex[j] \in Pid
  BY DEF isRunning, ProcessesInv, Processes
<1> QED  BY <1>1, <1>2, <1>3, <1>4 DEF NoNewTrays, isRunning, TrayIface
=============================================================================
