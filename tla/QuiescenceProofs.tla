-------------------------- MODULE QuiescenceProofs --------------------------
(***************************************************************************)
(* Where the parts of the watcher meet.  When the queue is empty after the *)
(* dump, what SyncProofs knows of the view, SupervisionProofs of the trays *)
(* and WatcherProofs of the process manager add up to the trays the links  *)
(* want.  And at the very end: stopAll gives up after MaxWaits waits, each *)
(* of which may return a child that was untracked long ago; it still       *)
(* collects all it tracks as long as no more processes can exist than it   *)
(* is ready to wait for.                                                   *)
(***************************************************************************)
EXTENDS SyncProofs, SupervisionProofs, FiniteSetTheorems

-----------------------------------------------------------------------------
(* Quiet.                                                                  *)

\* With nothing left to read, the daemon's view is the kernel's table.
LEMMA QuietView ==
    ASSUME Synced, DumpLeavesNoGap, sock = "dumped", queue = << >>,
           NEW i \in Ifindex
    PROVE  m_ifaces[i] = View(links[i])
<1>1. unseen = {} /\ MessagesAbout(i) = {}
  BY DEF DumpLeavesNoGap, MessagesAbout
<1> QED  BY <1>1 DEF Synced

\* A tray nobody has told to end is tracked, for a link that wants it.
LEMMA AliveIsWanted ==
    ASSUME Inv, \A i \in Ifindex : m_ifaces[i] = View(links[i]),
           NEW p \in Pid, IsAlive(m_processes, p)
    PROVE  \E i \in Ifindex :
               /\ Tracked(i)
               /\ m_processes.byIfindex[i] = p
               /\ TrayIface(m_processes, i) = m_processes.children[p].iface
               /\ WantsTray(m_processes.children[p].iface)
<1> DEFINE i == m_processes.ifindexByPid[p]
           name == m_processes.children[p].iface
<1>1. p \in TrackedPids(m_processes)
  BY DEF Inv, ProcessesInv, UntrackedAreSignalled, IsAlive, IsRunningChild
<1>2. i \in Ifindex /\ m_processes.byIfindex[i] = p
  BY <1>1 DEF Inv, ProcessesInv, Processes, MapsInverse, TrackedPids
<1>3. Tracked(i) /\ TrayIface(m_processes, i) = name
  BY <1>2, NoneAssumption DEF Tracked, isRunning, TrayIface
<1>4. WasUp(i) /\ m_ifaces[i].name = name /\ isEligible(m_cfg, name)
  BY <1>2, <1>3 DEF Inv, TrayMatchesKnownLink
<1>5. /\ links[i] # None
      /\ links[i].name = name
      /\ isOperationallyUp(links[i].flags)
  <2>1. links[i] # None
    BY <1>2, <1>4 DEF View, WasUp
  <2>2. m_ifaces[i] = [name  |-> links[i].name,
                       wasUp |-> isOperationallyUp(links[i].flags)]
    BY <1>2, <2>1 DEF View
  <2>3. m_ifaces[i].wasUp = isOperationallyUp(links[i].flags)
    BY <2>2
  <2> QED  BY <1>4, <2>1, <2>2, <2>3 DEF WasUp
<1>6. WantsTray(name)
  BY <1>2, <1>4, <1>5 DEF WantsTray, Present
<1> QED  BY <1>2, <1>3, <1>6

\* A link that wants a tray has one nobody has told to end.
LEMMA WantedIsAlive ==
    ASSUME Inv, Unsignalled(m_processes), KnownUp,
           \A i \in Ifindex : m_ifaces[i] = View(links[i]),
           NEW name \in Name, WantsTray(name)
    PROVE  \E p \in Pid : /\ IsAlive(m_processes, p)
                          /\ m_processes.children[p].iface = name
<1>1. PICK i \in Present : /\ links[i].name = name
                           /\ isOperationallyUp(links[i].flags)
  BY DEF WantsTray
<1>2. i \in Ifindex /\ links[i] # None
  BY DEF Present
<1>3. m_ifaces[i] = [name |-> name, wasUp |-> TRUE]
  <2>1. isOperationallyUp(links[i].flags) = TRUE
    BY <1>1 DEF isOperationallyUp
  <2> QED  BY <1>1, <1>2, <2>1 DEF View
<1>4. WasUp(i) /\ m_ifaces[i].name = name
  <2>1. m_ifaces[i] \in IfaceState
    <3>1. [name |-> name, wasUp |-> TRUE] \in IfaceState
      BY DEF IfaceState
    <3> QED  BY <1>3, <3>1
  <2>2. m_ifaces[i] # None
    BY <2>1, NoneIsNoIfaceState
  <2>3. m_ifaces[i].name = name /\ m_ifaces[i].wasUp
    BY <1>3
  <2> QED  BY <2>2, <2>3 DEF WasUp
<1>5. TrayOf(m_processes, i) # None
  BY <1>2, <1>4 DEF KnownUp, WantsTray
<1> DEFINE p == m_processes.byIfindex[i]
<1>6. isRunning(m_processes, i)
  BY <1>5 DEF TrayOf
<1>7. p \in Pid /\ m_processes.ifindexByPid[p] = i
  BY <1>2, <1>6 DEF Inv, ProcessesInv, Processes, MapsInverse, isRunning
<1>8. IsAlive(m_processes, p)
  BY <1>2, <1>7, NoneAssumption
  DEF Unsignalled, TrackedPids, IsAlive, IsRunningChild
<1>9. m_processes.children[p].iface = name
  BY <1>2, <1>4, <1>6 DEF Inv, TrayMatchesKnownLink, Tracked, TrayIface
<1> QED  BY <1>7, <1>8, <1>9

LEMMA QuietAddsUp ==
    ASSUME Inv, Synced, DumpLeavesNoGap, OneTrayPerName, AliveInv
    PROVE  QuietIsRight
<1> SUFFICES ASSUME sock = "dumped", queue = << >>,
                    pc \notin {"waitAll", "exited"}, NEW name \in Name
             PROVE  LET alive == {p \in LiveTrays(name) :
                                     IsAlive(m_processes, p)}
                    IN  IF WantsTray(name)
                        THEN \E p \in Pid : alive = {p}
                        ELSE alive = {}
  BY DEF QuietIsRight
<1> DEFINE alive == {p \in LiveTrays(name) : IsAlive(m_processes, p)}
<1>1. \A i \in Ifindex : m_ifaces[i] = View(links[i])
  BY QuietView
<1>2. \A p : p \in alive <=> /\ p \in Pid
                             /\ IsAlive(m_processes, p)
                             /\ m_processes.children[p].iface = name
  BY DEF LiveTrays, IsAlive
<1>3. ASSUME NEW p \in alive, NEW q \in alive
      PROVE  p = q
  <2>1. PICK i \in Ifindex :
          /\ Tracked(i)
          /\ m_processes.byIfindex[i] = p
          /\ TrayIface(m_processes, i) = name
    BY <1>1, <1>2, AliveIsWanted
  <2>2. PICK j \in Ifindex :
          /\ Tracked(j)
          /\ m_processes.byIfindex[j] = q
          /\ TrayIface(m_processes, j) = name
    BY <1>1, <1>2, AliveIsWanted
  <2>3. i = j
    BY <2>1, <2>2 DEF OneTrayPerName
  <2> QED  BY <2>1, <2>2, <2>3
<1>4. CASE WantsTray(name)
  <2>1. Unsignalled(m_processes) /\ KnownUp
    BY DEF AliveInv
  <2>2. PICK p \in Pid : p \in alive
    BY <1>1, <1>2, <1>4, <2>1, WantedIsAlive
  <2>3. alive = {p}
    BY <1>3, <2>2
  <2> QED  BY <1>4, <2>3
<1>5. CASE ~WantsTray(name)
  <2>1. alive = {}
    BY <1>1, <1>2, <1>5, AliveIsWanted
  <2> QED  BY <1>5, <2>1
<1> QED  BY <1>4, <1>5

-----------------------------------------------------------------------------
(* There is a free pid where there is no end of them.                      *)

\* From P to Q no pid is taken but x.
TakesOnly(P, Q, x) ==
    \A q \in Pid \ {x} : P.children[q] = None => Q.children[q] = None

LEMMA StopTakesNone ==
    ASSUME NEW P, ProcessesInv(P), NEW i \in Ifindex
    PROVE  TakesOnly(P, stop(P, i), None)
<1> SUFFICES ASSUME NEW q \in Pid, P.children[q] = None
             PROVE  stop(P, i).children[q] = None
  BY DEF TakesOnly
<1>1. ~(isRunning(P, i) /\ P.byIfindex[i] = q)
  <2>1. q \notin TrackedPids(P)
    BY NoneIsNoChild DEF ProcessesInv, TrackedAreChildren
  <2> QED  BY <2>1, NoneAssumption
           DEF ProcessesInv, MapsInverse, TrackedPids
<1> QED  BY <1>1, StopChildren

LEMMA StartTakesOne ==
    ASSUME NEW P, ProcessesInv(P), NEW i \in Ifindex, NEW name \in Name,
           NEW Q \in startIfEligible(P, i, name)
    PROVE  \E x : TakesOnly(P, Q, x)
<1>1. CASE Q = P
  BY <1>1 DEF TakesOnly
<1>2. CASE \E x \in FreePids(P) : Q = Forked(P, i, name, x)
  <2>1. PICK x \in FreePids(P) : Q = Forked(P, i, name, x)
    BY <1>2
  <2>2. TakesOnly(P, Q, x)
    BY <2>1 DEF Forked, TakesOnly, ProcessesInv, Processes
  <2> QED  BY <2>2
<1> QED  BY <1>1, <1>2 DEF startIfEligible, start

\* A callback forks once at most.
LEMMA MessageTakesOne ==
    ASSUME ProcessesInv(m_processes), NEW message \in Message,
           handleMessage(message)
    PROVE  \E x : TakesOnly(m_processes, m_processes', x)
<1> DEFINE P == m_processes
           Q == m_processes'
           i == message.ifindex
<1>1. CASE message.type = "DONE"
  BY <1>1 DEF handleMessage, TakesOnly
<1>2. CASE message.type = "DELLINK"
  <2>1. i \in Ifindex /\ Q \in {stop(P, i), P}
    BY <1>2 DEF handleMessage, onRemoved, Message, Done
  <2> QED  BY <2>1, StopTakesNone DEF TakesOnly
<1>3. CASE message.type = "NEWLINK"
  <2> DEFINE name == message.link.name
             isUp == isOperationallyUp(message.link.flags)
  <2>1. i \in Ifindex /\ name \in Name
    BY <1>3 DEF Message, Done, Link
  <2>2. Q \in ProcessesAfterChange(i, name, isUp)
    BY <1>3 DEF handleMessage, onChange
  <2>3. \/ Q \in {P, stop(P, i)}
        \/ Q \in startIfEligible(P, i, name)
        \/ Q \in startIfEligible(stop(P, i), i, name)
    BY <2>2 DEF ProcessesAfterChange
  <2>4. CASE Q \in {P, stop(P, i)}
    BY <2>1, <2>4, StopTakesNone DEF TakesOnly
  <2>5. CASE Q \in startIfEligible(P, i, name)
    BY <2>1, <2>5, StartTakesOne
  <2>6. CASE Q \in startIfEligible(stop(P, i), i, name)
    <3>1. TakesOnly(P, stop(P, i), None)
      BY <2>1, StopTakesNone
    <3>2. PICK x : TakesOnly(stop(P, i), Q, x)
      BY <2>1, <2>6, StopInv, StartTakesOne
    <3>3. TakesOnly(P, Q, x)
      BY <3>1, <3>2, NoneAssumption DEF TakesOnly
    <3> QED  BY <3>3
  <2> QED  BY <2>3, <2>4, <2>5, <2>6
<1> QED  BY <1>1, <1>2, <1>3 DEF handleMessage

LEMMA StepTakesOne ==
    ASSUME Inv, [Next]_vars
    PROVE  \E x : TakesOnly(m_processes, m_processes', x)
<1>0. ProcessesInv(m_processes) /\ NetlinkTypeOK
  BY DEF Inv, TypeOK
<1>1. CASE UNCHANGED m_processes
  BY <1>1 DEF TakesOnly
<1>2. CASE ProcessMessage
  <2>1. Head(queue) \in Message /\ handleMessage(Head(queue))
    BY <1>0, <1>2 DEF ProcessMessage, Recv, NetlinkTypeOK
  <2> QED  BY <1>0, <2>1, MessageTakesOne
<1>3. CASE reapExited \/ WaitAll
  <2>1. PICK p \in Pid : m_processes' = Reaped(m_processes, p)
    BY <1>3 DEF reapExited, WaitAll
  <2>2. TakesOnly(m_processes, m_processes', p)
    BY <1>0, <2>1 DEF Reaped, TakesOnly, ProcessesInv, Processes
  <2> QED  BY <2>2
<1>4. CASE SignalAll
  <2>1. \A p \in Pid : m_processes.children[p] = None =>
            p \notin TrackedPids(m_processes)
    BY <1>0, NoneIsNoChild DEF ProcessesInv, TrackedAreChildren
  <2>2. TakesOnly(m_processes, m_processes', None)
    BY <1>0, <1>4, <2>1
    DEF SignalAll, AllSignalled, TakesOnly, ProcessesInv, Processes
  <2> QED  BY <2>2
<1>5. CASE ChildStep
  <2>1. PICK p \in Pid : ChildUnblocks(p) \/ ChildExits(p)
    BY <1>5 DEF ChildStep
  <2>2. TakesOnly(m_processes, m_processes', p)
    BY <1>0, <2>1
    DEF ChildUnblocks, ChildExits, Unblocked, Exited, TakesOnly, ProcessesInv,
        Processes
  <2> QED  BY <2>2
<1>6. CASE OpenSocket \/ RequestDump \/ openSignalFd
  BY <1>1, <1>6
  DEF OpenSocket, RequestDump, openSignalFd, StartupUnchanged
<1>7. CASE \/ Poll \/ LeaveLoop \/ MessagesDone \/ ReadSignal \/ SignalsDone
           \/ ReapDone \/ Exit
  BY <1>1, <1>7
  DEF Poll, LeaveLoop, MessagesDone, ReadSignal, SignalsDone, ReapDone, Exit
<1>8. CASE LinkStep \/ Terminate \/ UNCHANGED vars
  BY <1>1, <1>8 DEF LinkStep, Terminate, vars, daemonVars
<1> QED
  BY <1>2, <1>3, <1>4, <1>5, <1>6, <1>7, <1>8 DEF Next, DaemonStep, Finished

Unreaped == {p \in Pid : m_processes.children[p] # None}

FewChildren == IsFiniteSet(Unreaped)

\* The daemon has finitely many unreaped children at any time, so where there is
\* no end of pids there is always a free one, and the hypothesis of NoTrayMissing
\* and TraysAreRightWhenQuiet holds.
THEOREM PidsNeverRunOut ==
    ASSUME ~IsFiniteSet(Pid)
    PROVE  Spec => [](FreePids(m_processes) # {})
<1>1. Init => FewChildren
  <2> SUFFICES ASSUME Init PROVE IsFiniteSet(Unreaped)
    BY DEF FewChildren
  <2>1. Unreaped = {}
    BY DEF Init, NoProcesses, Unreaped
  <2> QED  BY <2>1, FS_EmptySet
<1>2. Inv /\ FewChildren /\ [Next]_vars => FewChildren'
  <2> SUFFICES ASSUME Inv, IsFiniteSet(Unreaped), [Next]_vars
               PROVE  IsFiniteSet(Unreaped')
    BY DEF FewChildren
  <2>1. PICK x : TakesOnly(m_processes, m_processes', x)
    BY StepTakesOne
  <2>2. Unreaped' \subseteq Unreaped \cup {x}
    BY <2>1 DEF TakesOnly, Unreaped
  <2>3. IsFiniteSet(Unreaped \cup {x})
    BY FS_AddElement
  <2> QED  BY <2>2, <2>3, FS_Subset
<1>3. FewChildren => FreePids(m_processes) # {}
  <2> SUFFICES ASSUME IsFiniteSet(Unreaped), FreePids(m_processes) = {}
               PROVE  FALSE
    BY DEF FewChildren
  <2>1. Unreaped = Pid
    BY DEF Unreaped, FreePids
  <2> QED  BY <2>1
<1> QED  BY <1>1, <1>2, <1>3, Invariance, PTL DEF Spec

-----------------------------------------------------------------------------
(* What the daemon promises when it is quiet.                              *)

\* The watcher's promise: as long as forks succeed, no tray ends by itself and
\* no notification is dropped, whenever nothing is left to read after the dump
\* each eligible link that is up has exactly one tray nobody has asked to end,
\* and no other name has any.
THEOREM TraysAreRightWhenQuiet ==
    ASSUME ForksSucceed
    PROVE  Spec /\ []~overrun /\ [](FreePids(m_processes) # {}) => []QuietIsRight
<1>1. Inv /\ AliveInv /\ FreePids(m_processes) # {} /\ [Next]_vars => AliveInv'
  BY AliveNext
<1>2. Spec /\ [](FreePids(m_processes) # {}) => []AliveInv
  BY <1>1, AliveInit, Invariance, PTL DEF Spec
<1>3. /\ Inv /\ Synced /\ DumpLeavesNoGap /\ OneTrayPerName /\ AliveInv
      => QuietIsRight
  BY QuietAddsUp
<1> QED  BY <1>2, <1>3, Invariance, ViewCatchesUp, NoLinkOverlooked,
            NoTwoTraysOfOneName, PTL

-----------------------------------------------------------------------------
(* The end.                                                                *)

\* Each wait of stopAll leaves one child less, and nothing starts another.
WaitsSuffice ==
    /\ pc \notin {"waitAll", "exited"} => waits = 0
    /\ pc = "waitAll" => waits + Cardinality(Unreaped) <= MaxWaits
    /\ ShutdownReapsAll

FewProcesses == IsFiniteSet(Pid) /\ Cardinality(Pid) <= MaxWaits

LEMMA UnreapedFinite ==
    ASSUME FewProcesses
    PROVE  /\ IsFiniteSet(Unreaped)
           /\ Cardinality(Unreaped) \in Nat
           /\ Cardinality(Unreaped) <= MaxWaits
<1>1. Unreaped \subseteq Pid
  BY DEF Unreaped
<1>2. IsFiniteSet(Unreaped) /\ Cardinality(Unreaped) <= Cardinality(Pid)
  BY <1>1, FS_Subset DEF FewProcesses
<1>3. Cardinality(Unreaped) \in Nat /\ Cardinality(Pid) \in Nat
  BY <1>2, FS_CardinalityType DEF FewProcesses
<1> QED  BY <1>2, <1>3, MaxWaitsAssumption DEF FewProcesses

\* Nothing is tracked that is not an unreaped child.
LEMMA TrackedAreUnreaped == ASSUME Inv
                            PROVE  TrackedPids(m_processes) \subseteq Unreaped
BY NoneIsNoChild
DEF Inv, ProcessesInv, TrackedAreChildren, TrackedPids, Unreaped

LEMMA NothingTrackedEarly ==
    ASSUME Inv, pc \in {"open", "request", "signalfd"}
    PROVE  TrackedPids(m_processes) = {}
BY DEF Inv, NoChildrenYet, NoProcesses, TrackedPids

LEMMA WaitsSufficeInit == Init => WaitsSuffice
BY DEF Init, WaitsSuffice, ShutdownReapsAll

LEMMA WaitsSufficeNext ==
    ASSUME FewProcesses, Inv, WaitsSuffice, [Next]_vars
    PROVE  WaitsSuffice'
<1> USE MaxWaitsAssumption
<1>0. waits \in 0 .. MaxWaits
  BY DEF Inv, TypeOK
<1>1. CASE OpenSocket \/ RequestDump \/ openSignalFd
  <2>1. /\ pc \in {"open", "request", "signalfd"}
        /\ pc' \in {"request", "signalfd", "poll", "exited"}
        /\ UNCHANGED << m_processes, waits >>
    BY <1>1 DEF OpenSocket, RequestDump, openSignalFd, StartupUnchanged, Goto
  <2> QED  BY <2>1, NothingTrackedEarly
           DEF WaitsSuffice, ShutdownReapsAll, TrackedPids
<1>2. CASE Poll \/ LeaveLoop \/ MessagesDone \/ ReadSignal \/ SignalsDone \/ ReapDone
  <2>1. /\ pc \notin {"waitAll", "exited"}
        /\ pc' \notin {"waitAll", "exited"}
        /\ UNCHANGED waits
    BY <1>2 DEF Poll, LeaveLoop, MessagesDone, ReadSignal, SignalsDone,
                ReapDone, Goto
  <2> QED  BY <2>1 DEF WaitsSuffice, ShutdownReapsAll
<1>3. CASE ProcessMessage \/ reapExited
  <2>1. /\ pc \notin {"waitAll", "exited"}
        /\ UNCHANGED << pc, waits >>
    BY <1>3 DEF ProcessMessage, reapExited
  <2> QED  BY <2>1 DEF WaitsSuffice, ShutdownReapsAll
<1>4. CASE SignalAll
  <2>1. pc = "stopAll" /\ pc' = "waitAll" /\ waits' = 0
    BY <1>4 DEF SignalAll, Goto, WaitsSuffice
  <2>2. Unreaped' \subseteq Pid
    BY DEF Unreaped
  <2>3. Cardinality(Unreaped') \in Nat /\ Cardinality(Unreaped') <= MaxWaits
    <3>1. /\ IsFiniteSet(Unreaped')
          /\ Cardinality(Unreaped') <= Cardinality(Pid)
      BY <2>2, FS_Subset DEF FewProcesses
    <3>2. Cardinality(Unreaped') \in Nat /\ Cardinality(Pid) \in Nat
      BY <3>1, FS_CardinalityType DEF FewProcesses
    <3> QED  BY <3>1, <3>2 DEF FewProcesses
  <2> QED  BY <2>1, <2>3 DEF WaitsSuffice, ShutdownReapsAll
<1>5. CASE WaitAll
  <2>1. PICK p \in Pid : /\ IsZombie(m_processes, p)
                         /\ m_processes' = Reaped(m_processes, p)
    BY <1>5 DEF WaitAll
  <2>2. p \in Unreaped
    BY <2>1, NoneIsNoChild DEF IsZombie, Unreaped, Child
  <2>3. Unreaped' = Unreaped \ {p}
    <3>1. m_processes'.children = [m_processes.children EXCEPT ![p] = None]
      BY <2>1 DEF Reaped
    <3> QED  BY <3>1 DEF Unreaped, Inv, TypeOK, Processes
  <2>4. Cardinality(Unreaped') = Cardinality(Unreaped) - 1
    BY <2>2, <2>3, UnreapedFinite, FS_RemoveElement
  <2>5. pc = "waitAll" /\ pc' = "waitAll" /\ waits' = waits + 1
    BY <1>5 DEF WaitAll
  <2> QED  BY <1>0, <2>4, <2>5, UnreapedFinite
           DEF WaitsSuffice, ShutdownReapsAll
<1>6. CASE Exit
  <2>1. /\ pc = "waitAll" /\ pc' = "exited"
        /\ ~KeepsWaiting
        /\ UNCHANGED << m_processes, waits >>
    BY <1>6 DEF Exit, Goto
  <2>2. waits + Cardinality(Unreaped) <= MaxWaits
    BY <2>1 DEF WaitsSuffice
  <2>3. TrackedPids(m_processes) = {}
    <3>1. CASE waits = MaxWaits
      <4>1. Cardinality(Unreaped) = 0
        BY <1>0, <2>2, <3>1, UnreapedFinite
      <4>2. Unreaped = {}
        BY <4>1, UnreapedFinite, FS_EmptySet
      <4> QED  BY <4>2, TrackedAreUnreaped
    <3>2. CASE FreePids(m_processes) = Pid
      <4>1. Unreaped = {}
        BY <3>2 DEF FreePids, Unreaped
      <4> QED  BY <4>1, TrackedAreUnreaped
    <3> QED  BY <1>0, <2>1, <3>1, <3>2 DEF KeepsWaiting
  <2> QED  BY <2>1, <2>3 DEF WaitsSuffice, ShutdownReapsAll, TrackedPids
<1>7. CASE LinkStep
  BY <1>7 DEF LinkStep, daemonVars, WaitsSuffice, ShutdownReapsAll,
              TrackedPids, Unreaped
<1>8. CASE ChildStep
  <2>1. PICK p \in Pid : ChildUnblocks(p) \/ ChildExits(p)
    BY <1>8 DEF ChildStep
  <2>2. /\ pc # "exited"
        /\ m_processes.children[p] \in Running
        /\ m_processes' \in {Unblocked(m_processes, p), Exited(m_processes, p)}
        /\ UNCHANGED << pc, waits >>
    BY <1>8, <2>1 DEF ChildStep, ChildUnblocks, ChildExits, IsRunningChild
  <2>3. ProcessesInv(m_processes) /\ ProcessesInv(m_processes')
    BY <2>2, UnblockedInv, ExitedInv DEF Inv
  <2>4. \A q \in Pid : q # p =>
            m_processes'.children[q] = m_processes.children[q]
    BY <2>2, <2>3 DEF Unblocked, Exited, ProcessesInv, Processes
  <2>5. m_processes'.children[p] \in Child
    <3> DEFINE child == m_processes.children[p]
    <3>1. CASE m_processes' = Unblocked(m_processes, p)
      <4>1. m_processes'.children[p] = [child EXCEPT !.blocked = FALSE]
        BY <2>3, <3>1 DEF Unblocked, ProcessesInv, Processes
      <4>2. [child EXCEPT !.blocked = FALSE] \in Running
        BY <2>2 DEF Running
      <4> QED  BY <4>1, <4>2 DEF Child
    <3>2. CASE m_processes' = Exited(m_processes, p)
      <4>1. m_processes'.children[p] =
                [st |-> "zombie", iface |-> child.iface,
                 sigterm |-> FALSE, blocked |-> FALSE]
        BY <2>3, <3>2 DEF Exited, ProcessesInv, Processes
      <4>2. m_processes'.children[p] \in Zombie
        BY <2>2, <4>1 DEF Running, Zombie
      <4> QED  BY <4>2 DEF Child
    <3> QED  BY <2>2, <3>1, <3>2
  <2>6. Unreaped' = Unreaped
    BY <2>2, <2>4, <2>5, NoneIsNoChild DEF Unreaped, Child
  <2> QED  BY <2>2, <2>6 DEF WaitsSuffice, ShutdownReapsAll
<1>9. CASE Terminate
  <2>1. CASE pc \in {"open", "request", "signalfd"}
    BY <1>9, <2>1, NothingTrackedEarly
    DEF Terminate, Goto, WaitsSuffice, ShutdownReapsAll, TrackedPids
  <2>2. CASE pc \notin {"open", "request", "signalfd"}
    BY <1>9, <2>2 DEF Terminate, WaitsSuffice, ShutdownReapsAll, TrackedPids,
                      Unreaped
  <2> QED  BY <2>1, <2>2
<1>10. CASE UNCHANGED vars
  BY <1>10 DEF vars, daemonVars, WaitsSuffice, ShutdownReapsAll, TrackedPids,
               Unreaped
<1> QED
  BY <1>1, <1>2, <1>3, <1>4, <1>5, <1>6, <1>7, <1>8, <1>9, <1>10
  DEF Next, DaemonStep, Finished

\* Once stopAll is through, no tray is tracked any more, whatever other dead
\* children waitpid(-1) handed it on the way, provided that no more processes
\* exist than it waits for.
THEOREM ShutdownIsComplete ==
    ASSUME FewProcesses
    PROVE  Spec => []ShutdownReapsAll
<1>1. Inv /\ WaitsSuffice /\ [Next]_vars => WaitsSuffice'
  BY WaitsSufficeNext
<1>2. Spec => []WaitsSuffice
  BY <1>1, WaitsSufficeInit, Invariance, PTL DEF Spec
<1>3. WaitsSuffice => ShutdownReapsAll
  BY DEF WaitsSuffice
<1> QED  BY <1>2, <1>3, PTL
=============================================================================
