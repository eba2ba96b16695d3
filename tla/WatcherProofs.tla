--------------------------- MODULE WatcherProofs ----------------------------
(***************************************************************************)
(* Proofs about the watcher for any interfaces, names, process ids, faults *)
(* and queue capacity.  One inductive invariant, Inv, carries the safety   *)
(* properties of the trays; SyncInv adds what the receive queue knows.     *)
(***************************************************************************)
EXTENDS Watcher, ProcessManagerProofs, SequenceTheorems

\* Until signals are blocked nothing has been received, so nothing started.
NoChildrenYet ==
    pc \in {"open", "request", "signalfd"} => m_processes = NoProcesses

\* After the loop of kill() in stopAll every running tray has its SIGTERM.
AllSignalledInShutdown ==
    pc \in {"waitAll", "exited"} =>
        \A p \in Pid :
            m_processes.children[p] \in Running =>
                m_processes.children[p].sigterm

Inv ==
    /\ TypeOK
    /\ ProcessesInv(m_processes)
    /\ TrayMatchesKnownLink
    /\ NoChildrenYet
    /\ AllSignalledInShutdown

-----------------------------------------------------------------------------
(* The socket's variables keep their types.                                *)

LEMMA BroadcastType ==
    ASSUME NetlinkTypeOK, NEW message \in Message,
           message.ifindex \in Ifindex, Broadcast(message)
    PROVE  /\ queue' \in Seq(Message)
           /\ Len(queue') <= QueueCapacity
           /\ overrun' \in BOOLEAN
           /\ unseen' \subseteq Ifindex
<1>1. CASE NotSubscribed(message)
  BY <1>1 DEF NotSubscribed, NetlinkTypeOK
<1>2. CASE HasRoom /\ Enqueue(message)
  BY <1>2, NetlinkAssumption DEF Enqueue, HasRoom, NetlinkTypeOK
<1>3. CASE Drop(message)
  BY <1>3 DEF Drop, NetlinkTypeOK
<1> QED  BY <1>1, <1>2, <1>3 DEF Broadcast

LEMMA LinkEventType ==
    ASSUME NetlinkTypeOK, NEW i \in Ifindex, NEW link \in Link \cup {None},
           NEW message \in Message, message.ifindex = i,
           [links EXCEPT ![i] = link] \in LinkTables,
           LinkEvent(i, link, message)
    PROVE  NetlinkTypeOK'
<1>1. /\ queue' \in Seq(Message)
      /\ Len(queue') <= QueueCapacity
      /\ overrun' \in BOOLEAN
      /\ unseen' \subseteq Ifindex
  BY BroadcastType DEF LinkEvent
<1>2. linkEvents' \in 0 .. MaxLinkEvents
  BY NetlinkAssumption DEF LinkEvent, NetlinkTypeOK
<1> QED  BY <1>1, <1>2 DEF LinkEvent, NetlinkTypeOK

\* The kernel never gives two links one name.
LEMMA KernelType ==
    ASSUME NetlinkTypeOK, KernelStep
    PROVE  NetlinkTypeOK'
<1>0. links \in LinkTables
  BY DEF NetlinkTypeOK
<1>1. PICK i \in Ifindex :
        LinkAdded(i) \/ LinkChanged(i) \/ LinkRenamed(i) \/ LinkDeleted(i)
  BY DEF KernelStep
<1>2. ASSUME NEW link \in Link, NameIsFree(link.name)
      PROVE  [links EXCEPT ![i] = link] \in LinkTables
  BY <1>0, <1>2 DEF LinkTables, NamesAreUnique, NameIsFree, Present
<1>3. ASSUME NEW link \in Link
      PROVE  /\ Newlink(i, link) \in Message
             /\ Newlink(i, link).ifindex = i
  BY DEF Newlink, Message
<1>4. CASE LinkAdded(i)
  <2>1. PICK link \in Link : /\ NameIsFree(link.name)
                             /\ LinkEvent(i, link, Newlink(i, link))
    BY <1>4 DEF LinkAdded
  <2> QED  BY <1>2, <1>3, <2>1, LinkEventType
<1>5. CASE LinkChanged(i)
  <2>1. PICK flags \in FlagSets :
          LET link == [links[i] EXCEPT !.flags = flags]
          IN  LinkEvent(i, link, Newlink(i, link))
    BY <1>5 DEF LinkChanged
  <2> DEFINE link == [links[i] EXCEPT !.flags = flags]
  <2>2. links[i] \in Link
    BY <1>0, <1>5 DEF LinkChanged, LinkTables
  <2>3. link \in Link /\ link.name = links[i].name
    BY <2>2 DEF Link
  <2>4. [links EXCEPT ![i] = link] \in LinkTables
    BY <1>0, <1>5, <2>3 DEF LinkTables, NamesAreUnique, LinkChanged
  <2> QED  BY <1>3, <2>1, <2>3, <2>4, LinkEventType
<1>6. CASE LinkRenamed(i)
  <2>1. PICK name \in Name :
          /\ NameIsFree(name)
          /\ LET link == [links[i] EXCEPT !.name = name]
             IN  LinkEvent(i, link, Newlink(i, link))
    BY <1>6 DEF LinkRenamed
  <2> DEFINE link == [links[i] EXCEPT !.name = name]
  <2>2. links[i] \in Link
    BY <1>0, <1>6 DEF LinkRenamed, LinkTables
  <2>3. link \in Link /\ link.name = name
    BY <2>2 DEF Link
  <2> QED  BY <1>2, <1>3, <2>1, <2>3, LinkEventType
<1>7. CASE LinkDeleted(i)
  <2>1. [links EXCEPT ![i] = None] \in LinkTables
    BY <1>0 DEF LinkTables, NamesAreUnique
  <2>2. Dellink(i) \in Message /\ Dellink(i).ifindex = i
    BY DEF Dellink, Message
  <2> QED  BY <1>7, <2>1, <2>2, LinkEventType DEF LinkDeleted
<1> QED  BY <1>1, <1>4, <1>5, <1>6, <1>7

LEMMA DumpType ==
    ASSUME NetlinkTypeOK, DumpStep
    PROVE  NetlinkTypeOK'
<1>1. CASE DumpDone
  <2>1. Done \in Message
    BY DEF Message
  <2> QED  BY <1>1, <2>1, NetlinkAssumption DEF DumpDone, NetlinkTypeOK, HasRoom
<1>2. CASE \E i \in Ifindex : DumpLink(i)
  <2>1. PICK i \in Ifindex : DumpLink(i)
    BY <1>2
  <2>2. links[i] # None => Newlink(i, links[i]) \in Message
    BY DEF NetlinkTypeOK, LinkTables, Newlink, Message
  <2> QED  BY <2>1, <2>2, NetlinkAssumption
           DEF DumpLink, Enqueue, NetlinkTypeOK, HasRoom
<1> QED  BY <1>1, <1>2 DEF DumpStep

\* The watcher's own calls on the socket.
LEMMA SocketType ==
    ASSUME NetlinkTypeOK, Bind \/ requestDump \/ Recv \/ RecvFails
    PROVE  NetlinkTypeOK'
<1>1. CASE Bind
  BY <1>1 DEF Bind, NetlinkTypeOK
<1>2. CASE requestDump
  BY <1>2 DEF requestDump, NetlinkTypeOK, Present
<1>3. CASE Recv
  BY <1>3, NetlinkAssumption DEF Recv, NetlinkTypeOK
<1>4. CASE RecvFails
  BY <1>4 DEF RecvFails, NetlinkTypeOK
<1> QED  BY <1>1, <1>2, <1>3, <1>4

LEMMA NetlinkUnchanged ==
    ASSUME NetlinkTypeOK, UNCHANGED netlinkVars
    PROVE  NetlinkTypeOK'
BY DEF NetlinkTypeOK, netlinkVars

-----------------------------------------------------------------------------
(* The callbacks.                                                          *)

\* What stays true of the trays while the tracking shrinks and the view of
\* the interfaces stands still.
LEMMA TraysShrink ==
    ASSUME TrayMatchesKnownLink, UNCHANGED m_ifaces,
           NoNewTrays(m_processes, m_processes', Ifindex)
    PROVE  TrayMatchesKnownLink'
BY DEF TrayMatchesKnownLink, NoNewTrays, Tracked, WasUp

LEMMA StartIfEligibleInv ==
    ASSUME NEW P, ProcessesInv(P), NEW i \in Ifindex, NEW name \in Name,
           ~isRunning(P, i), NEW Q \in startIfEligible(P, i, name)
    PROVE  /\ ProcessesInv(Q)
           /\ NoNewTrays(P, Q, Ifindex \ {i})
           /\ isRunning(Q, i) => /\ TrayIface(Q, i) = name
                                 /\ isEligible(m_cfg, name)
<1>1. CASE isEligible(m_cfg, name)
  <2>1. Q \in start(P, i, name)
    BY <1>1 DEF startIfEligible
  <2> QED  BY <1>1, <2>1, StartInv, StartTrays
<1>2. CASE ~isEligible(m_cfg, name)
  <2>1. Q = P
    BY <1>2 DEF startIfEligible
  <2> QED  BY <2>1 DEF NoNewTrays
<1> QED  BY <1>1, <1>2

\* onChange() leaves every tray showing a link that is known to be up, under
\* its current name, whatever the fork does.
LEMMA OnChangeInv ==
    ASSUME m_ifaces \in [Ifindex -> IfaceState \cup {None}],
           ProcessesInv(m_processes), TrayMatchesKnownLink,
           NEW i \in Ifindex, NEW name \in Name, NEW isUp \in BOOLEAN,
           onChange(i, name, isUp)
    PROVE  /\ m_ifaces' \in [Ifindex -> IfaceState \cup {None}]
           /\ ProcessesInv(m_processes')
           /\ TrayMatchesKnownLink'
<1> DEFINE P == m_processes
           Q == m_processes'
           new == [name |-> name, wasUp |-> isUp]
<1>1. /\ m_ifaces' = [m_ifaces EXCEPT ![i] = new]
      /\ Q \in ProcessesAfterChange(i, name, isUp)
  BY DEF onChange
<1>2. new \in IfaceState
  BY DEF IfaceState
<1>3. m_ifaces' \in [Ifindex -> IfaceState \cup {None}]
  BY <1>1, <1>2
<1>4. \A j \in Ifindex \ {i} : m_ifaces'[j] = m_ifaces[j]
  BY <1>1
<1>5. m_ifaces'[i] = new /\ new # None
  BY <1>1, <1>2, NoneIsNoIfaceState
<1> DEFINE Good(R) == /\ ProcessesInv(R)
                      /\ NoNewTrays(P, R, Ifindex \ {i})
                      /\ isRunning(R, i) => /\ isUp
                                            /\ TrayIface(R, i) = name
                                            /\ isEligible(m_cfg, name)
<1>6. Good(stop(P, i))
  BY StopInv, StopTrays DEF NoNewTrays
<1>7. ASSUME NEW R, Good(R), ~isRunning(R, i), isUp,
             Q \in startIfEligible(R, i, name)
      PROVE  Good(Q)
  <2>1. /\ ProcessesInv(Q)
        /\ NoNewTrays(R, Q, Ifindex \ {i})
        /\ isRunning(Q, i) => TrayIface(Q, i) = name /\ isEligible(m_cfg, name)
    BY <1>7, StartIfEligibleInv
  <2> QED  BY <1>7, <2>1 DEF NoNewTrays
<1>8. isRunning(P, i) => /\ WasUp(i)
                         /\ TrayIface(P, i) = m_ifaces[i].name
                         /\ isEligible(m_cfg, m_ifaces[i].name)
  BY DEF TrayMatchesKnownLink, Tracked
<1>9. Good(Q)
  <2>1. CASE IsRenamed(i, name) /\ WasUp(i)
    <3>1. CASE isUp
      <4>1. Q \in startIfEligible(stop(P, i), i, name)
        BY <1>1, <2>1, <3>1 DEF ProcessesAfterChange
      <4> QED  BY <1>6, <1>7, <3>1, <4>1, StopTrays
    <3>2. CASE ~isUp
      BY <1>1, <1>6, <2>1, <3>2 DEF ProcessesAfterChange
    <3> QED  BY <3>1, <3>2
  <2>2. CASE ~(IsRenamed(i, name) /\ WasUp(i)) /\ isUp = WasUp(i)
    <3>1. Q = P
      BY <1>1, <2>2 DEF ProcessesAfterChange
    <3>2. isRunning(P, i) => isUp /\ m_ifaces[i].name = name
      BY <1>8, <2>2 DEF IsRenamed, WasUp
    <3> QED  BY <1>8, <3>1, <3>2 DEF NoNewTrays
  <2>3. CASE ~(IsRenamed(i, name) /\ WasUp(i)) /\ isUp # WasUp(i)
    <3>1. CASE isUp
      <4>1. ~WasUp(i)
        BY <2>3, <3>1 DEF WasUp, IfaceState
      <4>2. Q \in startIfEligible(P, i, name)
        BY <1>1, <2>3, <3>1 DEF ProcessesAfterChange
      <4>3. ~isRunning(P, i)
        BY <1>8, <4>1
      <4>4. Good(P)
        BY <4>3 DEF NoNewTrays
      <4> QED  BY <1>7, <3>1, <4>2, <4>3, <4>4
    <3>2. CASE ~isUp
      <4>1. Q = stop(P, i)
        BY <1>1, <2>3, <3>2 DEF ProcessesAfterChange
      <4> QED  BY <1>6, <4>1
    <3> QED  BY <3>1, <3>2
  <2> QED  BY <2>1, <2>2, <2>3
<1>10. TrayMatchesKnownLink'
  <2> SUFFICES ASSUME NEW j \in Ifindex, isRunning(Q, j)
               PROVE  /\ WasUp(j)'
                      /\ TrayIface(Q, j) = m_ifaces'[j].name
                      /\ isEligible(m_cfg, m_ifaces'[j].name)
    BY DEF TrayMatchesKnownLink, Tracked
  <2>1. CASE j = i
    <3>1. isUp /\ TrayIface(Q, i) = name /\ isEligible(m_cfg, name)
      BY <1>9, <2>1
    <3>2. m_ifaces'[i].name = name /\ m_ifaces'[i].wasUp = TRUE
      BY <1>5, <3>1
    <3> QED  BY <1>5, <2>1, <3>1, <3>2 DEF WasUp
  <2>2. CASE j # i
    <3>1. isRunning(P, j) /\ TrayIface(Q, j) = TrayIface(P, j)
      BY <1>9, <2>2 DEF NoNewTrays
    <3>2. m_ifaces'[j] = m_ifaces[j]
      BY <1>4, <2>2
    <3> QED  BY <3>1, <3>2 DEF TrayMatchesKnownLink, Tracked, WasUp
  <2> QED  BY <2>1, <2>2
<1> QED  BY <1>3, <1>9, <1>10

\* onRemoved() leaves no tray for the interface it forgets.
LEMMA OnRemovedInv ==
    ASSUME m_ifaces \in [Ifindex -> IfaceState \cup {None}],
           ProcessesInv(m_processes), TrayMatchesKnownLink,
           NEW i \in Ifindex, onRemoved(i)
    PROVE  /\ m_ifaces' \in [Ifindex -> IfaceState \cup {None}]
           /\ ProcessesInv(m_processes')
           /\ TrayMatchesKnownLink'
<1>1. m_ifaces' = [m_ifaces EXCEPT ![i] = None]
  BY DEF onRemoved
<1>2. /\ ProcessesInv(m_processes')
      /\ NoNewTrays(m_processes, m_processes', Ifindex)
      /\ ~isRunning(m_processes', i)
  <2>1. CASE WasUp(i)
    BY <2>1, StopInv, StopTrays DEF onRemoved
  <2>2. CASE ~WasUp(i)
    BY <2>2 DEF onRemoved, NoNewTrays, TrayMatchesKnownLink, Tracked
  <2> QED  BY <2>1, <2>2
<1>3. TrayMatchesKnownLink'
  BY <1>1, <1>2 DEF TrayMatchesKnownLink, Tracked, WasUp, NoNewTrays
<1> QED  BY <1>1, <1>2, <1>3

\* One netlink message, of whatever type.
LEMMA HandleMessageInv ==
    ASSUME m_ifaces \in [Ifindex -> IfaceState \cup {None}],
           ProcessesInv(m_processes), TrayMatchesKnownLink,
           NEW message \in Message, handleMessage(message)
    PROVE  /\ m_ifaces' \in [Ifindex -> IfaceState \cup {None}]
           /\ ProcessesInv(m_processes')
           /\ TrayMatchesKnownLink'
<1>1. CASE message.type = "DONE"
  <2>1. UNCHANGED << m_ifaces, m_processes >>
    BY <1>1 DEF handleMessage
  <2> QED  BY <2>1 DEF TrayMatchesKnownLink, Tracked, WasUp
<1>2. CASE message.type = "DELLINK"
  <2>1. message.ifindex \in Ifindex /\ onRemoved(message.ifindex)
    BY <1>2 DEF handleMessage, Message, Done
  <2> QED  BY <2>1, OnRemovedInv
<1>3. CASE message.type = "NEWLINK"
  <2> DEFINE isUp == isOperationallyUp(message.link.flags)
  <2>1. /\ message.ifindex \in Ifindex
        /\ message.link.name \in Name
        /\ onChange(message.ifindex, message.link.name, isUp)
    BY <1>3 DEF handleMessage, Message, Done, Link
  <2>2. isUp \in BOOLEAN
    BY DEF isOperationallyUp
  <2> QED  BY <2>1, <2>2, OnChangeInv
<1> QED  BY <1>1, <1>2, <1>3 DEF handleMessage

-----------------------------------------------------------------------------
(* The inductive invariant.                                                *)

LEMMA InitInv == Init => Inv
<1> SUFFICES ASSUME Init PROVE Inv
  OBVIOUS
<1>1. TypeOK
  <2>1. NetlinkTypeOK
    <3>1. queue \in Seq(Message) /\ Len(queue) = 0
      BY EmptySeq DEF Init, NetlinkInit
    <3>2. Len(queue) <= QueueCapacity
      BY <3>1, NetlinkAssumption
    <3>3. linkEvents \in 0 .. MaxLinkEvents
      BY NetlinkAssumption DEF Init, NetlinkInit
    <3>4. /\ links \in LinkTables
          /\ sock \in {"closed", "bound", "dumping", "dumped"}
          /\ overrun \in BOOLEAN
          /\ dumpLeft \subseteq Ifindex
          /\ unseen \subseteq Ifindex
      BY NetlinkAssumption DEF Init, NetlinkInit, Present
    <3> QED  BY <3>1, <3>2, <3>3, <3>4 DEF NetlinkTypeOK
  <2>2. m_processes \in Processes
    BY NoProcessesInv DEF Init, ProcessesInv
  <2>3. m_ifaces \in [Ifindex -> IfaceState \cup {None}]
    BY DEF Init
  <2>4. waits \in 0 .. MaxWaits
    BY MaxWaitsAssumption DEF Init
  <2>5. pc \in Labels
    BY DEF Init, Labels
  <2> QED  BY <2>1, <2>2, <2>3, <2>4, <2>5 DEF Init, TypeOK
<1>2. \A i \in Ifindex : ~isRunning(m_processes, i)
  BY DEF Init, NoProcesses, isRunning
<1>3. TrayMatchesKnownLink
  BY <1>2 DEF TrayMatchesKnownLink, Tracked
<1> QED  BY <1>1, <1>3, NoProcessesInv
         DEF Init, Inv, NoChildrenYet, AllSignalledInShutdown

\* The typing of what is neither the socket's nor the process manager's.
LoopTypeOK ==
    /\ pc \in Labels
    /\ m_shouldExit \in BOOLEAN
    /\ pending \subseteq {"CHLD", "TERM"}
    /\ sigReady \in BOOLEAN
    /\ waits \in 0 .. MaxWaits

\* A step that moves neither the trays nor the view, and goes nowhere the
\* last two conjuncts of Inv speak of.
LEMMA QuietStepInv ==
    ASSUME Inv, UNCHANGED << m_ifaces, m_processes >>, NetlinkTypeOK',
           LoopTypeOK',
           pc' \in {"open", "request", "signalfd"} =>
               pc \in {"open", "request", "signalfd"},
           pc' \in {"waitAll", "exited"} =>
               pc \in {"open", "request", "signalfd", "waitAll", "exited"}
    PROVE  Inv'
<1>1. TypeOK'
  BY DEF Inv, TypeOK, LoopTypeOK
<1>2. TrayMatchesKnownLink'
  BY DEF Inv, TrayMatchesKnownLink, Tracked, WasUp
<1>3. NoChildrenYet'
  BY DEF Inv, NoChildrenYet
<1>4. AllSignalledInShutdown'
  <2>1. pc \in {"open", "request", "signalfd"} =>
            \A p \in Pid : m_processes.children[p] = None
    BY DEF Inv, NoChildrenYet, NoProcesses
  <2> QED  BY <2>1, NoneIsNoChild DEF Inv, AllSignalledInShutdown, Child
<1> QED  BY <1>1, <1>2, <1>3, <1>4 DEF Inv

\* A step that moves the process manager alone, none of the trays appearing.
LEMMA ProcessStepInv ==
    ASSUME Inv, UNCHANGED << netlinkVars, m_ifaces >>, LoopTypeOK',
           ProcessesInv(m_processes'),
           NoNewTrays(m_processes, m_processes', Ifindex),
           pc' \notin {"open", "request", "signalfd"},
           AllSignalledInShutdown'
    PROVE  Inv'
<1>1. TypeOK'
  BY NetlinkUnchanged DEF Inv, TypeOK, LoopTypeOK, ProcessesInv
<1>2. TrayMatchesKnownLink'
  BY TraysShrink DEF Inv
<1> QED  BY <1>1, <1>2 DEF Inv, NoChildrenYet

\* Every step of the daemon, the kernel and the trays preserves Inv.
LEMMA NextInv == Inv /\ [Next]_vars => Inv'
<1> SUFFICES ASSUME Inv, [Next]_vars PROVE Inv'
  OBVIOUS
<1> USE MaxWaitsAssumption
<1>0. /\ NetlinkTypeOK
      /\ LoopTypeOK
      /\ m_ifaces \in [Ifindex -> IfaceState \cup {None}]
      /\ ProcessesInv(m_processes)
      /\ TrayMatchesKnownLink
  BY DEF Inv, TypeOK, LoopTypeOK
<1>1. CASE OpenSocket
  <2>1. NetlinkTypeOK'
    BY <1>0, <1>1, SocketType, NetlinkUnchanged DEF OpenSocket
  <2> QED  BY <1>0, <1>1, <2>1, QuietStepInv
           DEF OpenSocket, StartupUnchanged, Goto, LoopTypeOK, Labels
<1>2. CASE RequestDump
  <2>1. NetlinkTypeOK'
    BY <1>0, <1>2, SocketType, NetlinkUnchanged DEF RequestDump
  <2> QED  BY <1>0, <1>2, <2>1, QuietStepInv
           DEF RequestDump, StartupUnchanged, Goto, LoopTypeOK, Labels
<1>3. CASE openSignalFd
  BY <1>0, <1>3, NetlinkUnchanged, QuietStepInv
  DEF openSignalFd, StartupUnchanged, Goto, LoopTypeOK, Labels
<1>4. CASE Poll
  BY <1>0, <1>4, NetlinkUnchanged, QuietStepInv
  DEF Poll, Goto, LoopTypeOK, Labels
<1>5. CASE LeaveLoop
  BY <1>0, <1>5, NetlinkUnchanged, QuietStepInv
  DEF LeaveLoop, Goto, LoopTypeOK, Labels
<1>6. CASE ProcessMessage
  <2>1. Head(queue) \in Message
    BY <1>0, <1>6 DEF ProcessMessage, Recv, NetlinkTypeOK
  <2>2. /\ m_ifaces' \in [Ifindex -> IfaceState \cup {None}]
        /\ ProcessesInv(m_processes')
        /\ TrayMatchesKnownLink'
    BY <1>0, <1>6, <2>1, HandleMessageInv DEF ProcessMessage
  <2>3. NetlinkTypeOK'
    BY <1>0, <1>6, SocketType DEF ProcessMessage
  <2>4. TypeOK'
    BY <1>0, <1>6, <2>2, <2>3
    DEF ProcessMessage, TypeOK, LoopTypeOK, ProcessesInv
  <2>5. pc' = "netlink"
    BY <1>6 DEF ProcessMessage
  <2> QED  BY <2>2, <2>4, <2>5
           DEF Inv, NoChildrenYet, AllSignalledInShutdown
<1>7. CASE MessagesDone
  <2>1. NetlinkTypeOK'
    BY <1>0, <1>7, SocketType DEF MessagesDone
  <2> QED  BY <1>0, <1>7, <2>1, QuietStepInv
           DEF MessagesDone, Goto, LoopTypeOK, Labels
<1>8. CASE ReadSignal
  <2>1. PICK signal \in pending :
          /\ pending' = pending \ {signal}
          /\ m_shouldExit' = (m_shouldExit \/ signal = "TERM")
          /\ Goto(IF signal = "CHLD" THEN "reap" ELSE "signals")
    BY <1>8 DEF ReadSignal
  <2>2. LoopTypeOK'
    BY <1>0, <1>8, <2>1 DEF ReadSignal, Goto, LoopTypeOK, Labels
  <2> QED  BY <1>0, <1>8, <2>1, <2>2, NetlinkUnchanged, QuietStepInv
           DEF ReadSignal, Goto
<1>9. CASE SignalsDone
  BY <1>0, <1>9, NetlinkUnchanged, QuietStepInv
  DEF SignalsDone, Goto, LoopTypeOK, Labels
<1>10. CASE reapExited
  <2>1. PICK p \in Pid : /\ IsZombie(m_processes, p)
                         /\ m_processes' = Reaped(m_processes, p)
    BY <1>10 DEF reapExited
  <2>2. /\ ProcessesInv(m_processes')
        /\ NoNewTrays(m_processes, m_processes', Ifindex)
    BY <1>0, <2>1, ReapedInv, ReapedTrays DEF IsZombie
  <2>3. LoopTypeOK' /\ AllSignalledInShutdown'
    BY <1>0, <1>10 DEF reapExited, LoopTypeOK, AllSignalledInShutdown
  <2> QED  BY <1>10, <2>2, <2>3, ProcessStepInv DEF reapExited
<1>11. CASE ReapDone
  BY <1>0, <1>11, NetlinkUnchanged, QuietStepInv
  DEF ReapDone, Goto, LoopTypeOK, Labels
<1>12. CASE SignalAll
  <2>1. /\ ProcessesInv(m_processes')
        /\ NoNewTrays(m_processes, m_processes', Ifindex)
        /\ \A p \in Pid : m_processes'.children[p] \in Running =>
                              m_processes'.children[p].sigterm
    BY <1>0, <1>12, AllSignalledInv, AllSignalledTrays DEF SignalAll
  <2>2. LoopTypeOK' /\ AllSignalledInShutdown'
    BY <1>0, <1>12, <2>1
    DEF SignalAll, Goto, LoopTypeOK, Labels, AllSignalledInShutdown
  <2> QED  BY <1>12, <2>1, <2>2, ProcessStepInv DEF SignalAll, Goto
<1>13. CASE WaitAll
  <2>1. PICK p \in Pid : /\ IsZombie(m_processes, p)
                         /\ m_processes' = Reaped(m_processes, p)
    BY <1>13 DEF WaitAll
  <2>2. /\ ProcessesInv(m_processes')
        /\ NoNewTrays(m_processes, m_processes', Ifindex)
    BY <1>0, <2>1, ReapedInv, ReapedTrays DEF IsZombie
  <2>3. LoopTypeOK'
    BY <1>0, <1>13 DEF WaitAll, KeepsWaiting, LoopTypeOK
  <2>4. m_processes'.children = [m_processes.children EXCEPT ![p] = None]
    BY <2>1 DEF Reaped
  <2>5. AllSignalledInShutdown'
    BY <1>0, <1>13, <2>4, NoneIsNoChild
    DEF WaitAll, Inv, AllSignalledInShutdown, ProcessesInv, Processes, Child
  <2> QED  BY <1>13, <2>2, <2>3, <2>5, ProcessStepInv DEF WaitAll
<1>14. CASE Exit
  BY <1>0, <1>14, NetlinkUnchanged, QuietStepInv
  DEF Exit, Goto, LoopTypeOK, Labels
<1>15. CASE LinkStep
  <2>1. NetlinkTypeOK'
    BY <1>0, <1>15, KernelType, DumpType DEF LinkStep
  <2>2. UNCHANGED daemonVars
    BY <1>15 DEF LinkStep
  <2> QED  BY <1>0, <2>1, <2>2, QuietStepInv DEF daemonVars, LoopTypeOK
<1>16. CASE ChildStep
  <2>1. PICK p \in Pid : ChildUnblocks(p) \/ ChildExits(p)
    BY <1>16 DEF ChildStep
  <2>2. m_processes.children[p] \in Running
    BY <2>1 DEF ChildUnblocks, ChildExits, IsRunningChild
  <2>3. /\ m_processes' \in {Unblocked(m_processes, p), Exited(m_processes, p)}
        /\ UNCHANGED << netlinkVars, pc, m_ifaces >>
    BY <2>1 DEF ChildUnblocks, ChildExits
  <2>4. LoopTypeOK'
    BY <1>0, <2>1 DEF ChildUnblocks, ChildExits, LoopTypeOK
  <2>5. /\ ProcessesInv(m_processes')
        /\ NoNewTrays(m_processes, m_processes', Ifindex)
    BY <1>0, <2>2, <2>3, UnblockedInv, ExitedInv, ChildTrays
  <2>6. pc \notin {"open", "request", "signalfd"}
    BY <2>2, NoneIsNoChild DEF Inv, NoChildrenYet, NoProcesses, Child
  <2>7. AllSignalledInShutdown'
    <3> SUFFICES ASSUME pc \in {"waitAll", "exited"}, NEW q \in Pid,
                        m_processes'.children[q] \in Running
                 PROVE  m_processes'.children[q].sigterm
      BY <2>3 DEF AllSignalledInShutdown
    <3>1. m_processes.children[q] \in Running =>
              m_processes.children[q].sigterm
      BY DEF Inv, AllSignalledInShutdown
    <3>2. CASE q # p
      BY <1>0, <2>3, <3>1, <3>2
      DEF Unblocked, Exited, ProcessesInv, Processes
    <3>3. CASE q = p
      <4>1. m_processes' # Exited(m_processes, p)
        BY <1>0, <3>3 DEF Exited, ProcessesInv, Processes, Running
      <4>2. m_processes'.children[p] =
                [m_processes.children[p] EXCEPT !.blocked = FALSE]
        BY <1>0, <2>3, <4>1 DEF Unblocked, ProcessesInv, Processes
      <4> QED  BY <2>2, <3>1, <3>3, <4>2 DEF Running
    <3> QED  BY <3>2, <3>3
  <2> QED  BY <2>3, <2>4, <2>5, <2>6, <2>7, ProcessStepInv
<1>17. CASE Terminate
  <2>1. LoopTypeOK'
    BY <1>0, <1>17 DEF Terminate, Goto, LoopTypeOK, Labels
  <2> QED  BY <1>0, <1>17, <2>1, NetlinkUnchanged, QuietStepInv
           DEF Terminate, Goto
<1>18. CASE UNCHANGED vars
  BY <1>0, <1>18, NetlinkUnchanged, QuietStepInv
  DEF vars, daemonVars, LoopTypeOK
<1> QED
  BY <1>1, <1>2, <1>3, <1>4, <1>5, <1>6, <1>7, <1>8, <1>9, <1>10, <1>11,
     <1>12, <1>13, <1>14, <1>15, <1>16, <1>17, <1>18
  DEF Next, DaemonStep, Finished

\* Inv holds in every reachable state, however the daemon, the kernel and the
\* trays interleave and whichever calls fail.
THEOREM Invariance == Spec => []Inv
<1> QED  BY InitInv, NextInv, PTL DEF Spec

\* Type correctness.
THEOREM TypeCorrect == Spec => []TypeOK
<1>1. Inv => TypeOK
  BY DEF Inv
<1> QED  BY <1>1, Invariance, PTL

\* m_byIfindex and m_ifindexByPid are each other's inverse in every state, the
\* ones between the kill() and the waitpid() of a tray included.
THEOREM MapsStayInverse == Spec => []MapsAgree
<1>1. Inv => MapsAgree
  BY DEF Inv, ProcessesInv, MapsAgree
<1> QED  BY <1>1, Invariance, PTL

\* A tracked pid is an unreaped child, so the kill() of stop and stopAll hits
\* no stranger that was given the pid.
THEOREM KillsHitNoStranger == Spec => []TracksOnlyItsChildren
<1>1. Inv => TracksOnlyItsChildren
  BY DEF Inv, ProcessesInv, TracksOnlyItsChildren
<1> QED  BY <1>1, Invariance, PTL

\* A running tray the daemon does not track has been sent its SIGTERM.
THEOREM NoTrayForgotten == Spec => []NoForgottenChild
<1>1. Inv => NoForgottenChild
  BY DEF Inv, ProcessesInv, NoForgottenChild
<1> QED  BY <1>1, Invariance, PTL

\* A tracked tray always shows a link known to be up and let through by the
\* filter, under the link's current known name: renames included.
THEOREM TraysMatch == Spec => []TrayMatchesKnownLink
<1>1. Inv => TrayMatchesKnownLink
  BY DEF Inv
<1> QED  BY <1>1, Invariance, PTL

\* When run() has returned no tray runs that was not sent its SIGTERM.
THEOREM NoTrayOrphaned == Spec => []NoOrphanTray
<1>1. Inv => NoOrphanTray
  BY DEF Inv, AllSignalledInShutdown, NoOrphanTray, IsRunningChild
<1> QED  BY <1>1, Invariance, PTL

-----------------------------------------------------------------------------
(* Who is told to end, and when.                                           *)

\* From P to Q, the tray p has been sent its SIGTERM.
SignalledIn(P, Q, p) ==
    IsAlive(P, p) /\ IsRunningChild(Q, p) /\ Q.children[p].sigterm

\* stop(i) concerns the tray of i and no other child.
LEMMA StopChildren ==
    ASSUME NEW P, ProcessesInv(P), NEW i \in Ifindex, NEW p \in Pid,
           ~(isRunning(P, i) /\ P.byIfindex[i] = p)
    PROVE  stop(P, i).children[p] = P.children[p]
<1>1. CASE ~isRunning(P, i)
  BY <1>1 DEF stop
<1>2. CASE isRunning(P, i)
  <2>1. P.byIfindex[i] # p
    BY <1>2
  <2>2. stop(P, i).children =
            [P.children EXCEPT ![P.byIfindex[i]] = Signalled(@)]
    BY <1>2 DEF stop
  <2> QED  BY <2>1, <2>2 DEF ProcessesInv, Processes
<1> QED  BY <1>1, <1>2

\* A fork leaves the children there are alone.
LEMMA StartChildren ==
    ASSUME NEW P, ProcessesInv(P), NEW i \in Ifindex, NEW name \in Name,
           NEW Q \in startIfEligible(P, i, name), NEW p \in Pid,
           P.children[p] # None
    PROVE  Q.children[p] = P.children[p]
<1>1. CASE Q = P
  BY <1>1
<1>2. CASE \E q \in FreePids(P) : Q = Forked(P, i, name, q)
  <2>1. PICK q \in FreePids(P) : Q = Forked(P, i, name, q)
    BY <1>2
  <2>2. q # p
    BY DEF FreePids
  <2> QED  BY <2>1, <2>2 DEF Forked, ProcessesInv, Processes
<1> QED  BY <1>1, <1>2 DEF startIfEligible, start

\* A tray that is told to end by a callback about i is the one of i.
LEMMA StopIsOfTheTray ==
    ASSUME NEW P, ProcessesInv(P), NEW i \in Ifindex, NEW name \in Name,
           NEW Q, NEW p \in Pid, SignalledIn(P, Q, p),
           \/ Q \in startIfEligible(P, i, name) \cup {P}
           \/ Q \in startIfEligible(stop(P, i), i, name) \cup {stop(P, i)}
    PROVE  /\ Q \in startIfEligible(stop(P, i), i, name) \cup {stop(P, i)}
           /\ Q \notin startIfEligible(P, i, name) \cup {P}
           /\ isRunning(P, i)
           /\ P.byIfindex[i] = p
<1>1. /\ P.children[p] # None
      /\ Q.children[p] # P.children[p]
  BY NoneIsNoChild DEF SignalledIn, IsAlive, IsRunningChild, Child
<1>2. Q \notin startIfEligible(P, i, name) \cup {P}
  BY <1>1, StartChildren
<1>3. ASSUME ~(isRunning(P, i) /\ P.byIfindex[i] = p)
      PROVE  FALSE
  <2>1. stop(P, i).children[p] = P.children[p]
    BY <1>3, StopChildren
  <2>2. Q.children[p] = P.children[p]
    BY <1>1, <1>2, <2>1, StopInv, StartChildren
  <2> QED  BY <1>1, <2>2
<1> QED  BY <1>2, <1>3

\* The tray of i shows what is known of i.
LEMMA TrayShowsKnown ==
    ASSUME m_ifaces \in [Ifindex -> IfaceState \cup {None}],
           TrayMatchesKnownLink, NEW i \in Ifindex, Tracked(i)
    PROVE  m_ifaces[i] = [name  |-> TrayIface(m_processes, i),
                          wasUp |-> TRUE]
<1>1. /\ m_ifaces[i] # None /\ m_ifaces[i].wasUp
      /\ m_ifaces[i].name = TrayIface(m_processes, i)
  BY DEF TrayMatchesKnownLink, WasUp
<1>2. PICK n \in Name, w \in BOOLEAN : m_ifaces[i] = [name |-> n, wasUp |-> w]
  BY <1>1 DEF IfaceState
<1>3. w = TRUE /\ n = TrayIface(m_processes, i)
  BY <1>1, <1>2
<1> QED  BY <1>2, <1>3

\* What StopsHaveCause asks of one step and one tray.
StoppedForCause(p) ==
    SignalledIn(m_processes, m_processes', p) =>
        \/ pc = "stopAll"
        \/ \E i \in Ifindex :
              /\ m_processes.byIfindex[i] = p
              /\ m_ifaces[i] = [name  |-> m_processes.children[p].iface,
                                wasUp |-> TRUE]
              /\ m_ifaces'[i] # m_ifaces[i]

LEMMA OnChangeCause ==
    ASSUME m_ifaces \in [Ifindex -> IfaceState \cup {None}],
           ProcessesInv(m_processes), TrayMatchesKnownLink,
           NEW i \in Ifindex, NEW name \in Name, NEW isUp \in BOOLEAN,
           onChange(i, name, isUp), NEW p \in Pid
    PROVE  StoppedForCause(p)
<1> DEFINE P == m_processes
           Q == m_processes'
           new == [name |-> name, wasUp |-> isUp]
<1> SUFFICES ASSUME SignalledIn(P, Q, p)
             PROVE  /\ P.byIfindex[i] = p
                    /\ m_ifaces[i] = [name  |-> P.children[p].iface,
                                      wasUp |-> TRUE]
                    /\ m_ifaces'[i] # m_ifaces[i]
  BY DEF StoppedForCause
<1>1. /\ m_ifaces' = [m_ifaces EXCEPT ![i] = new]
      /\ Q \in ProcessesAfterChange(i, name, isUp)
  BY DEF onChange
<1>2. \/ Q \in startIfEligible(P, i, name) \cup {P}
      \/ Q \in startIfEligible(stop(P, i), i, name) \cup {stop(P, i)}
  BY <1>1 DEF ProcessesAfterChange
<1>3. /\ Q \notin startIfEligible(P, i, name) \cup {P}
      /\ isRunning(P, i)
      /\ P.byIfindex[i] = p
  BY <1>2, StopIsOfTheTray
<1>4. m_ifaces[i] = [name |-> P.children[p].iface, wasUp |-> TRUE]
  BY <1>3, TrayShowsKnown DEF Tracked, TrayIface
<1>5. WasUp(i)
  BY <1>3 DEF TrayMatchesKnownLink, Tracked
<1>6. IsRenamed(i, name) \/ ~isUp
  BY <1>1, <1>3, <1>5 DEF ProcessesAfterChange
<1>7. m_ifaces'[i] = new
  BY <1>1
<1>8. m_ifaces'[i] # m_ifaces[i]
  BY <1>4, <1>6, <1>7 DEF IsRenamed
<1> QED  BY <1>3, <1>4, <1>8

LEMMA OnRemovedCause ==
    ASSUME m_ifaces \in [Ifindex -> IfaceState \cup {None}],
           ProcessesInv(m_processes), TrayMatchesKnownLink,
           NEW i \in Ifindex, onRemoved(i), NEW p \in Pid
    PROVE  StoppedForCause(p)
<1> SUFFICES ASSUME SignalledIn(m_processes, m_processes', p)
             PROVE  /\ m_processes.byIfindex[i] = p
                    /\ m_ifaces[i] = [name  |-> m_processes.children[p].iface,
                                      wasUp |-> TRUE]
                    /\ m_ifaces'[i] # m_ifaces[i]
  BY DEF StoppedForCause
<1>1. m_processes' \in {stop(m_processes, i), m_processes}
  BY DEF onRemoved
<1>2. m_processes'.children[p] # m_processes.children[p]
  BY DEF SignalledIn, IsAlive
<1>3. isRunning(m_processes, i) /\ m_processes.byIfindex[i] = p
  BY <1>1, <1>2, StopChildren
<1>4. m_ifaces[i] = [name |-> m_processes.children[p].iface, wasUp |-> TRUE]
  BY <1>3, TrayShowsKnown DEF Tracked, TrayIface
<1>5. m_ifaces'[i] = None /\ m_ifaces[i] # None
  BY <1>3 DEF onRemoved, TrayMatchesKnownLink, Tracked, WasUp
<1> QED  BY <1>3, <1>4, <1>5

\* Collecting a dead child, and the steps of a child, tell nobody to end.
LEMMA NobodyToldToEnd ==
    ASSUME NEW P, ProcessesInv(P), NEW q \in Pid, NEW p \in Pid, NEW Q,
           \/ Q = P
           \/ Q = Reaped(P, q)
           \/ P.children[q] \in Running /\ Q \in {Unblocked(P, q), Exited(P, q)}
    PROVE  ~SignalledIn(P, Q, p)
<1>1. CASE p # q \/ Q = P
  <2>1. Q.children[p] = P.children[p]
    BY <1>1 DEF Reaped, Unblocked, Exited, ProcessesInv, Processes
  <2> QED  BY <2>1 DEF SignalledIn, IsAlive
<1>2. CASE p = q /\ Q = Reaped(P, q)
  <2>1. Q.children[p] = None
    BY <1>2 DEF Reaped, ProcessesInv, Processes
  <2> QED  BY <2>1, NoneIsNoChild DEF SignalledIn, IsRunningChild, Child
<1>3. CASE /\ p = q /\ P.children[q] \in Running
           /\ Q \in {Unblocked(P, q), Exited(P, q)}
  <2>1. CASE Q = Unblocked(P, q)
    <3>1. Q.children[p] = [P.children[p] EXCEPT !.blocked = FALSE]
      BY <1>3, <2>1 DEF Unblocked, ProcessesInv, Processes
    <3>2. Q.children[p].sigterm = P.children[p].sigterm
      BY <1>3, <3>1 DEF Running
    <3> QED  BY <3>2 DEF SignalledIn, IsAlive
  <2>2. CASE Q = Exited(P, q)
    <3>1. ~Q.children[p].sigterm
      BY <1>3, <2>2 DEF Exited, ProcessesInv, Processes
    <3> QED  BY <3>1 DEF SignalledIn
  <2> QED  BY <1>3, <2>1, <2>2
<1> QED  BY <1>1, <1>2, <1>3

LEMMA StepHasCause ==
    ASSUME Inv, [Next]_vars, NEW p \in Pid
    PROVE  StoppedForCause(p)
<1>0. /\ m_ifaces \in [Ifindex -> IfaceState \cup {None}]
      /\ ProcessesInv(m_processes)
      /\ TrayMatchesKnownLink
      /\ NetlinkTypeOK
  BY DEF Inv, TypeOK
<1>1. CASE UNCHANGED m_processes
  BY <1>0, <1>1, NobodyToldToEnd DEF StoppedForCause
<1>2. CASE ProcessMessage
  <2> DEFINE message == Head(queue)
  <2>1. message \in Message /\ handleMessage(message)
    BY <1>0, <1>2 DEF ProcessMessage, Recv, NetlinkTypeOK
  <2>2. CASE message.type = "DONE"
    BY <1>1, <2>1, <2>2 DEF handleMessage
  <2>3. CASE message.type = "DELLINK"
    <3>1. message.ifindex \in Ifindex /\ onRemoved(message.ifindex)
      BY <2>1, <2>3 DEF handleMessage, Message, Done
    <3> QED  BY <1>0, <3>1, OnRemovedCause
  <2>4. CASE message.type = "NEWLINK"
    <3> DEFINE isUp == isOperationallyUp(message.link.flags)
    <3>1. /\ message.ifindex \in Ifindex
          /\ message.link.name \in Name
          /\ onChange(message.ifindex, message.link.name, isUp)
      BY <2>1, <2>4 DEF handleMessage, Message, Done, Link
    <3>2. isUp \in BOOLEAN
      BY DEF isOperationallyUp
    <3> QED  BY <1>0, <3>1, <3>2, OnChangeCause
  <2> QED  BY <2>1, <2>2, <2>3, <2>4 DEF handleMessage
<1>3. CASE reapExited \/ WaitAll
  <2>1. PICK q \in Pid : m_processes' = Reaped(m_processes, q)
    BY <1>3 DEF reapExited, WaitAll
  <2> QED  BY <1>0, <2>1, NobodyToldToEnd DEF StoppedForCause
<1>4. CASE SignalAll
  BY <1>4 DEF SignalAll, StoppedForCause
<1>5. CASE ChildStep
  <2>1. PICK q \in Pid : ChildUnblocks(q) \/ ChildExits(q)
    BY <1>5 DEF ChildStep
  <2>2. /\ m_processes.children[q] \in Running
        /\ m_processes' \in {Unblocked(m_processes, q), Exited(m_processes, q)}
    BY <2>1 DEF ChildUnblocks, ChildExits, IsRunningChild
  <2> QED  BY <1>0, <2>2, NobodyToldToEnd DEF StoppedForCause
<1>6. CASE OpenSocket \/ RequestDump \/ openSignalFd
  BY <1>1, <1>6
  DEF OpenSocket, RequestDump, openSignalFd, StartupUnchanged
<1>7. CASE \/ Poll \/ LeaveLoop \/ MessagesDone \/ ReadSignal \/ SignalsDone
           \/ ReapDone \/ Exit
  BY <1>1, <1>7
  DEF Poll, LeaveLoop, MessagesDone, ReadSignal, SignalsDone, ReapDone, Exit
<1>8. CASE LinkStep \/ Terminate \/ UNCHANGED vars
  BY <1>1, <1>8 DEF LinkStep, Terminate, vars, daemonVars
<1> QED
  BY <1>2, <1>3, <1>4, <1>5, <1>6, <1>7, <1>8 DEF Next, DaemonStep, Finished

\* No tray is told to end without a cause: until the shutdown only in the step
\* in which the daemon learns that the tray's link is down, has another name
\* or is gone, whatever fails and whatever was dropped.
THEOREM TraysStopForCause == Spec => StopsHaveCause
<1>1. ASSUME Inv, [Next]_vars
      PROVE  \A p \in Pid :
                (/\ IsAlive(m_processes, p)
                 /\ IsRunningChild(m_processes', p)
                 /\ m_processes'.children[p].sigterm)
                    => \/ pc = "stopAll"
                       \/ \E i \in Ifindex :
                             /\ m_processes.byIfindex[i] = p
                             /\ m_ifaces[i] =
                                    [name  |-> m_processes.children[p].iface,
                                     wasUp |-> TRUE]
                             /\ m_ifaces'[i] # m_ifaces[i]
  BY <1>1, StepHasCause DEF StoppedForCause, SignalledIn
<1> QED  BY <1>1, Invariance, PTL DEF Spec, StopsHaveCause
=============================================================================
