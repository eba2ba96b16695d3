----------------------------- MODULE SyncProofs -----------------------------
(***************************************************************************)
(* The watcher's view of the links catches up with the kernel: Synced is   *)
(* an invariant for any number of links, any queue and any fault.  The     *)
(* strengthening is small: a socket that was never opened has shown        *)
(* nothing.                                                                *)
(***************************************************************************)
EXTENDS WatcherProofs

\* Queue q and view v agree with link l of interface i.
Shows(q, i, v, l) ==
    \/ /\ \A k \in 1 .. Len(q) : q[k].ifindex # i
       /\ v = View(l)
    \/ \E k \in 1 .. Len(q) :
          /\ q[k].ifindex = i
          /\ q[k].link = l
          /\ \A n \in 1 .. Len(q) : q[n].ifindex = i => n <= k

ClosedShowsNothing ==
    sock = "closed" => queue = << >> /\ \A i \in Ifindex : m_ifaces[i] = None

AllShown == \A i \in Ifindex \ unseen : Shows(queue, i, m_ifaces[i], links[i])

SyncInv == ClosedShowsNothing /\ AllShown

LEMMA SyncedIsAllShown == Synced <=> AllShown
  BY DEF Synced, AllShown, Shows, MessagesAbout, LastMessageShows

-----------------------------------------------------------------------------
(* A message joins the queue, or leaves it.                                *)

LEMMA ShowsAppendOther ==
    ASSUME NEW q \in Seq(Message), NEW e \in Message, NEW i, NEW v, NEW l,
           e.ifindex # i, Shows(q, i, v, l)
    PROVE  Shows(Append(q, e), i, v, l)
<1> DEFINE r == Append(q, e)
<1>1. /\ Len(r) = Len(q) + 1
      /\ \A k \in 1 .. Len(q) : r[k] = q[k]
      /\ r[Len(q) + 1] = e
      /\ Len(q) \in Nat
  BY AppendProperties, LenProperties
<1>2. CASE /\ \A k \in 1 .. Len(q) : q[k].ifindex # i
           /\ v = View(l)
  <2>1. \A k \in 1 .. Len(r) : r[k].ifindex # i
    BY <1>1, <1>2
  <2> QED  BY <1>2, <2>1 DEF Shows
<1>3. ASSUME NEW k \in 1 .. Len(q), q[k].ifindex = i, q[k].link = l,
             \A n \in 1 .. Len(q) : q[n].ifindex = i => n <= k
      PROVE  Shows(r, i, v, l)
  <2>1. k \in 1 .. Len(r) /\ r[k] = q[k]
    BY <1>1
  <2>2. \A n \in 1 .. Len(r) : r[n].ifindex = i => n <= k
    BY <1>1, <1>3
  <2> QED  BY <1>3, <2>1, <2>2 DEF Shows
<1> QED  BY <1>2, <1>3 DEF Shows

LEMMA ShowsAppendSame ==
    ASSUME NEW q \in Seq(Message), NEW e \in Message, NEW v
    PROVE  Shows(Append(q, e), e.ifindex, v, e.link)
<1> DEFINE r == Append(q, e)
           k == Len(q) + 1
<1>1. Len(r) = k /\ r[k] = e /\ k \in Nat
  BY AppendProperties, LenProperties
<1>2. k \in 1 .. Len(r) /\ \A n \in 1 .. Len(r) : n <= k
  BY <1>1, LenProperties
<1> QED  BY <1>1, <1>2 DEF Shows

LEMMA ShowsTailOther ==
    ASSUME NEW q \in Seq(Message), q # << >>, NEW i, NEW v, NEW l,
           Head(q).ifindex # i, Shows(q, i, v, l)
    PROVE  Shows(Tail(q), i, v, l)
<1> DEFINE r == Tail(q)
<1>1. /\ Len(q) \in Nat \ {0}
      /\ Len(r) = Len(q) - 1
      /\ \A k \in 1 .. Len(r) : r[k] = q[k + 1]
      /\ Head(q) = q[1]
  BY HeadTailProperties, EmptySeq, LenProperties
<1>2. CASE /\ \A k \in 1 .. Len(q) : q[k].ifindex # i
           /\ v = View(l)
  BY <1>1, <1>2 DEF Shows
<1>3. ASSUME NEW k \in 1 .. Len(q), q[k].ifindex = i, q[k].link = l,
             \A n \in 1 .. Len(q) : q[n].ifindex = i => n <= k
      PROVE  Shows(r, i, v, l)
  <2>1. k # 1
    BY <1>1, <1>3
  <2>2. k - 1 \in 1 .. Len(r) /\ r[k - 1] = q[k]
    BY <1>1, <2>1
  <2>3. \A n \in 1 .. Len(r) : r[n].ifindex = i => n <= k - 1
    BY <1>1, <1>3
  <2> QED  BY <1>3, <2>2, <2>3 DEF Shows
<1> QED  BY <1>2, <1>3 DEF Shows

\* What matters most: once the message is handled, the view is its link.
LEMMA ShowsTailSame ==
    ASSUME NEW q \in Seq(Message), q # << >>, NEW v, NEW l,
           Shows(q, Head(q).ifindex, v, l)
    PROVE  Shows(Tail(q), Head(q).ifindex, View(Head(q).link), l)
<1> DEFINE r == Tail(q)
           i == Head(q).ifindex
<1>1. /\ Len(q) \in Nat \ {0}
      /\ Len(r) = Len(q) - 1
      /\ \A k \in 1 .. Len(r) : r[k] = q[k + 1]
      /\ Head(q) = q[1]
  BY HeadTailProperties, EmptySeq, LenProperties
<1>2. PICK k \in 1 .. Len(q) :
        /\ q[k].ifindex = i
        /\ q[k].link = l
        /\ \A n \in 1 .. Len(q) : q[n].ifindex = i => n <= k
  BY <1>1 DEF Shows
<1>3. CASE k = 1
  <2>1. \A n \in 1 .. Len(r) : r[n].ifindex # i
    BY <1>1, <1>2, <1>3
  <2> QED  BY <1>1, <1>2, <1>3, <2>1 DEF Shows
<1>4. CASE k # 1
  <2>1. k - 1 \in 1 .. Len(r) /\ r[k - 1] = q[k]
    BY <1>1, <1>4
  <2>2. \A n \in 1 .. Len(r) : r[n].ifindex = i => n <= k - 1
    BY <1>1, <1>2
  <2> QED  BY <1>2, <2>1, <2>2 DEF Shows
<1> QED  BY <1>3, <1>4

-----------------------------------------------------------------------------
(* The invariant.                                                          *)

LEMMA SyncInit == Init => SyncInv
<1> SUFFICES ASSUME Init PROVE SyncInv
  OBVIOUS
<1>1. ClosedShowsNothing
  BY DEF Init, NetlinkInit, ClosedShowsNothing
<1>2. ASSUME NEW i \in Ifindex \ unseen
      PROVE  Shows(queue, i, m_ifaces[i], links[i])
  <2>1. links[i] = None /\ m_ifaces[i] = None /\ queue = << >>
    BY <1>2 DEF Init, NetlinkInit, Present
  <2>2. Len(queue) = 0
    BY <2>1
  <2> QED  BY <2>1, <2>2 DEF Shows, View
<1> QED  BY <1>1, <1>2 DEF SyncInv, AllShown

\* A link event changes the kernel's table and its messages together.
LEMMA LinkEventSync ==
    ASSUME NetlinkTypeOK, SyncInv,
           NEW i \in Ifindex, NEW link \in Link \cup {None},
           NEW message \in Message,
           message.ifindex = i, message.link = link,
           message.type = "DELLINK" => link = None,
           LinkEvent(i, link, message), UNCHANGED m_ifaces
    PROVE  SyncInv'
<1>1. /\ queue \in Seq(Message)
      /\ links \in [Ifindex -> Link \cup {None}]
      /\ links' = [links EXCEPT ![i] = link]
      /\ sock' = sock
      /\ m_ifaces' = m_ifaces
      /\ Broadcast(message)
  BY DEF NetlinkTypeOK, LinkTables, LinkEvent
<1>2. ASSUME NEW j \in Ifindex, j # i
      PROVE  links'[j] = links[j]
  BY <1>1, <1>2
<1>3. CASE sock = "closed"
  <2>1. NotSubscribed(message) /\ queue = << >>
    BY <1>1, <1>3 DEF Broadcast, SyncInv, ClosedShowsNothing
  <2>2. ClosedShowsNothing'
    BY <1>1, <2>1 DEF NotSubscribed, SyncInv, ClosedShowsNothing
  <2>3. ASSUME NEW j \in Ifindex \ unseen'
        PROVE  Shows(queue', j, m_ifaces'[j], links'[j])
    <3>1. CASE j = i
      <4>1. links'[i] = None
        BY <1>1, <2>1, <2>3, <3>1 DEF NotSubscribed
      <4>2. m_ifaces'[i] = None /\ Len(queue') = 0
        BY <1>1, <1>3, <2>1
        DEF NotSubscribed, SyncInv, ClosedShowsNothing
      <4> QED  BY <3>1, <4>1, <4>2 DEF Shows, View
    <3>2. CASE j # i
      <4>1. j \notin unseen /\ queue' = queue
        BY <2>1, <2>3, <3>2 DEF NotSubscribed
      <4> QED  BY <1>1, <1>2, <3>2, <4>1 DEF SyncInv, AllShown
    <3> QED  BY <3>1, <3>2
  <2> QED  BY <2>2, <2>3 DEF SyncInv, AllShown
<1>4. CASE sock # "closed" /\ HasRoom
  <2>1. Enqueue(message)
    BY <1>1, <1>4 DEF Broadcast
  <2>2. ASSUME NEW j \in Ifindex \ unseen'
        PROVE  Shows(queue', j, m_ifaces'[j], links'[j])
    <3>1. CASE j = i
      BY <1>1, <2>1, <3>1, ShowsAppendSame DEF Enqueue
    <3>2. CASE j # i
      <4>1. Shows(queue, j, m_ifaces[j], links[j])
        BY <2>1, <2>2, <3>2 DEF Enqueue, SyncInv, AllShown
      <4> QED  BY <1>1, <1>2, <2>1, <3>2, <4>1, ShowsAppendOther DEF Enqueue
    <3> QED  BY <3>1, <3>2
  <2> QED  BY <1>1, <1>4, <2>2 DEF SyncInv, AllShown, ClosedShowsNothing
<1>5. CASE sock # "closed" /\ ~HasRoom
  <2>1. Drop(message)
    BY <1>1, <1>5 DEF Broadcast
  <2>2. ASSUME NEW j \in Ifindex \ unseen'
        PROVE  Shows(queue', j, m_ifaces'[j], links'[j])
    BY <1>1, <1>2, <2>1, <2>2 DEF Drop, SyncInv, AllShown
  <2> QED  BY <1>1, <1>5, <2>2 DEF SyncInv, AllShown, ClosedShowsNothing
<1> QED  BY <1>3, <1>4, <1>5

LEMMA KernelSync ==
    ASSUME NetlinkTypeOK, SyncInv, KernelStep, UNCHANGED m_ifaces
    PROVE  SyncInv'
<1>1. PICK i \in Ifindex :
        LinkAdded(i) \/ LinkChanged(i) \/ LinkRenamed(i) \/ LinkDeleted(i)
  BY DEF KernelStep
<1>2. links[i] # None => links[i] \in Link
  BY DEF NetlinkTypeOK, LinkTables
<1>3. ASSUME NEW link \in Link, LinkEvent(i, link, Newlink(i, link))
      PROVE  SyncInv'
  <2>1. /\ Newlink(i, link) \in Message
        /\ Newlink(i, link).ifindex = i
        /\ Newlink(i, link).link = link
        /\ Newlink(i, link).type # "DELLINK"
    BY DEF Newlink, Message
  <2> QED  BY <1>3, <2>1, LinkEventSync
<1>4. CASE LinkAdded(i)
  BY <1>3, <1>4 DEF LinkAdded
<1>5. CASE LinkChanged(i)
  <2>1. PICK flags \in FlagSets :
          LET link == [links[i] EXCEPT !.flags = flags]
          IN  LinkEvent(i, link, Newlink(i, link))
    BY <1>5 DEF LinkChanged
  <2>2. [links[i] EXCEPT !.flags = flags] \in Link
    BY <1>2, <1>5 DEF LinkChanged, Link
  <2> QED  BY <1>3, <2>1, <2>2
<1>6. CASE LinkRenamed(i)
  <2>1. PICK name \in Name :
          LET link == [links[i] EXCEPT !.name = name]
          IN  LinkEvent(i, link, Newlink(i, link))
    BY <1>6 DEF LinkRenamed
  <2>2. [links[i] EXCEPT !.name = name] \in Link
    BY <1>2, <1>6 DEF LinkRenamed, Link
  <2> QED  BY <1>3, <2>1, <2>2
<1>7. CASE LinkDeleted(i)
  <2>1. /\ Dellink(i) \in Message
        /\ Dellink(i).ifindex = i
        /\ Dellink(i).link = None
    BY DEF Dellink, Message
  <2> QED  BY <1>7, <2>1, LinkEventSync DEF LinkDeleted
<1> QED  BY <1>1, <1>4, <1>5, <1>6, <1>7

\* The dump tells each link's state as it is at that moment.
LEMMA DumpSync ==
    ASSUME NetlinkTypeOK, SyncInv, DumpStep, UNCHANGED m_ifaces
    PROVE  SyncInv'
<1>1. queue \in Seq(Message)
  BY DEF NetlinkTypeOK
<1>2. CASE DumpDone
  <2>1. Done \in Message /\ Done.ifindex = None
    BY DEF Message, Done
  <2>2. ASSUME NEW j \in Ifindex \ unseen'
        PROVE  Shows(queue', j, m_ifaces'[j], links'[j])
    <3>1. j # None
      BY NoneAssumption
    <3>2. Shows(queue, j, m_ifaces[j], links[j])
      BY <1>2 DEF DumpDone, SyncInv, AllShown
    <3> QED  BY <1>1, <1>2, <2>1, <3>1, <3>2, ShowsAppendOther DEF DumpDone
  <2> QED  BY <1>2, <2>2 DEF DumpDone, SyncInv, AllShown, ClosedShowsNothing
<1>3. ASSUME NEW i \in Ifindex, DumpLink(i)
      PROVE  SyncInv'
  <2>1. CASE links[i] = None
    BY <1>3, <2>1 DEF DumpLink, SyncInv, AllShown, ClosedShowsNothing
  <2>2. CASE links[i] # None
    <3> DEFINE message == Newlink(i, links[i])
    <3>1. /\ message \in Message
          /\ message.ifindex = i
          /\ message.link = links[i]
      BY <2>2 DEF NetlinkTypeOK, LinkTables, Newlink, Message
    <3>2. Enqueue(message)
      BY <1>3, <2>2 DEF DumpLink
    <3>3. ASSUME NEW j \in Ifindex \ unseen'
          PROVE  Shows(queue', j, m_ifaces'[j], links'[j])
      <4>1. links' = links /\ m_ifaces' = m_ifaces
        BY <1>3 DEF DumpLink
      <4>2. CASE j = i
        BY <1>1, <3>1, <3>2, <4>1, <4>2, ShowsAppendSame DEF Enqueue
      <4>3. CASE j # i
        <5>1. Shows(queue, j, m_ifaces[j], links[j])
          BY <3>1, <3>2, <3>3, <4>3 DEF Enqueue, SyncInv, AllShown
        <5> QED  BY <1>1, <3>1, <3>2, <4>1, <4>3, <5>1, ShowsAppendOther
                 DEF Enqueue
      <4> QED  BY <4>2, <4>3
    <3> QED  BY <1>3, <3>3 DEF DumpLink, SyncInv, AllShown, ClosedShowsNothing
  <2> QED  BY <2>1, <2>2
<1> QED  BY <1>2, <1>3 DEF DumpStep

\* What a message tells is stored, whatever is decided about the tray.
LEMMA MessageStored ==
    ASSUME NEW message \in Message, handleMessage(message)
    PROVE  /\ message.ifindex \in Ifindex =>
                  m_ifaces' = [m_ifaces EXCEPT ![message.ifindex] =
                                  View(message.link)]
           /\ message.ifindex \notin Ifindex => m_ifaces' = m_ifaces
<1>1. CASE message.type = "NEWLINK"
  <2>1. message.ifindex \in Ifindex /\ message.link \in Link
    BY <1>1 DEF Message, Done
  <2>2. message.link # None
    BY <2>1, NoneIsNoLink
  <2> QED  BY <1>1, <2>1, <2>2 DEF handleMessage, onChange, View
<1>2. CASE message.type = "DELLINK"
  <2>1. message.ifindex \in Ifindex /\ message.link = None
    BY <1>2 DEF Message, Done
  <2> QED  BY <1>2, <2>1 DEF handleMessage, onRemoved, View
<1>3. CASE message = Done
  BY <1>3, NoneAssumption DEF Done, handleMessage
<1> QED  BY <1>1, <1>2, <1>3 DEF Message

\* The view follows the message that leaves the queue.
LEMMA ReceiveSync ==
    ASSUME NetlinkTypeOK, m_ifaces \in [Ifindex -> IfaceState \cup {None}],
           SyncInv, ProcessMessage
    PROVE  SyncInv'
<1> DEFINE message == Head(queue)
<1>1. /\ queue \in Seq(Message)
      /\ queue # << >>
      /\ queue' = Tail(queue)
      /\ UNCHANGED << links, sock, unseen >>
      /\ handleMessage(message)
      /\ message \in Message
  BY DEF NetlinkTypeOK, ProcessMessage, Recv
<1>2. sock # "closed"
  BY <1>1 DEF SyncInv, ClosedShowsNothing
<1>3. message.ifindex \in Ifindex =>
        m_ifaces' = [m_ifaces EXCEPT ![message.ifindex] = View(message.link)]
  BY <1>1, MessageStored
<1>4. message.ifindex \notin Ifindex => m_ifaces' = m_ifaces
  BY <1>1, MessageStored
<1>5. ASSUME NEW j \in Ifindex \ unseen'
      PROVE  Shows(queue', j, m_ifaces'[j], links'[j])
  <2>1. Shows(queue, j, m_ifaces[j], links[j])
    BY <1>1 DEF SyncInv, AllShown
  <2>2. CASE message.ifindex = j
    <3>1. m_ifaces'[j] = View(message.link)
      BY <1>3, <2>2
    <3> QED  BY <1>1, <2>1, <2>2, <3>1, ShowsTailSame
  <2>3. CASE message.ifindex # j
    <3>1. m_ifaces'[j] = m_ifaces[j]
      BY <1>3, <1>4, <2>3
    <3> QED  BY <1>1, <2>1, <2>3, <3>1, ShowsTailOther
  <2> QED  BY <2>2, <2>3
<1> QED  BY <1>1, <1>2, <1>5 DEF SyncInv, AllShown, ClosedShowsNothing

LEMMA SyncUnchanged ==
    ASSUME SyncInv, UNCHANGED << links, queue, unseen, m_ifaces >>,
           sock' = "closed" => sock = "closed"
    PROVE  SyncInv'
  BY DEF SyncInv, AllShown, ClosedShowsNothing

LEMMA SyncNext == Inv /\ SyncInv /\ [Next]_vars => SyncInv'
<1> SUFFICES ASSUME Inv, SyncInv, [Next]_vars PROVE SyncInv'
  OBVIOUS
<1>0. NetlinkTypeOK /\ m_ifaces \in [Ifindex -> IfaceState \cup {None}]
  BY DEF Inv, TypeOK
<1>1. CASE OpenSocket \/ RequestDump \/ openSignalFd
  BY <1>1, SyncUnchanged
  DEF OpenSocket, RequestDump, openSignalFd, StartupUnchanged, Bind,
      requestDump, netlinkVars
<1>2. CASE Poll \/ LeaveLoop \/ MessagesDone \/ ReadSignal \/ SignalsDone
  BY <1>2, SyncUnchanged
  DEF Poll, LeaveLoop, MessagesDone, RecvFails, ReadSignal, SignalsDone,
      netlinkVars
<1>3. CASE ProcessMessage
  BY <1>0, <1>3, ReceiveSync
<1>4. CASE reapExited \/ ReapDone \/ SignalAll \/ WaitAll \/ Exit
  BY <1>4, SyncUnchanged
  DEF reapExited, ReapDone, SignalAll, WaitAll, Exit, netlinkVars
<1>5. CASE LinkStep
  <2>1. UNCHANGED m_ifaces
    BY <1>5 DEF LinkStep, daemonVars
  <2> QED  BY <1>0, <1>5, <2>1, KernelSync, DumpSync DEF LinkStep
<1>6. CASE ChildStep \/ Terminate
  BY <1>6, SyncUnchanged
  DEF ChildStep, ChildUnblocks, ChildExits, Terminate, netlinkVars
<1>7. CASE UNCHANGED vars
  BY <1>7, SyncUnchanged DEF vars, netlinkVars, daemonVars
<1> QED  BY <1>1, <1>2, <1>3, <1>4, <1>5, <1>6, <1>7
         DEF Next, DaemonStep, Finished

\* The daemon's view catches up with every link whose state reached the queue.
THEOREM ViewCatchesUp == Spec => []Synced
<1>1. SyncInv => Synced
  BY SyncedIsAllShown DEF SyncInv
<1> QED  BY Invariance, SyncInit, SyncNext, <1>1, PTL DEF Spec

-----------------------------------------------------------------------------
(* As long as no notification is dropped.                                  *)

\* A link not told of exists and is still to come in the dump.
GapInv ==
    /\ unseen \subseteq Present
    /\ sock = "dumping" => unseen \subseteq dumpLeft
    /\ DumpLeavesNoGap

LEMMA LinkEventGap ==
    ASSUME NetlinkTypeOK, GapInv, ~overrun', NEW i \in Ifindex,
           NEW link \in Link \cup {None}, NEW message \in Message,
           message.ifindex = i, message.link = link,
           LinkEvent(i, link, message)
    PROVE  GapInv'
<1>1. Present' = IF link = None THEN Present \ {i} ELSE Present \cup {i}
  BY NoneIsNoLink DEF LinkEvent, Present, NetlinkTypeOK, LinkTables
<1>2. CASE sock = "closed"
  <2>1. unseen' = IF link = None THEN unseen \ {i} ELSE unseen \cup {i}
    <3>1. message.type = "DELLINK" <=> link = None
      BY NoneAssumption, NoneIsNoLink DEF Message, Done
    <3> QED  BY <1>2, <3>1 DEF LinkEvent, Broadcast, NotSubscribed
  <2> QED  BY <1>1, <1>2, <2>1 DEF GapInv, DumpLeavesNoGap, LinkEvent
<1>3. CASE sock # "closed"
  <2>1. unseen' = unseen \ {i}
    BY <1>3 DEF LinkEvent, Broadcast, Enqueue, Drop
  <2> QED  BY <1>1, <1>3, <2>1 DEF GapInv, DumpLeavesNoGap, LinkEvent
<1> QED  BY <1>2, <1>3

\* A link event with the message that tells of it.
LEMMA KernelStepIsEvent ==
    ASSUME NetlinkTypeOK, KernelStep
    PROVE  \E i \in Ifindex, link \in Link \cup {None}, message \in Message :
               /\ message.ifindex = i
               /\ message.link = link
               /\ links' \in LinkTables
               /\ LinkEvent(i, link, message)
<1>1. PICK i \in Ifindex :
        LinkAdded(i) \/ LinkChanged(i) \/ LinkRenamed(i) \/ LinkDeleted(i)
  BY DEF KernelStep
<1>2. links' \in LinkTables
  BY KernelType DEF NetlinkTypeOK
<1>3. ASSUME NEW link \in Link
      PROVE  /\ Newlink(i, link) \in Message
             /\ Newlink(i, link).ifindex = i
             /\ Newlink(i, link).link = link
  BY DEF Newlink, Message
<1>4. CASE LinkAdded(i)
  BY <1>2, <1>3, <1>4 DEF LinkAdded
<1>5. CASE LinkChanged(i)
  <2>1. PICK flags \in FlagSets :
          LET link == [links[i] EXCEPT !.flags = flags]
          IN  LinkEvent(i, link, Newlink(i, link))
    BY <1>5 DEF LinkChanged
  <2>2. [links[i] EXCEPT !.flags = flags] \in Link
    BY <1>5 DEF LinkChanged, NetlinkTypeOK, LinkTables, Link
  <2> QED  BY <1>2, <1>3, <2>1, <2>2
<1>6. CASE LinkRenamed(i)
  <2>1. PICK name \in Name :
          LET link == [links[i] EXCEPT !.name = name]
          IN  LinkEvent(i, link, Newlink(i, link))
    BY <1>6 DEF LinkRenamed
  <2>2. [links[i] EXCEPT !.name = name] \in Link
    BY <1>6 DEF LinkRenamed, NetlinkTypeOK, LinkTables, Link
  <2> QED  BY <1>2, <1>3, <2>1, <2>2
<1>7. CASE LinkDeleted(i)
  <2>1. /\ Dellink(i) \in Message
        /\ Dellink(i).ifindex = i
        /\ Dellink(i).link = None
    BY DEF Dellink, Message
  <2> QED  BY <1>2, <1>7, <2>1 DEF LinkDeleted
<1> QED  BY <1>1, <1>4, <1>5, <1>6, <1>7

LEMMA GapInit == Init => GapInv
BY DEF Init, NetlinkInit, GapInv, DumpLeavesNoGap

LEMMA GapUnchanged ==
    ASSUME GapInv, UNCHANGED << links, sock, unseen, dumpLeft >>
    PROVE  GapInv'
BY DEF GapInv, DumpLeavesNoGap, Present

LEMMA GapNext == Inv /\ GapInv /\ [Next]_vars /\ ~overrun' => GapInv'
<1> SUFFICES ASSUME Inv, GapInv, [Next]_vars, ~overrun' PROVE GapInv'
  OBVIOUS
<1>0. NetlinkTypeOK
  BY DEF Inv, TypeOK
<1>1. CASE OpenSocket
  <2>1. /\ UNCHANGED << links, unseen, dumpLeft >>
        /\ sock' = "bound" \/ UNCHANGED sock
    BY <1>1 DEF OpenSocket, Bind, netlinkVars
  <2> QED  BY <2>1 DEF GapInv, DumpLeavesNoGap, Present
<1>2. CASE RequestDump
  <2>1. CASE requestDump
    BY <2>1 DEF requestDump, GapInv, DumpLeavesNoGap, Present
  <2>2. CASE UNCHANGED netlinkVars
    BY <2>2, GapUnchanged DEF netlinkVars
  <2> QED  BY <1>2, <2>1, <2>2 DEF RequestDump
<1>3. CASE openSignalFd \/ Poll \/ LeaveLoop \/ ReadSignal \/ SignalsDone
  BY <1>3, GapUnchanged
  DEF openSignalFd, Poll, LeaveLoop, ReadSignal, SignalsDone, netlinkVars
<1>4. CASE ProcessMessage \/ MessagesDone
  BY <1>4, GapUnchanged DEF ProcessMessage, Recv, MessagesDone, RecvFails
<1>5. CASE reapExited \/ ReapDone \/ SignalAll \/ WaitAll \/ Exit
  BY <1>5, GapUnchanged
  DEF reapExited, ReapDone, SignalAll, WaitAll, Exit, netlinkVars
<1>6. CASE LinkStep
  <2>1. CASE KernelStep
    BY <1>0, <2>1, KernelStepIsEvent, LinkEventGap
  <2>2. CASE DumpDone
    BY <2>2 DEF DumpDone, GapInv, DumpLeavesNoGap, Present
  <2>3. CASE \E i \in Ifindex : DumpLink(i)
    <3>1. PICK i \in Ifindex : DumpLink(i)
      BY <2>3
    <3>2. unseen' = unseen \ {i}
      BY <3>1 DEF DumpLink, Enqueue, Newlink, GapInv, Present
    <3> QED  BY <3>1, <3>2 DEF DumpLink, GapInv, DumpLeavesNoGap, Present
  <2> QED  BY <1>6, <2>1, <2>2, <2>3 DEF LinkStep, DumpStep
<1>7. CASE ChildStep \/ Terminate
  BY <1>7, GapUnchanged
  DEF ChildStep, ChildUnblocks, ChildExits, Terminate, netlinkVars
<1>8. CASE UNCHANGED vars
  BY <1>8, GapUnchanged DEF vars, netlinkVars
<1> QED  BY <1>1, <1>2, <1>3, <1>4, <1>5, <1>6, <1>7, <1>8
         DEF Next, DaemonStep, Finished

\* Subscribing before the dump leaves no gap: as long as no notification is
\* dropped, every link has been told of when the dump is through.
THEOREM NoLinkOverlooked == Spec /\ []~overrun => []DumpLeavesNoGap
<1>1. GapInv => DumpLeavesNoGap
  BY DEF GapInv
<1> QED  BY Invariance, GapInit, GapNext, <1>1, PTL DEF Spec

-----------------------------------------------------------------------------
(* Names stay unique on their way through the queue.                       *)

\* Once the first k messages of q have reached a view that now is v, it has
\* the state st for interface i.
ShownAfter(q, v, k, i, st) ==
    \/ /\ st = v[i]
       /\ \A l \in 1 .. k : q[l].ifindex # i
    \/ \E l \in 1 .. k :
          /\ q[l].ifindex = i
          /\ st = View(q[l].link)
          /\ \A m \in 1 .. k : q[m].ifindex = i => m <= l

LEMMA ShownAfterAppend ==
    ASSUME NEW q \in Seq(Message), NEW e \in Message, NEW v, NEW i, NEW st,
           NEW k \in 0 .. Len(q) + 1, ShownAfter(Append(q, e), v, k, i, st)
    PROVE  /\ k <= Len(q) => ShownAfter(q, v, k, i, st)
           /\ k = Len(q) + 1 /\ e.ifindex = i => st = View(e.link)
           /\ k = Len(q) + 1 /\ e.ifindex # i => ShownAfter(q, v, Len(q), i, st)
<1> DEFINE r == Append(q, e)
           n == Len(q)
<1>1. /\ n \in Nat
      /\ \A l \in 1 .. n : r[l] = q[l]
      /\ r[n + 1] = e
  BY AppendProperties, LenProperties
<1>2. CASE k <= n
  BY <1>1, <1>2 DEF ShownAfter
<1>3. CASE k = n + 1 /\ e.ifindex = i
  BY <1>1, <1>3 DEF ShownAfter
<1>4. CASE k = n + 1 /\ e.ifindex # i
  <2>1. CASE /\ st = v[i]
             /\ \A l \in 1 .. k : r[l].ifindex # i
    BY <1>1, <1>4, <2>1 DEF ShownAfter
  <2>2. ASSUME NEW l \in 1 .. k, r[l].ifindex = i, st = View(r[l].link),
               \A m \in 1 .. k : r[m].ifindex = i => m <= l
        PROVE  ShownAfter(q, v, n, i, st)
    <3>1. l \in 1 .. n
      BY <1>1, <1>4, <2>2
    <3> QED  BY <1>1, <1>4, <2>2, <3>1 DEF ShownAfter
  <2> QED  BY <1>1, <1>4, <2>1, <2>2 DEF ShownAfter
<1> QED  BY <1>1, <1>2, <1>3, <1>4

LEMMA ShownAfterTail ==
    ASSUME NEW q \in Seq(Message), q # << >>, NEW v, NEW w, NEW i, NEW st,
           NEW k \in 0 .. Len(q) - 1,
           w[i] = IF Head(q).ifindex = i THEN View(Head(q).link) ELSE v[i],
           ShownAfter(Tail(q), w, k, i, st)
    PROVE  ShownAfter(q, v, k + 1, i, st)
<1> DEFINE r == Tail(q)
<1>1. /\ Len(q) \in Nat \ {0}
      /\ \A l \in 1 .. Len(q) - 1 : r[l] = q[l + 1]
      /\ Head(q) = q[1]
  BY HeadTailProperties, EmptySeq, LenProperties
<1>2. CASE /\ st = w[i]
           /\ \A l \in 1 .. k : r[l].ifindex # i
  <2>1. \A m \in 2 .. k + 1 : q[m].ifindex # i
    <3> SUFFICES ASSUME NEW m \in 2 .. k + 1 PROVE q[m].ifindex # i
      OBVIOUS
    <3>1. m - 1 \in 1 .. k /\ r[m - 1] = q[m]
      BY <1>1
    <3> QED  BY <1>2, <3>1
  <2>2. CASE q[1].ifindex = i
    <3>1. 1 \in 1 .. k + 1 /\ st = View(q[1].link)
      BY <1>1, <1>2, <2>2
    <3>2. \A m \in 1 .. k + 1 : q[m].ifindex = i => m <= 1
      BY <2>1
    <3> QED  BY <2>2, <3>1, <3>2 DEF ShownAfter
  <2>3. CASE q[1].ifindex # i
    <3>1. \A m \in 1 .. k + 1 : q[m].ifindex # i
      BY <2>1, <2>3
    <3>2. st = v[i]
      BY <1>1, <1>2, <2>3
    <3> QED  BY <3>1, <3>2 DEF ShownAfter
  <2> QED  BY <2>2, <2>3
<1>3. ASSUME NEW l \in 1 .. k, r[l].ifindex = i, st = View(r[l].link),
             \A m \in 1 .. k : r[m].ifindex = i => m <= l
      PROVE  ShownAfter(q, v, k + 1, i, st)
  <2>1. l + 1 \in 1 .. k + 1 /\ q[l + 1] = r[l]
    BY <1>1
  <2>2. ASSUME NEW m \in 1 .. k + 1, q[m].ifindex = i
        PROVE  m <= l + 1
    <3>1. CASE m = 1
      BY <3>1
    <3>2. CASE m # 1
      <4>1. m - 1 \in 1 .. k /\ r[m - 1] = q[m]
        BY <1>1, <3>2
      <4>2. m - 1 <= l
        BY <1>3, <2>2, <4>1
      <4> QED  BY <1>1, <4>2
    <3> QED  BY <3>1, <3>2
  <2> QED  BY <1>3, <2>1, <2>2 DEF ShownAfter
<1> QED  BY <1>2, <1>3 DEF ShownAfter

\* However many messages the daemon still has to read, it never holds two
\* links of one name, and when it has read them all it holds the kernel's.
NamesInv ==
    /\ ClosedShowsNothing
    /\ \A i \in Ifindex : \A st \in IfaceState :
          ShownAfter(queue, m_ifaces, Len(queue), i, st) =>
              links[i] # None /\ st.name = links[i].name
    /\ \A k \in 0 .. Len(queue) : \A i, j \in Ifindex :
          \A st, su \in IfaceState :
              /\ ShownAfter(queue, m_ifaces, k, i, st)
              /\ ShownAfter(queue, m_ifaces, k, j, su)
              /\ st.name = su.name
              => i = j

LEMMA NamesInit == Init => NamesInv
<1> SUFFICES ASSUME Init PROVE NamesInv
  OBVIOUS
<1>1. ClosedShowsNothing
  BY DEF Init, NetlinkInit, ClosedShowsNothing
<1>2. queue = << >> /\ Len(queue) = 0
  BY EmptySeq DEF Init, NetlinkInit
<1>3. ASSUME NEW i \in Ifindex, NEW st \in IfaceState
      PROVE  ~ShownAfter(queue, m_ifaces, 0, i, st)
  BY NoneIsNoIfaceState DEF Init, ShownAfter
<1>4. \A k \in 0 .. Len(queue) : k = 0
  BY <1>2
<1> QED  BY <1>1, <1>2, <1>3, <1>4 DEF NamesInv

\* What matters of a message joining the queue: the state it tells is the
\* kernel's, whose names are unique.
LEMMA NamesEnqueued ==
    ASSUME NamesInv, queue \in Seq(Message), NEW message \in Message,
           queue' = Append(queue, message), UNCHANGED m_ifaces,
           sock' # "closed", links' \in LinkTables,
           message.ifindex \in Ifindex => message.link = links'[message.ifindex],
           \A j \in Ifindex : j # message.ifindex => links'[j] = links[j]
    PROVE  NamesInv'
<1> DEFINE n == Len(queue)
<1>1. n \in Nat /\ Len(queue') = n + 1
  BY AppendProperties, LenProperties
<1>2. ASSUME NEW i \in Ifindex, NEW st \in IfaceState,
             ShownAfter(queue', m_ifaces', n + 1, i, st)
      PROVE  links'[i] # None /\ st.name = links'[i].name
  <2>1. n + 1 \in 0 .. n + 1
    BY <1>1
  <2>2. CASE message.ifindex = i
    <3>1. st = View(links'[i])
      BY <1>2, <2>1, <2>2, ShownAfterAppend
    <3>2. links'[i] # None
      BY <3>1, NoneIsNoIfaceState DEF View
    <3> QED  BY <3>1, <3>2 DEF View
  <2>3. CASE message.ifindex # i
    <3>1. ShownAfter(queue, m_ifaces, n, i, st)
      BY <1>2, <2>1, <2>3, ShownAfterAppend
    <3> QED  BY <2>3, <3>1 DEF NamesInv
  <2> QED  BY <2>2, <2>3
<1>3. ASSUME NEW k \in 0 .. n + 1, NEW i \in Ifindex, NEW j \in Ifindex,
             NEW st \in IfaceState, NEW su \in IfaceState,
             ShownAfter(queue', m_ifaces', k, i, st),
             ShownAfter(queue', m_ifaces', k, j, su),
             st.name = su.name
      PROVE  i = j
  <2>1. CASE k <= n
    <3>1. /\ ShownAfter(queue, m_ifaces, k, i, st)
          /\ ShownAfter(queue, m_ifaces, k, j, su)
      BY <1>3, <2>1, ShownAfterAppend
    <3>2. k \in 0 .. n
      BY <1>1, <2>1
    <3> QED  BY <1>3, <3>1, <3>2 DEF NamesInv
  <2>2. CASE k = n + 1
    <3>1. /\ links'[i] # None
          /\ links'[j] # None
          /\ links'[i].name = links'[j].name
      BY <1>2, <1>3, <2>2
    <3> QED  BY <3>1 DEF LinkTables, NamesAreUnique
  <2> QED  BY <1>1, <2>1, <2>2
<1>4. ClosedShowsNothing'
  BY DEF ClosedShowsNothing
<1> QED  BY <1>1, <1>2, <1>3, <1>4 DEF NamesInv

LEMMA NamesTaken ==
    ASSUME NetlinkTypeOK, m_ifaces \in [Ifindex -> IfaceState \cup {None}],
           NamesInv, ProcessMessage
    PROVE  NamesInv'
<1> DEFINE message == Head(queue)
           n == Len(queue)
<1>1. /\ queue \in Seq(Message)
      /\ queue # << >>
      /\ queue' = Tail(queue)
      /\ UNCHANGED << links, sock >>
      /\ handleMessage(message)
      /\ message \in Message
  BY DEF NetlinkTypeOK, ProcessMessage, Recv
<1>2. n \in Nat \ {0} /\ Len(queue') = n - 1
  BY <1>1, HeadTailProperties, EmptySeq, LenProperties
<1>3. \A i \in Ifindex :
        m_ifaces'[i] = IF message.ifindex = i THEN View(message.link)
                       ELSE m_ifaces[i]
  BY <1>1, MessageStored
<1>4. ASSUME NEW k \in 0 .. n - 1, NEW i \in Ifindex, NEW st,
             ShownAfter(queue', m_ifaces', k, i, st)
      PROVE  ShownAfter(queue, m_ifaces, k + 1, i, st)
  BY <1>1, <1>3, <1>4, ShownAfterTail
<1>5. ASSUME NEW i \in Ifindex, NEW st \in IfaceState,
             ShownAfter(queue', m_ifaces', n - 1, i, st)
      PROVE  links'[i] # None /\ st.name = links'[i].name
  <2>1. n - 1 \in 0 .. n - 1 /\ n - 1 + 1 = n
    BY <1>2
  <2>2. ShownAfter(queue, m_ifaces, n, i, st)
    BY <1>4, <1>5, <2>1
  <2> QED  BY <1>1, <2>2 DEF NamesInv
<1>6. ASSUME NEW k \in 0 .. n - 1, NEW i \in Ifindex, NEW j \in Ifindex,
             NEW st \in IfaceState, NEW su \in IfaceState,
             ShownAfter(queue', m_ifaces', k, i, st),
             ShownAfter(queue', m_ifaces', k, j, su),
             st.name = su.name
      PROVE  i = j
  <2>1. k + 1 \in 0 .. n
    BY <1>2
  <2>2. /\ ShownAfter(queue, m_ifaces, k + 1, i, st)
        /\ ShownAfter(queue, m_ifaces, k + 1, j, su)
    BY <1>4, <1>6
  <2> QED  BY <1>6, <2>1, <2>2 DEF NamesInv
<1>7. ClosedShowsNothing'
  BY <1>1 DEF NamesInv, ClosedShowsNothing
<1> QED  BY <1>2, <1>5, <1>6, <1>7 DEF NamesInv

LEMMA NamesUnchanged ==
    ASSUME NamesInv, UNCHANGED << links, queue, m_ifaces >>,
           sock' = "closed" => sock = "closed"
    PROVE  NamesInv'
BY DEF NamesInv, ClosedShowsNothing, ShownAfter, View

\* A link event before there is a socket.
LEMMA NamesUnseen ==
    ASSUME NamesInv, sock = "closed", UNCHANGED << sock, queue, m_ifaces >>
    PROVE  NamesInv'
<1>1. queue = << >> /\ Len(queue) = 0 /\ \A i \in Ifindex : m_ifaces[i] = None
  BY EmptySeq DEF NamesInv, ClosedShowsNothing
<1>2. ASSUME NEW i \in Ifindex, NEW st \in IfaceState
      PROVE  ~ShownAfter(queue', m_ifaces', 0, i, st)
  BY <1>1, NoneIsNoIfaceState DEF ShownAfter
<1>3. \A k \in 0 .. Len(queue') : k = 0
  BY <1>1
<1>4. ClosedShowsNothing'
  BY <1>1 DEF ClosedShowsNothing
<1> QED  BY <1>1, <1>2, <1>3, <1>4 DEF NamesInv

LEMMA NamesNext == Inv /\ NamesInv /\ [Next]_vars /\ ~overrun' => NamesInv'
<1> SUFFICES ASSUME Inv, NamesInv, [Next]_vars, ~overrun' PROVE NamesInv'
  OBVIOUS
<1>0. NetlinkTypeOK /\ m_ifaces \in [Ifindex -> IfaceState \cup {None}]
  BY DEF Inv, TypeOK
<1>1. CASE OpenSocket \/ RequestDump \/ openSignalFd
  BY <1>1, NamesUnchanged
  DEF OpenSocket, RequestDump, openSignalFd, StartupUnchanged, Bind,
      requestDump, netlinkVars
<1>2. CASE Poll \/ LeaveLoop \/ MessagesDone \/ ReadSignal \/ SignalsDone
  BY <1>2, NamesUnchanged
  DEF Poll, LeaveLoop, MessagesDone, RecvFails, ReadSignal, SignalsDone,
      netlinkVars
<1>3. CASE ProcessMessage
  BY <1>0, <1>3, NamesTaken
<1>4. CASE reapExited \/ ReapDone \/ SignalAll \/ WaitAll \/ Exit
  BY <1>4, NamesUnchanged
  DEF reapExited, ReapDone, SignalAll, WaitAll, Exit, netlinkVars
<1>5. CASE LinkStep
  <2>0. UNCHANGED m_ifaces
    BY <1>5 DEF LinkStep, daemonVars
  <2>1. CASE KernelStep
    <3>1. PICK i \in Ifindex, link \in Link \cup {None}, message \in Message :
            /\ message.ifindex = i
            /\ message.link = link
            /\ links' \in LinkTables
            /\ LinkEvent(i, link, message)
      BY <1>0, <2>1, KernelStepIsEvent
    <3>2. CASE sock = "closed"
      BY <2>0, <3>1, <3>2, NamesUnseen
      DEF LinkEvent, Broadcast, NotSubscribed
    <3>3. CASE sock # "closed"
      <4>1. queue' = Append(queue, message) /\ sock' # "closed"
        BY <3>1, <3>3 DEF LinkEvent, Broadcast, Enqueue, Drop
      <4>2. /\ links'[i] = link
            /\ \A j \in Ifindex : j # i => links'[j] = links[j]
        BY <1>0, <3>1 DEF LinkEvent, NetlinkTypeOK, LinkTables
      <4> QED  BY <1>0, <2>0, <3>1, <4>1, <4>2, NamesEnqueued
               DEF NetlinkTypeOK
    <3> QED  BY <3>2, <3>3
  <2>2. CASE DumpDone
    <3>1. /\ Done \in Message
          /\ Done.ifindex \notin Ifindex
          /\ queue' = Append(queue, Done)
          /\ UNCHANGED links
          /\ sock' # "closed"
      BY <2>2, NoneAssumption DEF DumpDone, Message, Done
    <3>2. links' \in LinkTables /\ queue \in Seq(Message)
      BY <1>0, <3>1 DEF NetlinkTypeOK
    <3> QED  BY <2>0, <3>1, <3>2, NamesEnqueued
  <2>3. CASE \E i \in Ifindex : DumpLink(i)
    <3>1. PICK i \in Ifindex : DumpLink(i)
      BY <2>3
    <3>2. CASE links[i] = None
      BY <2>0, <3>1, <3>2, NamesUnchanged DEF DumpLink
    <3>3. CASE links[i] # None
      <4> DEFINE message == Newlink(i, links[i])
      <4>1. /\ message \in Message
            /\ message.ifindex = i
            /\ message.link = links[i]
        BY <1>0, <3>3 DEF Newlink, Message, NetlinkTypeOK, LinkTables
      <4>2. /\ queue' = Append(queue, message)
            /\ UNCHANGED links
            /\ sock' # "closed"
        BY <3>1, <3>3 DEF DumpLink, Enqueue
      <4>3. links' \in LinkTables /\ queue \in Seq(Message)
        BY <1>0, <4>2 DEF NetlinkTypeOK
      <4> HIDE DEF message
      <4> QED  BY <2>0, <4>1, <4>2, <4>3, NamesEnqueued
    <3> QED  BY <3>2, <3>3
  <2> QED  BY <1>5, <2>1, <2>2, <2>3 DEF LinkStep, DumpStep
<1>6. CASE ChildStep \/ Terminate
  BY <1>6, NamesUnchanged
  DEF ChildStep, ChildUnblocks, ChildExits, Terminate, netlinkVars
<1>7. CASE UNCHANGED vars
  BY <1>7, NamesUnchanged DEF vars, netlinkVars, daemonVars
<1> QED  BY <1>1, <1>2, <1>3, <1>4, <1>5, <1>6, <1>7
         DEF Next, DaemonStep, Finished

\* As long as no notification is dropped, no two interfaces have trays of one
\* name, while names move between links and the daemon reads of it late.
THEOREM NoTwoTraysOfOneName == Spec /\ []~overrun => []OneTrayPerName
<1>1. Inv /\ NamesInv => OneTrayPerName
  <2> SUFFICES ASSUME Inv, NamesInv, NEW i \in Ifindex, NEW j \in Ifindex,
                      Tracked(i), Tracked(j),
                      TrayIface(m_processes, i) = TrayIface(m_processes, j)
               PROVE  i = j
    BY DEF OneTrayPerName
  <2>1. /\ m_ifaces[i] \in IfaceState
        /\ m_ifaces[j] \in IfaceState
        /\ m_ifaces[i].name = m_ifaces[j].name
    BY DEF Inv, TypeOK, TrayMatchesKnownLink, WasUp
  <2>2. /\ ShownAfter(queue, m_ifaces, 0, i, m_ifaces[i])
        /\ ShownAfter(queue, m_ifaces, 0, j, m_ifaces[j])
    BY DEF ShownAfter
  <2>3. 0 \in 0 .. Len(queue)
    BY LenProperties DEF Inv, TypeOK, NetlinkTypeOK
  <2> QED  BY <2>1, <2>2, <2>3 DEF NamesInv
<1> QED  BY Invariance, NamesInit, NamesNext, <1>1, PTL DEF Spec
=============================================================================
