------------------------- MODULE SupervisionProofs --------------------------
(***************************************************************************)
(* The watcher implements TraySupervision, for any interfaces, names,      *)
(* process ids, faults, filter and queue capacity.                         *)
(***************************************************************************)
EXTENDS WatcherProofs

-----------------------------------------------------------------------------
(* What the operations of the process manager make of the trays.           *)

\* From P to Q the interfaces in S keep the trays they have or lack.
SameTrays(P, Q, S) == \A j \in S : TrayOf(Q, j) = TrayOf(P, j)

\* stop(i) takes the tray of i and no other.
LEMMA StopTrayOf ==
    ASSUME NEW P, ProcessesInv(P), NEW i \in Ifindex
    PROVE  /\ TrayOf(stop(P, i), i) = None
           /\ SameTrays(P, stop(P, i), Ifindex \ {i})
<1>1. CASE ~isRunning(P, i)
  BY <1>1 DEF stop, TrayOf, SameTrays
<1>2. CASE isRunning(P, i)
  <2> DEFINE p == P.byIfindex[i]
             Q == stop(P, i)
  <2>1. p \in Pid /\ P.ifindexByPid[p] = i
    BY <1>2 DEF ProcessesInv, Processes, MapsInverse, isRunning
  <2>2. /\ Q.byIfindex = [P.byIfindex EXCEPT ![i] = None]
        /\ Q.children = [P.children EXCEPT ![p] = Signalled(P.children[p])]
    BY <1>2, <2>1 DEF stop, ProcessesInv, Processes
  <2>3. ~isRunning(Q, i)
    BY <2>2 DEF isRunning, ProcessesInv, Processes
  <2>4. ASSUME NEW j \in Ifindex \ {i}
        PROVE  TrayOf(Q, j) = TrayOf(P, j)
    <3>1. Q.byIfindex[j] = P.byIfindex[j]
      BY <2>2 DEF ProcessesInv, Processes
    <3>2. CASE ~isRunning(P, j)
      BY <3>1, <3>2 DEF TrayOf, isRunning
    <3>3. CASE isRunning(P, j)
      <4>1. P.byIfindex[j] # p /\ P.byIfindex[j] \in Pid
        BY <2>1, <3>3 DEF ProcessesInv, Processes, MapsInverse, isRunning
      <4> QED  BY <2>1, <2>2, <3>1, <3>3, <4>1
               DEF TrayOf, TrayIface, isRunning, ProcessesInv, Processes
    <3> QED  BY <3>2, <3>3
  <2> QED  BY <2>3, <2>4 DEF TrayOf, SameTrays
<1> QED  BY <1>1, <1>2

\* start(i, name) gives i a tray of that name, or none.
LEMMA StartTrayOf ==
    ASSUME NEW P, ProcessesInv(P), NEW i \in Ifindex, NEW name \in Name,
           ~isRunning(P, i), NEW Q \in start(P, i, name)
    PROVE  /\ TrayOf(Q, i) \in {None, name}
           /\ SameTrays(P, Q, Ifindex \ {i})
<1>1. CASE Q = P
  BY <1>1 DEF SameTrays, TrayOf
<1>2. CASE \E p \in FreePids(P) : Q = Forked(P, i, name, p)
  <2>1. PICK p \in FreePids(P) : Q = Forked(P, i, name, p)
    BY <1>2
  <2> DEFINE child == [st |-> "running", iface |-> name,
                       sigterm |-> FALSE, blocked |-> TRUE]
  <2>2. p \in Pid /\ P.children[p] = None
    BY DEF FreePids
  <2>3. /\ Q.byIfindex = [P.byIfindex EXCEPT ![i] = p]
        /\ Q.children = [P.children EXCEPT ![p] = child]
    BY <2>1 DEF Forked
  <2>4. TrayIface(Q, i) = name
    BY <2>2, <2>3 DEF TrayIface, ProcessesInv, Processes
  <2>5. ASSUME NEW j \in Ifindex \ {i}
        PROVE  TrayOf(Q, j) = TrayOf(P, j)
    <3>1. Q.byIfindex[j] = P.byIfindex[j]
      BY <2>3 DEF ProcessesInv, Processes
    <3>2. CASE ~isRunning(P, j)
      BY <3>1, <3>2 DEF TrayOf, isRunning
    <3>3. CASE isRunning(P, j)
      <4>1. P.byIfindex[j] \in Pid
        BY <3>3 DEF ProcessesInv, Processes, isRunning
      <4>2. P.byIfindex[j] \in TrackedPids(P)
        BY <3>3, <4>1, NoneAssumption
        DEF ProcessesInv, MapsInverse, isRunning, TrackedPids
      <4>3. P.children[P.byIfindex[j]] \in Child
        BY <4>2 DEF ProcessesInv, TrackedAreChildren
      <4>4. P.byIfindex[j] # p
        BY <2>2, <4>3, NoneIsNoChild
      <4> QED  BY <2>2, <2>3, <3>1, <3>3, <4>1, <4>4
               DEF TrayOf, TrayIface, isRunning, ProcessesInv, Processes
    <3> QED  BY <3>2, <3>3
  <2> QED  BY <2>4, <2>5 DEF TrayOf, SameTrays
<1> QED  BY <1>1, <1>2 DEF start

LEMMA StartIfEligibleTrayOf ==
    ASSUME NEW P, ProcessesInv(P), NEW i \in Ifindex, NEW name \in Name,
           ~isRunning(P, i), NEW Q \in startIfEligible(P, i, name)
    PROVE  /\ TrayOf(Q, i) \in {None, name}
           /\ ~isEligible(m_cfg, name) => TrayOf(Q, i) = None
           /\ SameTrays(P, Q, Ifindex \ {i})
<1>1. CASE isEligible(m_cfg, name)
  <2>1. Q \in start(P, i, name)
    BY <1>1 DEF startIfEligible
  <2> QED  BY <1>1, <2>1, StartTrayOf
<1>2. CASE ~isEligible(m_cfg, name)
  <2>1. Q = P
    BY <1>2 DEF startIfEligible
  <2> QED  BY <2>1 DEF SameTrays, TrayOf
<1> QED  BY <1>1, <1>2

\* Collecting a child ends at most one tray.
LEMMA ReapedTrayOf ==
    ASSUME NEW P, ProcessesInv(P), NEW p \in Pid
    PROVE  \/ SameTrays(P, Reaped(P, p), Ifindex)
           \/ \E i \in Ifindex :
                 /\ TrayOf(Reaped(P, p), i) = None
                 /\ SameTrays(P, Reaped(P, p), Ifindex \ {i})
<1> DEFINE Q == Reaped(P, p)
           i == P.ifindexByPid[p]
<1>1. /\ Q.children = [P.children EXCEPT ![p] = None]
      /\ Q.byIfindex = IF i = None THEN P.byIfindex
                       ELSE [P.byIfindex EXCEPT ![i] = None]
  BY DEF Reaped
<1>2. ASSUME NEW j \in Ifindex, j # i
      PROVE  TrayOf(Q, j) = TrayOf(P, j)
  <2>1. Q.byIfindex[j] = P.byIfindex[j]
    BY <1>1, <1>2 DEF ProcessesInv, Processes
  <2>2. CASE ~isRunning(P, j)
    BY <2>1, <2>2 DEF TrayOf, isRunning
  <2>3. CASE isRunning(P, j)
    <3>1. P.byIfindex[j] # p /\ P.byIfindex[j] \in Pid
      BY <1>2, <2>3 DEF ProcessesInv, Processes, MapsInverse, isRunning
    <3> QED  BY <1>1, <2>1, <2>3, <3>1
             DEF TrayOf, TrayIface, isRunning, ProcessesInv, Processes
  <2> QED  BY <2>2, <2>3
<1>3. CASE i = None
  BY <1>2, <1>3, NoneAssumption DEF SameTrays
<1>4. CASE i # None
  <2>1. i \in Ifindex
    BY <1>4 DEF ProcessesInv, Processes
  <2>2. TrayOf(Q, i) = None
    BY <1>1, <1>4, <2>1 DEF TrayOf, isRunning, ProcessesInv, Processes
  <2> QED  BY <1>2, <2>1, <2>2 DEF SameTrays
<1> QED  BY <1>3, <1>4

\* Neither a SIGTERM to every tray nor the steps of a child change what is
\* tracked or the name of a tray.
LEMMA AllSignalledTrayOf ==
    ASSUME NEW P, ProcessesInv(P)
    PROVE  SameTrays(P, AllSignalled(P), Ifindex)
<1>1. AllSignalled(P).byIfindex = P.byIfindex
  BY DEF AllSignalled, ProcessesInv, Processes
<1>2. \A j \in Ifindex :
        isRunning(P, j) => TrayIface(AllSignalled(P), j) = TrayIface(P, j)
  BY <1>1, AllSignalledTrays DEF NoNewTrays, isRunning
<1> QED  BY <1>1, <1>2 DEF SameTrays, TrayOf, isRunning

LEMMA ChildTrayOf ==
    ASSUME NEW P, ProcessesInv(P), NEW p \in Pid, P.children[p] \in Running,
           NEW Q \in {Unblocked(P, p), Exited(P, p)}
    PROVE  SameTrays(P, Q, Ifindex)
<1>1. Q.byIfindex = P.byIfindex
  BY DEF Unblocked, Exited, ProcessesInv, Processes
<1>2. \A j \in Ifindex :
        isRunning(P, j) => TrayIface(Q, j) = TrayIface(P, j)
  BY <1>1, ChildTrays DEF NoNewTrays, isRunning
<1> QED  BY <1>1, <1>2 DEF SameTrays, TrayOf, isRunning

-----------------------------------------------------------------------------
(* The receive queue as news.                                              *)

Reported == Supervision!Report

LEMMA ReportType ==
    ASSUME NEW message \in Message
    PROVE  ReportOf(message) \in Reported
BY DEF ReportOf, Message, Newlink, Dellink, Done, View, Link, Reported,
       Supervision!Report, Supervision!State, isOperationallyUp

LEMMA NewsType ==
    ASSUME queue \in Seq(Message)
    PROVE  /\ News \in Seq(Reported)
           /\ Len(News) = Len(queue)
           /\ \A k \in 1 .. Len(queue) : News[k] = ReportOf(queue[k])
<1>1. Len(queue) \in Nat
  BY LenProperties
<1>2. \A k \in 1 .. Len(queue) : ReportOf(queue[k]) \in Reported
  BY ElementOfSeq, ReportType
<1>3. News \in [1 .. Len(queue) -> Reported]
  BY <1>2 DEF News
<1>4. News \in Seq(Reported)
  BY <1>1, <1>3, SeqDef
<1>5. Len(News) = Len(queue)
  BY <1>1, <1>3, <1>4, LenProperties
<1> QED  BY <1>4, <1>5 DEF News

LEMMA NewsAppended ==
    ASSUME queue \in Seq(Message), NEW message \in Message,
           queue' = Append(queue, message)
    PROVE  News' = Append(News, ReportOf(message))
<1>1. queue' \in Seq(Message) /\ Len(queue') = Len(queue) + 1
  OBVIOUS
<1>2. \A k \in 1 .. Len(queue') :
        queue'[k] = IF k <= Len(queue) THEN queue[k] ELSE message
  OBVIOUS
<1>3. /\ News' \in Seq(Reported)
      /\ Len(News') = Len(queue')
      /\ \A k \in 1 .. Len(queue') : News'[k] = ReportOf(queue'[k])
  <2>1. News' = [k \in 1 .. Len(queue') |-> ReportOf(queue'[k])]
    BY DEF News, ReportOf, View
  <2>2. Len(queue') \in Nat
    BY <1>1, LenProperties
  <2>3. \A k \in 1 .. Len(queue') : ReportOf(queue'[k]) \in Reported
    BY <1>1, ElementOfSeq, ReportType
  <2>4. News' \in [1 .. Len(queue') -> Reported]
    BY <2>1, <2>3
  <2>5. News' \in Seq(Reported)
    BY <2>2, <2>4, SeqDef
  <2>6. Len(News') = Len(queue')
    BY <2>2, <2>4, <2>5, LenProperties
  <2> QED  BY <2>1, <2>5, <2>6
<1>4. News \in Seq(Reported) /\ ReportOf(message) \in Reported
  BY NewsType, ReportType
<1> DEFINE s == Append(News, ReportOf(message))
<1>5. s \in Seq(Reported) /\ Len(s) = Len(News) + 1
  BY <1>4
<1>6. \A k \in 1 .. Len(s) :
        s[k] = IF k <= Len(News) THEN News[k] ELSE ReportOf(message)
  BY <1>4
<1>7. Len(News') = Len(s)
  BY <1>1, <1>3, <1>5, NewsType
<1>8. \A k \in 1 .. Len(News') : News'[k] = s[k]
  BY <1>1, <1>2, <1>3, <1>5, <1>6, <1>7, NewsType, LenProperties
<1> QED  BY <1>3, <1>5, <1>7, <1>8, SeqEqual

LEMMA NewsTaken ==
    ASSUME queue \in Seq(Message), queue # << >>, queue' = Tail(queue)
    PROVE  /\ News # << >>
           /\ Head(News) = ReportOf(Head(queue))
           /\ News' = Tail(News)
<1>1. /\ queue' \in Seq(Message)
      /\ Len(queue') = Len(queue) - 1
      /\ \A k \in 1 .. Len(queue') : queue'[k] = queue[k + 1]
  BY HeadTailProperties
<1>2. Len(queue) \in Nat \ {0}
  BY EmptySeq
<1>3. News \in Seq(Reported) /\ Len(News) # 0 /\ News # << >>
  BY <1>2, NewsType, EmptySeq
<1>4. Head(News) = ReportOf(Head(queue))
  BY <1>2, <1>3, NewsType
<1>5. /\ News' \in Seq(Reported)
      /\ Len(News') = Len(queue')
      /\ \A k \in 1 .. Len(queue') : News'[k] = ReportOf(queue'[k])
  <2>1. News' = [k \in 1 .. Len(queue') |-> ReportOf(queue'[k])]
    BY DEF News, ReportOf, View
  <2>2. Len(queue') \in Nat
    BY <1>1, LenProperties
  <2>3. \A k \in 1 .. Len(queue') : ReportOf(queue'[k]) \in Reported
    BY <1>1, ElementOfSeq, ReportType
  <2>4. News' \in [1 .. Len(queue') -> Reported]
    BY <2>1, <2>3
  <2>5. News' \in Seq(Reported)
    BY <2>2, <2>4, SeqDef
  <2>6. Len(News') = Len(queue')
    BY <2>2, <2>4, <2>5, LenProperties
  <2> QED  BY <2>1, <2>5, <2>6
<1>6. /\ Tail(News) \in Seq(Reported)
      /\ Len(Tail(News)) = Len(News) - 1
      /\ \A k \in 1 .. Len(Tail(News)) : Tail(News)[k] = News[k + 1]
  BY <1>3, HeadTailProperties
<1>7. Len(News') = Len(Tail(News))
  BY <1>1, <1>5, <1>6, NewsType
<1>8. \A k \in 1 .. Len(News') : News'[k] = Tail(News)[k]
  BY <1>1, <1>2, <1>5, <1>6, <1>7, NewsType
<1> QED  BY <1>3, <1>4, <1>5, <1>6, <1>7, <1>8, SeqEqual

-----------------------------------------------------------------------------
(* The steps.                                                              *)

LEMMA ViewType == ASSUME NEW link \in Link \cup {None}
                  PROVE  View(link) \in Supervision!State
BY DEF View, Link, Supervision!State, isOperationallyUp

LEMMA TraysKept ==
    ASSUME SameTrays(m_processes, m_processes', Ifindex)
    PROVE  Trays' = Trays
<1>1. Trays' = [i \in Ifindex |-> TrayOf(m_processes', i)]
  BY DEF Trays, TrayOf, isRunning, TrayIface
<1> QED  BY <1>1 DEF Trays, SameTrays

LEMMA TraysChanged ==
    ASSUME NEW i \in Ifindex,
           SameTrays(m_processes, m_processes', Ifindex \ {i})
    PROVE  Trays' = [Trays EXCEPT ![i] = TrayOf(m_processes', i)]
<1>1. Trays' = [j \in Ifindex |-> TrayOf(m_processes', j)]
  BY DEF Trays, TrayOf, isRunning, TrayIface
<1> QED  BY <1>1 DEF Trays, SameTrays

LEMMA NewsKept == ASSUME UNCHANGED queue PROVE News' = News
BY DEF News, ReportOf, View

LEMMA SeenKept == ASSUME UNCHANGED links PROVE Seen' = Seen
BY DEF Seen, View

\* A step that moves only what the abstract specification does not see.
LEMMA Stutter ==
    ASSUME UNCHANGED << links, queue, m_ifaces, m_processes >>
    PROVE  UNCHANGED Supervision!vars
BY NewsKept, SeenKept DEF Supervision!vars, Trays, TrayOf, isRunning, TrayIface

\* A link event, whether its notification is sent, dropped or not yet
\* subscribed to.
LEMMA LinkEventMoves ==
    ASSUME NetlinkTypeOK, NEW i \in Ifindex, NEW link \in Link \cup {None},
           NEW message \in Message, message.ifindex = i, message.link = link,
           LinkEvent(i, link, message), UNCHANGED daemonVars
    PROVE  Supervision!Move(i)
<1> DEFINE state == View(link)
<1>1. state \in Supervision!State
  BY ViewType
<1>2. Seen' = [Seen EXCEPT ![i] = state]
  <2>1. Seen' = [j \in Ifindex |-> View(links'[j])]
    BY DEF Seen, View
  <2>2. links' = [links EXCEPT ![i] = link]
    BY DEF LinkEvent
  <2> QED  BY <2>1, <2>2 DEF Seen, NetlinkTypeOK, LinkTables
<1>3. News' \in {News, Append(News, [about |-> i, state |-> state])}
  <2>1. CASE UNCHANGED queue
    BY <2>1, NewsKept
  <2>2. CASE queue' = Append(queue, message)
    <3>1. News' = Append(News, ReportOf(message))
      BY <2>2, NewsAppended DEF NetlinkTypeOK
    <3> QED  BY <3>1 DEF ReportOf
  <2>3. UNCHANGED queue \/ queue' = Append(queue, message)
    BY DEF LinkEvent, Broadcast, NotSubscribed, Enqueue, Drop
  <2> QED  BY <2>1, <2>2, <2>3
<1>4. UNCHANGED << m_ifaces, Trays >>
  BY DEF daemonVars, Trays, TrayOf, isRunning, TrayIface
<1> QED  BY <1>1, <1>2, <1>3, <1>4 DEF Supervision!Move

LEMMA KernelMoves ==
    ASSUME NetlinkTypeOK, KernelStep, UNCHANGED daemonVars
    PROVE  \E i \in Ifindex : Supervision!Move(i)
<1>1. PICK i \in Ifindex :
        LinkAdded(i) \/ LinkChanged(i) \/ LinkRenamed(i) \/ LinkDeleted(i)
  BY DEF KernelStep
<1>2. ASSUME NEW link \in Link, LinkEvent(i, link, Newlink(i, link))
      PROVE  Supervision!Move(i)
  <2>1. /\ Newlink(i, link) \in Message
        /\ Newlink(i, link).ifindex = i
        /\ Newlink(i, link).link = link
    BY DEF Newlink, Message
  <2> QED  BY <1>2, <2>1, LinkEventMoves
<1>3. CASE LinkAdded(i)
  BY <1>2, <1>3 DEF LinkAdded
<1>4. CASE LinkChanged(i)
  <2>1. PICK flags \in FlagSets :
          LET link == [links[i] EXCEPT !.flags = flags]
          IN  LinkEvent(i, link, Newlink(i, link))
    BY <1>4 DEF LinkChanged
  <2>2. [links[i] EXCEPT !.flags = flags] \in Link
    BY <1>4 DEF LinkChanged, NetlinkTypeOK, LinkTables, Link
  <2> QED  BY <1>2, <2>1, <2>2
<1>5. CASE LinkRenamed(i)
  <2>1. PICK name \in Name :
          LET link == [links[i] EXCEPT !.name = name]
          IN  LinkEvent(i, link, Newlink(i, link))
    BY <1>5 DEF LinkRenamed
  <2>2. [links[i] EXCEPT !.name = name] \in Link
    BY <1>5 DEF LinkRenamed, NetlinkTypeOK, LinkTables, Link
  <2> QED  BY <1>2, <2>1, <2>2
<1>6. CASE LinkDeleted(i)
  <2>1. /\ Dellink(i) \in Message
        /\ Dellink(i).ifindex = i
        /\ Dellink(i).link = None
    BY DEF Dellink, Message
  <2> QED  BY <1>6, <2>1, LinkEventMoves DEF LinkDeleted
<1> QED  BY <1>1, <1>3, <1>4, <1>5, <1>6

\* The dump reports links as they are; its end is a report about none.
LEMMA DumpReports ==
    ASSUME NetlinkTypeOK, DumpStep, UNCHANGED daemonVars
    PROVE  \/ \E i \in Ifindex : Supervision!Move(i)
           \/ Supervision!Remark
           \/ UNCHANGED Supervision!vars
<1>0. UNCHANGED << m_ifaces, m_processes, Trays >>
  BY DEF daemonVars, Trays, TrayOf, isRunning, TrayIface
<1>1. CASE DumpDone
  <2>1. Done \in Message /\ ReportOf(Done) = [about |-> None, state |-> None]
    BY DEF Done, Message, ReportOf, View
  <2>2. News' = Append(News, ReportOf(Done))
    BY <1>1, <2>1, NewsAppended DEF DumpDone, NetlinkTypeOK
  <2>3. Seen' = Seen
    BY <1>1, SeenKept DEF DumpDone
  <2> QED  BY <1>0, <2>1, <2>2, <2>3 DEF Supervision!Remark
<1>2. CASE \E i \in Ifindex : DumpLink(i)
  <2>1. PICK i \in Ifindex : DumpLink(i)
    BY <1>2
  <2>2. CASE links[i] = None
    BY <1>0, <2>1, <2>2, Stutter DEF DumpLink
  <2>3. CASE links[i] # None
    <3> DEFINE message == Newlink(i, links[i])
               state == View(links[i])
    <3>1. links[i] \in Link
      BY <2>3 DEF NetlinkTypeOK, LinkTables
    <3>2. /\ message \in Message
          /\ ReportOf(message) = [about |-> i, state |-> state]
      BY <3>1 DEF Newlink, Message, ReportOf
    <3>3. queue' = Append(queue, message) /\ UNCHANGED links
      BY <2>1, <2>3 DEF DumpLink, Enqueue
    <3>4. News' = Append(News, [about |-> i, state |-> state])
      BY <3>2, <3>3, NewsAppended DEF NetlinkTypeOK
    <3>5. Seen' = [Seen EXCEPT ![i] = state]
      BY <3>3, SeenKept DEF Seen
    <3>6. state \in Supervision!State
      BY <3>1, ViewType
    <3>7. Supervision!Move(i)
      BY <1>0, <3>4, <3>5, <3>6 DEF Supervision!Move
    <3> QED  BY <3>7
  <2> QED  BY <2>2, <2>3
<1> QED  BY <1>1, <1>2 DEF DumpStep

\* onChange(): the tray of i is what TraysAfter allows, the others stay.
LEMMA OnChangeLearns ==
    ASSUME m_ifaces \in [Ifindex -> IfaceState \cup {None}],
           ProcessesInv(m_processes), TrayMatchesKnownLink,
           NEW i \in Ifindex, NEW name \in Name, NEW isUp \in BOOLEAN,
           onChange(i, name, isUp)
    PROVE  Supervision!Learn(i, [name |-> name, wasUp |-> isUp])
<1> DEFINE P == m_processes
           Q == m_processes'
           state == [name |-> name, wasUp |-> isUp]
<1>1. /\ m_ifaces' = [m_ifaces EXCEPT ![i] = state]
      /\ Q \in ProcessesAfterChange(i, name, isUp)
  BY DEF onChange
<1>2. state \in IfaceState /\ state # None
  BY NoneIsNoIfaceState DEF IfaceState
<1>3. isRunning(P, i) => WasUp(i) /\ isEligible(m_cfg, m_ifaces[i].name)
  BY DEF TrayMatchesKnownLink, Tracked
<1>4. Supervision!Wanted(state) <=> isUp /\ isEligible(m_cfg, name)
  BY <1>2 DEF Supervision!Wanted
<1> DEFINE Fits(R) == /\ SameTrays(P, R, Ifindex \ {i})
                      /\ TrayOf(R, i) \in Supervision!TraysAfter(i, state)
<1>5. ASSUME ~Supervision!Wanted(state) \/ state # m_ifaces[i]
      PROVE  /\ Supervision!TraysAfter(i, state) \subseteq {None, name}
             /\ None \in Supervision!TraysAfter(i, state)
             /\ Supervision!Wanted(state) =>
                    name \in Supervision!TraysAfter(i, state)
  BY <1>5 DEF Supervision!TraysAfter
<1>6. ASSUME NEW R, ProcessesInv(R), SameTrays(P, R, Ifindex \ {i}),
             ~isRunning(R, i), isUp, state # m_ifaces[i],
             Q \in startIfEligible(R, i, name)
      PROVE  Fits(Q)
  <2>1. /\ TrayOf(Q, i) \in {None, name}
        /\ ~isEligible(m_cfg, name) => TrayOf(Q, i) = None
        /\ SameTrays(R, Q, Ifindex \ {i})
    BY <1>6, StartIfEligibleTrayOf
  <2>2. SameTrays(P, Q, Ifindex \ {i})
    BY <1>6, <2>1 DEF SameTrays
  <2>3. TrayOf(Q, i) \in Supervision!TraysAfter(i, state)
    BY <1>4, <1>5, <1>6, <2>1
  <2> QED  BY <2>2, <2>3
<1>7. Fits(Q)
  <2>1. CASE IsRenamed(i, name) /\ WasUp(i)
    <3>1. state # m_ifaces[i]
      BY <2>1 DEF IsRenamed
    <3>2. /\ ProcessesInv(stop(P, i))
          /\ ~isRunning(stop(P, i), i)
          /\ TrayOf(stop(P, i), i) = None
          /\ SameTrays(P, stop(P, i), Ifindex \ {i})
      BY StopInv, StopTrays, StopTrayOf
    <3>3. CASE isUp
      <4>1. Q \in startIfEligible(stop(P, i), i, name)
        BY <1>1, <2>1, <3>3 DEF ProcessesAfterChange
      <4> QED  BY <1>6, <3>1, <3>2, <3>3, <4>1
    <3>4. CASE ~isUp
      <4>1. Q = stop(P, i)
        BY <1>1, <2>1, <3>4 DEF ProcessesAfterChange
      <4> QED  BY <1>5, <3>1, <3>2, <4>1
    <3> QED  BY <3>3, <3>4
  <2>2. CASE ~(IsRenamed(i, name) /\ WasUp(i)) /\ isUp = WasUp(i)
    <3>1. Q = P
      BY <1>1, <2>2 DEF ProcessesAfterChange
    <3>2. SameTrays(P, Q, Ifindex \ {i})
      BY <3>1 DEF SameTrays
    <3>3. CASE isUp
      <4>1. m_ifaces[i] = state
        BY <2>2, <3>3 DEF IsRenamed, WasUp, IfaceState
      <4>2. ~isEligible(m_cfg, name) => TrayOf(P, i) = None
        BY <1>3, <4>1 DEF TrayOf
      <4>3. Trays[i] = TrayOf(P, i)
        BY DEF Trays
      <4> QED  BY <1>4, <3>1, <3>2, <3>3, <4>1, <4>2, <4>3
               DEF Supervision!TraysAfter
    <3>4. CASE ~isUp
      <4>1. TrayOf(P, i) = None
        BY <1>3, <2>2, <3>4 DEF TrayOf
      <4> QED  BY <1>4, <3>1, <3>2, <3>4, <4>1 DEF Supervision!TraysAfter
    <3> QED  BY <3>3, <3>4
  <2>3. CASE ~(IsRenamed(i, name) /\ WasUp(i)) /\ isUp # WasUp(i)
    <3>1. CASE isUp
      <4>1. ~WasUp(i)
        BY <2>3, <3>1 DEF WasUp, IfaceState
      <4>2. state # m_ifaces[i]
        BY <1>2, <3>1, <4>1 DEF WasUp
      <4>3. Q \in startIfEligible(P, i, name) /\ ~isRunning(P, i)
        BY <1>1, <1>3, <2>3, <3>1, <4>1 DEF ProcessesAfterChange
      <4>4. SameTrays(P, P, Ifindex \ {i})
        BY DEF SameTrays
      <4> QED  BY <1>6, <3>1, <4>2, <4>3, <4>4
    <3>2. CASE ~isUp
      <4>1. Q = stop(P, i)
        BY <1>1, <2>3, <3>2 DEF ProcessesAfterChange
      <4> QED  BY <1>4, <3>2, <4>1, StopTrayOf DEF Supervision!TraysAfter
    <3> QED  BY <3>1, <3>2
  <2> QED  BY <2>1, <2>2, <2>3
<1> QED  BY <1>1, <1>7, TraysChanged DEF Supervision!Learn

LEMMA OnRemovedLearns ==
    ASSUME ProcessesInv(m_processes), TrayMatchesKnownLink,
           NEW i \in Ifindex, onRemoved(i)
    PROVE  Supervision!Learn(i, None)
<1>1. /\ TrayOf(m_processes', i) = None
      /\ SameTrays(m_processes, m_processes', Ifindex \ {i})
  <2>1. CASE WasUp(i)
    BY <2>1, StopTrayOf DEF onRemoved
  <2>2. CASE ~WasUp(i)
    <3>1. m_processes' = m_processes /\ ~isRunning(m_processes, i)
      BY <2>2 DEF onRemoved, TrayMatchesKnownLink, Tracked
    <3> QED  BY <3>1 DEF TrayOf, SameTrays
  <2> QED  BY <2>1, <2>2
<1> QED  BY <1>1, TraysChanged
         DEF onRemoved, Supervision!Learn, Supervision!TraysAfter,
             Supervision!Wanted

\* One turn of processPendingMessages hears one report.
LEMMA MessageHeard ==
    ASSUME Inv, ProcessMessage
    PROVE  Supervision!Hear
<1> DEFINE message == Head(queue)
<1>1. queue \in Seq(Message) /\ queue # << >> /\ queue' = Tail(queue)
  BY DEF Inv, TypeOK, NetlinkTypeOK, ProcessMessage, Recv
<1>2. /\ message \in Message
      /\ handleMessage(message)
      /\ UNCHANGED links
  BY <1>1 DEF ProcessMessage, Recv
<1>3. /\ News # << >>
      /\ Head(News) = ReportOf(message)
      /\ News' = Tail(News)
  BY <1>1, NewsTaken
<1>4. UNCHANGED Seen
  BY <1>2, SeenKept
<1>5. /\ m_ifaces \in [Ifindex -> IfaceState \cup {None}]
      /\ ProcessesInv(m_processes)
      /\ TrayMatchesKnownLink
  BY DEF Inv, TypeOK
<1>6. CASE message.type = "DONE"
  <2>1. message = Done /\ UNCHANGED << m_ifaces, m_processes >>
    BY <1>2, <1>6 DEF handleMessage, Message
  <2>2. Head(News).about = None
    BY <1>3, <2>1 DEF ReportOf, Done
  <2>3. UNCHANGED Trays
    BY <2>1 DEF Trays, TrayOf, isRunning, TrayIface
  <2> QED  BY <1>3, <1>4, <2>1, <2>2, <2>3 DEF Supervision!Hear
<1>7. CASE message.type = "DELLINK"
  <2>1. /\ message.ifindex \in Ifindex
        /\ message.link = None
        /\ onRemoved(message.ifindex)
    BY <1>2, <1>7 DEF handleMessage, Message, Done
  <2>2. /\ Head(News).about = message.ifindex
        /\ Head(News).about # None
        /\ Head(News).state = None
    BY <1>3, <2>1, NoneAssumption DEF ReportOf, View
  <2>3. Supervision!Learn(message.ifindex, None)
    BY <1>5, <2>1, OnRemovedLearns
  <2> QED  BY <1>3, <1>4, <2>2, <2>3 DEF Supervision!Hear
<1>8. CASE message.type = "NEWLINK"
  <2> DEFINE i == message.ifindex
             isUp == isOperationallyUp(message.link.flags)
             state == [name |-> message.link.name, wasUp |-> isUp]
  <2>1. /\ i \in Ifindex
        /\ message.link \in Link
        /\ message.link.name \in Name
        /\ onChange(i, message.link.name, isUp)
    BY <1>2, <1>8 DEF handleMessage, Message, Done, Link
  <2>2. isUp \in BOOLEAN
    BY DEF isOperationallyUp
  <2>3. /\ Head(News).about = i
        /\ Head(News).about # None
        /\ Head(News).state = state
    BY <1>3, <2>1, NoneAssumption, NoneIsNoLink DEF ReportOf, View
  <2>4. Supervision!Learn(i, state)
    BY <1>5, <2>1, <2>2, OnChangeLearns
  <2> QED  BY <1>3, <1>4, <2>3, <2>4 DEF Supervision!Hear
<1> QED  BY <1>2, <1>6, <1>7, <1>8 DEF handleMessage

\* A step that moves the process manager alone.
LEMMA ProcessesMove ==
    ASSUME UNCHANGED << netlinkVars, m_ifaces >>,
           \/ SameTrays(m_processes, m_processes', Ifindex)
           \/ \E i \in Ifindex :
                 /\ TrayOf(m_processes', i) = None
                 /\ SameTrays(m_processes, m_processes', Ifindex \ {i})
    PROVE  \/ \E i \in Ifindex : Supervision!TrayEnds(i)
           \/ UNCHANGED Supervision!vars
<1>1. UNCHANGED << Seen, News, m_ifaces >>
  BY SeenKept, NewsKept DEF netlinkVars
<1>2. CASE SameTrays(m_processes, m_processes', Ifindex)
  BY <1>1, <1>2, TraysKept DEF Supervision!vars
<1>3. ASSUME NEW i \in Ifindex, TrayOf(m_processes', i) = None,
             SameTrays(m_processes, m_processes', Ifindex \ {i})
      PROVE  Supervision!TrayEnds(i)
  BY <1>1, <1>3, TraysChanged DEF Supervision!TrayEnds
<1> QED  BY <1>2, <1>3

LEMMA InitRefines == Init => Supervision!Init
<1> SUFFICES ASSUME Init PROVE Supervision!Init
  OBVIOUS
<1>1. Seen \in [Ifindex -> Supervision!State]
  <2>1. links \in [Ifindex -> Link \cup {None}]
    BY NetlinkAssumption DEF Init, NetlinkInit, LinkTables
  <2> QED  BY <2>1, ViewType DEF Seen
<1>2. News = << >>
  <2>1. queue \in Seq(Message) /\ Len(queue) = 0
    BY EmptySeq DEF Init, NetlinkInit
  <2>2. News \in Seq(Reported) /\ Len(News) = 0
    BY <2>1, NewsType
  <2> QED  BY <2>2, EmptySeq
<1>3. Trays = [i \in Ifindex |-> None]
  BY DEF Init, NoProcesses, Trays, TrayOf, isRunning
<1> QED  BY <1>1, <1>2, <1>3 DEF Init, Supervision!Init

\* Every step of the watcher, the kernel and the trays is a step of the
\* abstract specification or none at all.
LEMMA StepRefines ==
    Inv /\ [Next]_vars => [Supervision!Next]_(Supervision!vars)
<1> SUFFICES ASSUME Inv, [Next]_vars
             PROVE  Supervision!Next \/ UNCHANGED Supervision!vars
  OBVIOUS
<1>0. NetlinkTypeOK /\ ProcessesInv(m_processes)
  BY DEF Inv, TypeOK
<1>1. CASE OpenSocket \/ RequestDump \/ openSignalFd
  <2>1. UNCHANGED << links, queue, m_ifaces, m_processes >>
    BY <1>1 DEF OpenSocket, RequestDump, openSignalFd, StartupUnchanged, Bind,
                requestDump, netlinkVars
  <2> QED  BY <2>1, Stutter
<1>2. CASE Poll \/ LeaveLoop \/ MessagesDone
  <2>1. UNCHANGED << links, queue, m_ifaces, m_processes >>
    BY <1>2 DEF Poll, LeaveLoop, MessagesDone, RecvFails, netlinkVars
  <2> QED  BY <2>1, Stutter
<1>3. CASE ReadSignal \/ SignalsDone \/ ReapDone \/ Exit \/ Terminate
  <2>1. UNCHANGED << links, queue, m_ifaces, m_processes >>
    BY <1>3 DEF ReadSignal, SignalsDone, ReapDone, Exit, Terminate, netlinkVars
  <2> QED  BY <2>1, Stutter
<1>4. CASE UNCHANGED vars
  <2>1. UNCHANGED << links, queue, m_ifaces, m_processes >>
    BY <1>4 DEF vars, netlinkVars, daemonVars
  <2> QED  BY <2>1, Stutter
<1>5. CASE ProcessMessage
  BY <1>5, MessageHeard DEF Supervision!Next
<1>6. CASE reapExited \/ WaitAll
  <2>1. PICK p \in Pid : m_processes' = Reaped(m_processes, p)
    BY <1>6 DEF reapExited, WaitAll
  <2>2. UNCHANGED << netlinkVars, m_ifaces >>
    BY <1>6 DEF reapExited, WaitAll
  <2> QED  BY <1>0, <2>1, <2>2, ReapedTrayOf, ProcessesMove
           DEF Supervision!Next
<1>7. CASE SignalAll
  BY <1>0, <1>7, AllSignalledTrayOf, ProcessesMove
  DEF SignalAll, Supervision!Next
<1>8. CASE LinkStep
  <2>1. CASE KernelStep
    BY <1>0, <1>8, <2>1, KernelMoves DEF LinkStep, Supervision!Next
  <2>2. CASE DumpStep
    BY <1>0, <1>8, <2>2, DumpReports DEF LinkStep, Supervision!Next
  <2> QED  BY <1>8, <2>1, <2>2 DEF LinkStep
<1>9. CASE ChildStep
  <2>1. PICK p \in Pid : ChildUnblocks(p) \/ ChildExits(p)
    BY <1>9 DEF ChildStep
  <2>2. /\ m_processes.children[p] \in Running
        /\ m_processes' \in {Unblocked(m_processes, p), Exited(m_processes, p)}
        /\ UNCHANGED << netlinkVars, m_ifaces >>
    BY <2>1 DEF ChildUnblocks, ChildExits, IsRunningChild
  <2>3. SameTrays(m_processes, m_processes', Ifindex)
    BY <1>0, <2>2, ChildTrayOf
  <2> QED  BY <2>2, <2>3, ProcessesMove DEF Supervision!Next
<1> QED
  BY <1>1, <1>2, <1>3, <1>4, <1>5, <1>6, <1>7, <1>8, <1>9
  DEF Next, DaemonStep, Finished

\* The watcher implements the abstract supervision of trays: netlink socket,
\* maps, forks, signals and waits show nothing but links that move, reports
\* that are heard in order, and trays that come and go with what is learned.
THEOREM ImplementsSupervision == Spec => SupervisesTrays
<1> QED  BY InitRefines, StepRefines, Invariance, PTL
         DEF Spec, SupervisesTrays, Supervision!Spec

-----------------------------------------------------------------------------
(* As long as no tray ends by itself and every fork succeeds.              *)

\* Whatever is tracked runs and has not been told to end.
Unsignalled(P) ==
    \A p \in TrackedPids(P) :
        P.children[p] \in Running /\ ~P.children[p].sigterm

ForksSucceed == "fork" \notin Faults /\ "exec" \notin Faults

LEMMA RunningHasTray ==
    ASSUME NEW P, ProcessesInv(P), NEW i \in Ifindex
    PROVE  isRunning(P, i) <=> TrayOf(P, i) # None
<1>1. CASE ~isRunning(P, i)
  BY <1>1 DEF TrayOf
<1>2. CASE isRunning(P, i)
  <2> DEFINE p == P.byIfindex[i]
  <2>1. p \in Pid /\ P.ifindexByPid[p] = i
    BY <1>2 DEF isRunning, ProcessesInv, Processes, MapsInverse
  <2>2. p \in TrackedPids(P)
    BY <2>1, NoneAssumption DEF TrackedPids
  <2>3. P.children[p] \in Child
    BY <2>2 DEF ProcessesInv, TrackedAreChildren
  <2>4. P.children[p].iface \in Name
    BY <2>3 DEF Child, Running, Zombie
  <2> QED  BY <1>2, <2>4, NoneAssumption DEF TrayOf, TrayIface
<1> QED  BY <1>1, <1>2

LEMMA StopUnsignalled ==
    ASSUME NEW P, ProcessesInv(P), Unsignalled(P), NEW i \in Ifindex
    PROVE  /\ Unsignalled(stop(P, i))
           /\ FreePids(stop(P, i)) = FreePids(P)
<1>1. CASE ~isRunning(P, i)
  BY <1>1 DEF stop
<1>2. CASE isRunning(P, i)
  <2> DEFINE p == P.byIfindex[i]
             Q == stop(P, i)
  <2>1. p \in Pid /\ P.ifindexByPid[p] = i
    BY <1>2 DEF ProcessesInv, Processes, MapsInverse, isRunning
  <2>2. /\ Q.ifindexByPid = [P.ifindexByPid EXCEPT ![p] = None]
        /\ Q.children = [P.children EXCEPT ![p] = Signalled(P.children[p])]
    BY <1>2, <2>1 DEF stop, ProcessesInv, Processes
  <2>3. \A q \in Pid : q # p =>
            /\ Q.ifindexByPid[q] = P.ifindexByPid[q]
            /\ Q.children[q] = P.children[q]
    BY <2>2 DEF ProcessesInv, Processes
  <2>4. Q.ifindexByPid[p] = None
    BY <2>1, <2>2 DEF ProcessesInv, Processes
  <2>5. Unsignalled(Q)
    BY <2>3, <2>4 DEF Unsignalled, TrackedPids
  <2>6. P.children[p] \in Running
    BY <2>1, NoneAssumption DEF Unsignalled, TrackedPids
  <2>7. P.children[p] # None /\ Q.children[p] # None
    <3>1. Q.children[p] = [P.children[p] EXCEPT !.sigterm = TRUE]
      BY <2>1, <2>2, <2>6 DEF Signalled, ProcessesInv, Processes
    <3>2. [P.children[p] EXCEPT !.sigterm = TRUE] \in Running
      BY <2>6 DEF Running
    <3> QED  BY <2>6, <3>1, <3>2, NoneIsNoChild DEF Child
  <2> QED  BY <2>3, <2>5, <2>7 DEF FreePids
<1> QED  BY <1>1, <1>2

LEMMA StartUnsignalled ==
    ASSUME ForksSucceed, NEW P, ProcessesInv(P), Unsignalled(P),
           FreePids(P) # {}, NEW i \in Ifindex, NEW name \in Name,
           ~isRunning(P, i), NEW Q \in startIfEligible(P, i, name)
    PROVE  /\ Unsignalled(Q)
           /\ isEligible(m_cfg, name) => isRunning(Q, i)
<1>1. CASE ~isEligible(m_cfg, name)
  BY <1>1 DEF startIfEligible
<1>2. CASE isEligible(m_cfg, name)
  <2>1. PICK p \in FreePids(P) : Q = Forked(P, i, name, p)
    BY <1>2 DEF startIfEligible, start, ForkFails, ForksSucceed
  <2> DEFINE child == [st |-> "running", iface |-> name,
                       sigterm |-> FALSE, blocked |-> TRUE]
  <2>2. /\ Q.byIfindex = [P.byIfindex EXCEPT ![i] = p]
        /\ Q.ifindexByPid = [P.ifindexByPid EXCEPT ![p] = i]
        /\ Q.children = [P.children EXCEPT ![p] = child]
    BY <2>1 DEF Forked
  <2>3. p \in Pid
    BY DEF FreePids
  <2>4. isRunning(Q, i)
    BY <2>2, <2>3, NoneAssumption DEF isRunning, ProcessesInv, Processes
  <2>5. child \in Running /\ ~child.sigterm
    BY DEF Running
  <2>6. Unsignalled(Q)
    BY <2>2, <2>3, <2>5 DEF Unsignalled, TrackedPids, ProcessesInv, Processes
  <2> QED  BY <2>4, <2>6
<1> QED  BY <1>1, <1>2

KnownUp ==
    \A i \in Ifindex :
        WasUp(i) /\ isEligible(m_cfg, m_ifaces[i].name) =>
            TrayOf(m_processes, i) # None

\* Until stopAll signals them, all trays that should run do.
AliveInv ==
    pc \notin {"waitAll", "exited"} => Unsignalled(m_processes) /\ KnownUp

LEMMA AliveInit == Init => AliveInv
<1> SUFFICES ASSUME Init PROVE AliveInv
  OBVIOUS
<1>1. Unsignalled(m_processes)
  BY DEF Init, NoProcesses, Unsignalled, TrackedPids
<1>2. KnownUp
  BY DEF Init, KnownUp, WasUp
<1> QED  BY <1>1, <1>2 DEF AliveInv

LEMMA OnChangeAlive ==
    ASSUME ForksSucceed,
           m_ifaces \in [Ifindex -> IfaceState \cup {None}],
           ProcessesInv(m_processes), TrayMatchesKnownLink,
           Unsignalled(m_processes), KnownUp, FreePids(m_processes) # {},
           NEW i \in Ifindex, NEW name \in Name, NEW isUp \in BOOLEAN,
           onChange(i, name, isUp)
    PROVE  Unsignalled(m_processes') /\ KnownUp'
<1> DEFINE P == m_processes
           Q == m_processes'
           state == [name |-> name, wasUp |-> isUp]
<1>1. /\ m_ifaces' = [m_ifaces EXCEPT ![i] = state]
      /\ Q \in ProcessesAfterChange(i, name, isUp)
  BY DEF onChange
<1>2. state \in IfaceState
  BY DEF IfaceState
<1>3. ProcessesInv(Q)
  BY OnChangeInv
<1>4. \A j \in Ifindex \ {i} : TrayOf(Q, j) = TrayOf(P, j)
  <2>0. Supervision!Learn(i, state)
    BY OnChangeLearns
  <2>1. PICK x \in Supervision!TraysAfter(i, state) :
          Trays' = [Trays EXCEPT ![i] = x]
    BY <2>0 DEF Supervision!Learn
  <2>2. Trays' = [j \in Ifindex |-> TrayOf(Q, j)]
    BY DEF Trays, TrayOf, isRunning, TrayIface
  <2> QED  BY <2>1, <2>2 DEF Trays
<1> DEFINE Fine == /\ Unsignalled(Q)
                   /\ isUp /\ isEligible(m_cfg, name) => TrayOf(Q, i) # None
<1>5. ASSUME NEW R, ProcessesInv(R), Unsignalled(R), FreePids(R) # {},
             ~isRunning(R, i), Q \in startIfEligible(R, i, name)
      PROVE  Fine
  BY <1>3, <1>5, StartUnsignalled, RunningHasTray
<1>6. /\ ProcessesInv(stop(P, i))
      /\ Unsignalled(stop(P, i))
      /\ FreePids(stop(P, i)) # {}
      /\ ~isRunning(stop(P, i), i)
  BY StopInv, StopTrays, StopUnsignalled
<1>7. Fine
  <2>1. CASE IsRenamed(i, name) /\ WasUp(i)
    <3>1. CASE isUp
      BY <1>1, <1>5, <1>6, <2>1, <3>1 DEF ProcessesAfterChange
    <3>2. CASE ~isUp
      BY <1>1, <1>6, <2>1, <3>2 DEF ProcessesAfterChange
    <3> QED  BY <3>1, <3>2
  <2>2. CASE ~(IsRenamed(i, name) /\ WasUp(i)) /\ isUp = WasUp(i)
    <3>1. Q = P
      BY <1>1, <2>2 DEF ProcessesAfterChange
    <3>2. isUp => WasUp(i) /\ m_ifaces[i].name = name
      BY <2>2 DEF IsRenamed, WasUp
    <3> QED  BY <3>1, <3>2 DEF KnownUp
  <2>3. CASE ~(IsRenamed(i, name) /\ WasUp(i)) /\ isUp # WasUp(i)
    <3>1. CASE isUp
      <4>1. ~WasUp(i)
        BY <2>3, <3>1 DEF WasUp, IfaceState
      <4>2. Q \in startIfEligible(P, i, name) /\ ~isRunning(P, i)
        BY <1>1, <2>3, <3>1, <4>1
        DEF ProcessesAfterChange, TrayMatchesKnownLink, Tracked
      <4> QED  BY <1>5, <4>2
    <3>2. CASE ~isUp
      BY <1>1, <1>6, <2>3, <3>2 DEF ProcessesAfterChange
    <3> QED  BY <3>1, <3>2
  <2> QED  BY <2>1, <2>2, <2>3
<1>8. KnownUp'
  <2> SUFFICES ASSUME NEW j \in Ifindex, WasUp(j)',
                      isEligible(m_cfg, m_ifaces'[j].name)
               PROVE  TrayOf(Q, j) # None
    BY DEF KnownUp, TrayOf, isRunning, TrayIface
  <2>1. CASE j = i
    <3>1. m_ifaces'[i] = state
      BY <1>1
    <3>2. isUp /\ isEligible(m_cfg, name)
      BY <2>1, <3>1 DEF WasUp
    <3> QED  BY <1>7, <2>1, <3>2
  <2>2. CASE j # i
    <3>1. m_ifaces'[j] = m_ifaces[j]
      BY <1>1, <2>2
    <3>2. WasUp(j) /\ isEligible(m_cfg, m_ifaces[j].name)
      BY <3>1 DEF WasUp
    <3> QED  BY <1>4, <2>2, <3>2 DEF KnownUp
  <2> QED  BY <2>1, <2>2
<1> QED  BY <1>7, <1>8

LEMMA OnRemovedAlive ==
    ASSUME m_ifaces \in [Ifindex -> IfaceState \cup {None}],
           ProcessesInv(m_processes), Unsignalled(m_processes), KnownUp,
           NEW i \in Ifindex, onRemoved(i)
    PROVE  Unsignalled(m_processes') /\ KnownUp'
<1> DEFINE Q == m_processes'
<1>1. Q = stop(m_processes, i) \/ Q = m_processes
  BY DEF onRemoved
<1>2. Unsignalled(Q)
  BY <1>1, StopUnsignalled
<1>3. \A j \in Ifindex \ {i} : TrayOf(Q, j) = TrayOf(m_processes, j)
  BY <1>1, StopTrayOf DEF SameTrays
<1>4. m_ifaces' = [m_ifaces EXCEPT ![i] = None]
  BY DEF onRemoved
<1>5. KnownUp'
  <2> SUFFICES ASSUME NEW j \in Ifindex, WasUp(j)',
                      isEligible(m_cfg, m_ifaces'[j].name)
               PROVE  TrayOf(Q, j) # None
    BY DEF KnownUp, TrayOf, isRunning, TrayIface
  <2>1. j # i /\ m_ifaces'[j] = m_ifaces[j]
    BY <1>4 DEF WasUp
  <2> QED  BY <1>3, <2>1 DEF KnownUp, WasUp
<1> QED  BY <1>2, <1>5

LEMMA AliveUnchanged ==
    ASSUME AliveInv, UNCHANGED << m_ifaces, m_processes >>,
           pc' \notin {"waitAll", "exited"} => pc \notin {"waitAll", "exited"}
    PROVE  AliveInv'
BY DEF AliveInv, KnownUp, WasUp, TrayOf, isRunning, TrayIface

LEMMA AliveNext ==
    ASSUME ForksSucceed, Inv, AliveInv, FreePids(m_processes) # {}, [Next]_vars
    PROVE  AliveInv'
<1>0. /\ m_ifaces \in [Ifindex -> IfaceState \cup {None}]
      /\ ProcessesInv(m_processes)
      /\ TrayMatchesKnownLink
  BY DEF Inv, TypeOK
<1>1. CASE OpenSocket \/ RequestDump \/ openSignalFd
  BY <1>1, AliveUnchanged
  DEF OpenSocket, RequestDump, openSignalFd, StartupUnchanged, Goto
<1>2. CASE Poll \/ LeaveLoop \/ MessagesDone \/ ReadSignal \/ SignalsDone \/ ReapDone
  BY <1>2, AliveUnchanged
  DEF Poll, LeaveLoop, MessagesDone, ReadSignal, SignalsDone, ReapDone, Goto
<1>3. CASE SignalAll \/ Exit
  BY <1>3 DEF SignalAll, Exit, Goto, AliveInv
<1>4. CASE WaitAll
  BY <1>4 DEF WaitAll, AliveInv
<1>5. CASE LinkStep
  BY <1>5, AliveUnchanged DEF LinkStep, daemonVars
<1>6. CASE Terminate
  BY <1>6, AliveUnchanged DEF Terminate, Goto
<1>7. CASE UNCHANGED vars
  BY <1>7, AliveUnchanged DEF vars, daemonVars
<1>8. CASE ProcessMessage
  <2> DEFINE message == Head(queue)
  <2>1. message \in Message /\ handleMessage(message)
    BY <1>8 DEF ProcessMessage, Recv, Inv, TypeOK, NetlinkTypeOK
  <2>2. Unsignalled(m_processes) /\ KnownUp
    BY <1>8 DEF ProcessMessage, AliveInv
  <2>3. CASE message.type = "DONE"
    BY <1>8, <2>1, <2>3, AliveUnchanged DEF handleMessage, ProcessMessage
  <2>4. CASE message.type = "DELLINK"
    <3>1. message.ifindex \in Ifindex /\ onRemoved(message.ifindex)
      BY <2>1, <2>4 DEF handleMessage, Message, Done
    <3> QED  BY <1>0, <2>2, <3>1, OnRemovedAlive DEF AliveInv
  <2>5. CASE message.type = "NEWLINK"
    <3> DEFINE isUp == isOperationallyUp(message.link.flags)
    <3>1. /\ message.ifindex \in Ifindex
          /\ message.link.name \in Name
          /\ onChange(message.ifindex, message.link.name, isUp)
      BY <2>1, <2>5 DEF handleMessage, Message, Done, Link
    <3>2. isUp \in BOOLEAN
      BY DEF isOperationallyUp
    <3> QED  BY <1>0, <2>2, <3>1, <3>2, OnChangeAlive DEF AliveInv
  <2> QED  BY <2>1, <2>3, <2>4, <2>5 DEF handleMessage
<1>9. CASE reapExited
  <2>1. PICK p \in Pid : /\ IsZombie(m_processes, p)
                         /\ m_processes' = Reaped(m_processes, p)
    BY <1>9 DEF reapExited
  <2>2. /\ pc = "reap" /\ pc' = pc /\ m_ifaces' = m_ifaces
        /\ Unsignalled(m_processes) /\ KnownUp
    BY <1>9 DEF reapExited, AliveInv
  <2>3. p \notin TrackedPids(m_processes)
    BY <2>1, <2>2 DEF Unsignalled, IsZombie, Running, Zombie
  <2>4. /\ m_processes'.byIfindex = m_processes.byIfindex
        /\ m_processes'.ifindexByPid =
              [m_processes.ifindexByPid EXCEPT ![p] = None]
        /\ m_processes'.children = [m_processes.children EXCEPT ![p] = None]
    BY <2>1, <2>3 DEF Reaped, TrackedPids
  <2>5. Unsignalled(m_processes')
    BY <1>0, <2>2, <2>3, <2>4
    DEF Unsignalled, TrackedPids, ProcessesInv, Processes
  <2>6. \A j \in Ifindex : isRunning(m_processes', j) <=> isRunning(m_processes, j)
    BY <2>4 DEF isRunning
  <2>7. ProcessesInv(m_processes')
    BY <1>0, <2>1, ReapedInv DEF IsZombie
  <2>8. KnownUp'
    <3> SUFFICES ASSUME NEW j \in Ifindex, WasUp(j),
                        isEligible(m_cfg, m_ifaces[j].name)
                 PROVE  TrayOf(m_processes', j) # None
      BY <2>2 DEF KnownUp, TrayOf, isRunning, TrayIface, WasUp
    <3> QED  BY <1>0, <2>2, <2>6, <2>7, RunningHasTray DEF KnownUp
  <2> QED  BY <2>5, <2>8 DEF AliveInv
<1>10. CASE ChildStep
  <2>1. PICK p \in Pid : ChildUnblocks(p) \/ ChildExits(p)
    BY <1>10 DEF ChildStep
  <2>2. /\ m_processes.children[p] \in Running
        /\ m_processes' \in {Unblocked(m_processes, p), Exited(m_processes, p)}
        /\ UNCHANGED << netlinkVars, pc, m_ifaces >>
    BY <2>1 DEF ChildUnblocks, ChildExits, IsRunningChild
  <2> SUFFICES ASSUME pc \notin {"waitAll", "exited"}
               PROVE  Unsignalled(m_processes') /\ KnownUp'
    BY <2>2 DEF AliveInv
  <2>3. Unsignalled(m_processes) /\ KnownUp
    BY DEF AliveInv
  <2>4. Unsignalled(m_processes')
    <3>1. CASE ChildUnblocks(p)
      <4>1. /\ m_processes'.ifindexByPid = m_processes.ifindexByPid
            /\ m_processes'.children =
                  [m_processes.children EXCEPT
                      ![p] = [m_processes.children[p] EXCEPT !.blocked = FALSE]]
        BY <1>0, <3>1 DEF ChildUnblocks, Unblocked, ProcessesInv, Processes
      <4>2. /\ [m_processes.children[p] EXCEPT !.blocked = FALSE] \in Running
            /\ [m_processes.children[p] EXCEPT !.blocked = FALSE].sigterm =
                   m_processes.children[p].sigterm
        BY <2>2 DEF Running
      <4> QED  BY <1>0, <2>3, <4>1, <4>2
               DEF Unsignalled, TrackedPids, ProcessesInv, Processes
    <3>2. CASE ChildExits(p)
      <4>1. m_processes.children[p].sigterm
        BY <3>2 DEF ChildExits, ForksSucceed
      <4>2. p \notin TrackedPids(m_processes)
        BY <2>3, <4>1 DEF Unsignalled
      <4>3. /\ m_processes'.ifindexByPid = m_processes.ifindexByPid
            /\ \A q \in Pid : q # p =>
                  m_processes'.children[q] = m_processes.children[q]
        BY <1>0, <3>2 DEF ChildExits, Exited, ProcessesInv, Processes
      <4> QED  BY <2>3, <4>2, <4>3 DEF Unsignalled, TrackedPids
    <3> QED  BY <2>1, <3>1, <3>2
  <2>5. SameTrays(m_processes, m_processes', Ifindex)
    BY <1>0, <2>2, ChildTrayOf
  <2>6. KnownUp'
    <3> SUFFICES ASSUME NEW j \in Ifindex, WasUp(j),
                        isEligible(m_cfg, m_ifaces[j].name)
                 PROVE  TrayOf(m_processes', j) # None
      BY <2>2 DEF KnownUp, TrayOf, isRunning, TrayIface, WasUp
    <3> QED  BY <2>3, <2>5 DEF KnownUp, SameTrays
  <2> QED  BY <2>4, <2>6
<1> QED
  BY <1>1, <1>2, <1>3, <1>4, <1>5, <1>6, <1>7, <1>8, <1>9, <1>10
  DEF Next, DaemonStep, Finished

\* As long as forks succeed and no tray ends by itself, every link known to
\* be up and let through by the filter has its tray until the shutdown.
THEOREM NoTrayMissing ==
    ASSUME ForksSucceed
    PROVE  Spec /\ [](FreePids(m_processes) # {}) => []KnownUpHasTray
<1>1. Inv /\ AliveInv /\ FreePids(m_processes) # {} /\ [Next]_vars => AliveInv'
  BY AliveNext
<1>2. Inv /\ AliveInv => KnownUpHasTray
  BY RunningHasTray DEF Inv, AliveInv, KnownUp, KnownUpHasTray, Tracked
<1> QED  BY <1>1, <1>2, AliveInit, Invariance, PTL DEF Spec
=============================================================================
