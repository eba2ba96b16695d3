------------------------------ MODULE Netlink -------------------------------
(***************************************************************************)
(* The kernel's link table and the NETLINK_ROUTE socket of the watcher,    *)
(* with the socket's half of netlink.cpp: bind to RTMGRP_LINK, then ask    *)
(* for a dump.  The kernel side is external; it is what netlink.cpp relies *)
(* on: a message shows the link as it was when the message was queued,     *)
(* messages arrive in order, and a notification that finds the socket's    *)
(* queue full is dropped and reported by ENOBUFS at a later recv().        *)
(***************************************************************************)
EXTENDS Host, Naturals, Sequences

CONSTANTS FlagSets,       \* the sets of link flags that occur
          BootLinks,      \* the link tables a watcher may find at its start
          QueueCapacity,  \* messages the socket's receive queue holds
          MaxLinkEvents   \* bound on the link events of a behaviour

Link == [name : Name, flags : FlagSets]

ASSUME NoneIsNoLink == None \notin Link

NamesAreUnique(table) ==
    \A i, j \in Ifindex :
        table[i] # None /\ table[j] # None /\ table[i].name = table[j].name
            => i = j

LinkTables == {table \in [Ifindex -> Link \cup {None}] : NamesAreUnique(table)}

ASSUME NetlinkAssumption ==
    /\ BootLinks \subseteq LinkTables
    /\ FlagSets \subseteq SUBSET {"UP", "RUNNING", "LOWER_UP"}
    /\ QueueCapacity \in Nat \ {0}
    /\ MaxLinkEvents \in Nat

VARIABLES
    links,       \* the kernel's link table
    sock,        \* "closed", "bound", "dumping" or "dumped"
    queue,       \* the socket's receive queue
    overrun,     \* a notification was dropped and no recv() has said so yet
    dumpLeft,    \* the links the running dump has still to show
    unseen,      \* history: links whose current state was never queued
    linkEvents   \* number of link events so far

netlinkVars == << links, sock, queue, overrun, dumpLeft, unseen, linkEvents >>

-----------------------------------------------------------------------------
Done == [type |-> "DONE", ifindex |-> None, link |-> None]

Newlink(i, link) == [type |-> "NEWLINK", ifindex |-> i, link |-> link]

Dellink(i) == [type |-> "DELLINK", ifindex |-> i, link |-> None]

Message == [type : {"NEWLINK"}, ifindex : Ifindex, link : Link]
               \cup [type : {"DELLINK"}, ifindex : Ifindex, link : {None}]
               \cup {Done}

isOperationallyUp(flags) == {"UP", "RUNNING", "LOWER_UP"} \subseteq flags

Present == {i \in Ifindex : links[i] # None}

NameIsFree(name) == \A i \in Present : links[i].name # name

HasRoom == Len(queue) < QueueCapacity

NetlinkTypeOK ==
    /\ links \in LinkTables
    /\ sock \in {"closed", "bound", "dumping", "dumped"}
    /\ queue \in Seq(Message)
    /\ Len(queue) <= QueueCapacity
    /\ overrun \in BOOLEAN
    /\ dumpLeft \subseteq Ifindex
    /\ unseen \subseteq Ifindex
    /\ linkEvents \in 0 .. MaxLinkEvents

NetlinkInit ==
    /\ links \in BootLinks
    /\ sock = "closed"
    /\ queue = << >>
    /\ overrun = FALSE
    /\ dumpLeft = {}
    /\ unseen = Present
    /\ linkEvents = 0

-----------------------------------------------------------------------------
(* Notifications.                                                          *)

Enqueue(message) ==
    /\ queue' = Append(queue, message)
    /\ unseen' = unseen \ {message.ifindex}
    /\ UNCHANGED overrun

Drop(message) ==
    /\ overrun' = TRUE
    /\ unseen' = unseen \cup {message.ifindex}
    /\ UNCHANGED queue

\* Nobody is subscribed; the watcher will meet the link in its dump, if at all.
NotSubscribed(message) ==
    /\ unseen' = IF message.type = "DELLINK"
                 THEN unseen \ {message.ifindex}
                 ELSE unseen \cup {message.ifindex}
    /\ UNCHANGED << queue, overrun >>

Broadcast(message) ==
    IF sock = "closed" THEN NotSubscribed(message)
    ELSE IF HasRoom THEN Enqueue(message)
    ELSE Drop(message)

LinkEvent(i, link, message) ==
    /\ linkEvents < MaxLinkEvents
    /\ linkEvents' = linkEvents + 1
    /\ links' = [links EXCEPT ![i] = link]
    /\ Broadcast(message)
    /\ UNCHANGED << sock, dumpLeft >>

LinkAdded(i) ==
    /\ links[i] = None
    /\ \E link \in Link :
          /\ NameIsFree(link.name)
          /\ LinkEvent(i, link, Newlink(i, link))

\* Flags change, or another attribute does and the message repeats them.
LinkChanged(i) ==
    /\ links[i] # None
    /\ \E flags \in FlagSets :
          LET link == [links[i] EXCEPT !.flags = flags]
          IN  LinkEvent(i, link, Newlink(i, link))

LinkRenamed(i) ==
    /\ links[i] # None
    /\ \E name \in Name :
          /\ NameIsFree(name)
          /\ LET link == [links[i] EXCEPT !.name = name]
             IN  LinkEvent(i, link, Newlink(i, link))

LinkDeleted(i) ==
    /\ links[i] # None
    /\ LinkEvent(i, None, Dellink(i))

KernelStep ==
    \E i \in Ifindex :
        LinkAdded(i) \/ LinkChanged(i) \/ LinkRenamed(i) \/ LinkDeleted(i)

-----------------------------------------------------------------------------
(* The dump waits for room in the queue, as live notifications do not.     *)

DumpLink(i) ==
    /\ sock = "dumping"
    /\ i \in dumpLeft
    /\ HasRoom
    /\ dumpLeft' = dumpLeft \ {i}
    /\ IF links[i] = None
       THEN UNCHANGED << queue, unseen, overrun >>
       ELSE Enqueue(Newlink(i, links[i]))
    /\ UNCHANGED << links, sock, linkEvents >>

DumpDone ==
    /\ sock = "dumping"
    /\ dumpLeft = {}
    /\ HasRoom
    /\ queue' = Append(queue, Done)
    /\ sock' = "dumped"
    /\ UNCHANGED << links, overrun, dumpLeft, unseen, linkEvents >>

DumpStep == DumpDone \/ \E i \in Ifindex : DumpLink(i)

-----------------------------------------------------------------------------
(* The watcher's calls on the socket.                                      *)

Bind ==
    /\ sock' = "bound"
    /\ UNCHANGED << links, queue, overrun, dumpLeft, unseen, linkEvents >>

\* Mutant: the request lacks NLM_F_DUMP.
requestDump_NoDumpFlag ==
    /\ sock' = "dumping"
    /\ dumpLeft' = {}
    /\ UNCHANGED << links, queue, overrun, unseen, linkEvents >>

requestDump ==
    /\ sock' = "dumping"
    /\ dumpLeft' = Present
    /\ UNCHANGED << links, queue, overrun, unseen, linkEvents >>

\* recv() returns the oldest message.
Recv ==
    /\ ~overrun
    /\ queue # << >>
    /\ queue' = Tail(queue)
    /\ UNCHANGED << links, sock, overrun, dumpLeft, unseen, linkEvents >>

\* recv() returns -1: ENOBUFS, which it clears, or EAGAIN.
RecvFails ==
    /\ overrun \/ queue = << >>
    /\ overrun' = FALSE
    /\ UNCHANGED << links, sock, queue, dumpLeft, unseen, linkEvents >>
=============================================================================
