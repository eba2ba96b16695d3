----------------------------- MODULE RawSocket ------------------------------
(***************************************************************************)
(* The raw ICMP sockets of conwatch-tray, one per protocol                 *)
(* (ping_monitor_socket4.cpp, ping_monitor_socket6.cpp: the same code for  *)
(* the two address families), and the network behind them.                 *)
(*                                                                         *)
(* A world is what the tray cannot see directly:                           *)
(*   ifindex    the index the interface has now, None while it is gone     *)
(*   addrs      the addresses of the host                                  *)
(*   routes     the kernel's routes, in the order of a dump                *)
(*   answering  who answers a ping over the interface: <<protocol, who>>   *)
(*   elsewhere  the target answers over another interface too              *)
(* A message in a receive buffer is the reply of the target or of the      *)
(* gateway, or "foreign", any ICMP packet isMatchingReply rejects.         *)
(***************************************************************************)
EXTENDS StatusIcon, GatewayResolver

CONSTANTS None,
          TrayIfindex,   \* indexes the interface has in turn
          Worlds,        \* the worlds the system moves between, by name
          NetFaults,     \* see NetFaultKinds
          RxCapacity     \* receive buffer: bound on its messages

\* "socket": socket(), or a call after it, may fail.  "send": sendto() may
\* fail although a route exists.  "getifaddrs": that call may fail.  "late": a
\* reply may take longer than the receive timeout.  "foreign": other ICMP
\* traffic reaches the socket.
NetFaultKinds == {"socket", "send", "getifaddrs", "late", "foreign"}

Answerer == {"target", "gateway"}

\* An address of this interface or of another one.
Address == [iface : {"this", "other"}, family : Proto, linkLocal : BOOLEAN]

\* "gateway" is the next hop of this interface's default routes, "hop" that
\* of another route over it, "other" the gateway of another interface.
Gateway == [family : Proto, ip : {"gateway", "hop", "other"}]

Oif == TrayIfindex \cup {"other"}

Route == [family : Proto, dst_len : {0, 24}, oif : Oif]
             \cup [family : Proto, dst_len : {0, 24}, oif : Oif,
                   gateway : Gateway]

World == [ifindex : TrayIfindex \cup {None}, addrs : SUBSET Address,
          routes : Seq(Route), answering : SUBSET (Proto \X Answerer),
          elsewhere : BOOLEAN]

\* A socket handle: "closed" (-1), "unbound", or the index it is bound to.
Handle == TrayIfindex \cup {"closed", "unbound"}

ASSUME NetworkAssumption ==
    /\ None \notin TrayIfindex
    /\ TrayIfindex \cap {"closed", "unbound", "other"} = {}
    /\ \A w \in DOMAIN Worlds : Worlds[w] \in World
    /\ NetFaults \subseteq NetFaultKinds
    /\ RxCapacity \in Nat \ {0}

\* What "gateway" stands for.
ASSUME RoutesAssumption ==
    \A w \in DOMAIN Worlds : \A k \in DOMAIN Worlds[w].routes :
        LET route == Worlds[w].routes[k] IN
        (/\ route.dst_len = 0
         /\ route.oif = Worlds[w].ifindex
         /\ "gateway" \in DOMAIN route) => route.gateway.ip = "gateway"

VARIABLES world,  \* the name of the world as it is
          wire,   \* wire[p]: replies under way to the host
          rx      \* rx[p]: receive buffer of the socket of protocol p

netVars == << world, wire, rx >>

Message == Answerer \cup {"foreign"}

\* Worlds, which TLC evaluates once only as a definition.
WorldNamed == [w \in DOMAIN Worlds |-> Worlds[w]]

Here == WorldNamed[world]

NetTypeOK ==
    /\ world \in DOMAIN WorldNamed
    /\ wire \in [Proto -> SUBSET Answerer]
    /\ rx \in [Proto -> Seq(Message)]
    /\ \A p \in Proto : Len(rx[p]) <= RxCapacity

NetInit ==
    /\ world \in DOMAIN WorldNamed
    /\ wire = [p \in Proto |-> {}]
    /\ rx = [p \in Proto |-> << >>]

-----------------------------------------------------------------------------
\* The handles openSocket4/6 may leave: a failed SO_BINDTODEVICE is reported
\* and the socket kept.
openSocket ==
    {IF Here.ifindex = None THEN "unbound" ELSE Here.ifindex}
        \cup {h \in {"closed"} : "socket" \in NetFaults}

\* A socket bound to an index that is gone sends and receives nothing.
Attached(sock) == sock = "unbound" \/ sock = Here.ifindex

Replies(p, sock, who) ==
    IF sock = Here.ifindex
    THEN {who} \cap {w \in Answerer : <<p, w>> \in Here.answering}
    ELSE {who} \cap {w \in {"target"} : sock = "unbound" /\ Here.elsewhere}

\* Whether sendPing4/6(who) may return sent.
MaySend(sock, who, sent) ==
    IF sent
    THEN Attached(sock) /\ who # "garbage"   \* inet_pton refuses that
    ELSE ~Attached(sock) \/ who = "garbage" \/ "send" \in NetFaults

\* recvfrom() gives up after SO_RCVTIMEO.  Unless replies may be late, one
\* that is under way makes it.
TimesOut(p) ==
    /\ rx[p] = << >>
    /\ wire[p] = {} \/ "late" \in NetFaults

isMatchingReply(message) == message \in Answerer

-----------------------------------------------------------------------------
(* What the tray asks the kernel about its interface.                      *)

\* Mutant: an address of any interface counts.
matchesIfaceAddress_AnyInterface(a, p) ==
    /\ a.family = p
    /\ p = "v6" => ~a.linkLocal

matchesIfaceAddress(a, p) ==
    /\ a.family = p
    /\ a.iface = "this"
    /\ p = "v6" => ~a.linkLocal

\* What ifaceHasAddress may return.
ifaceHasAddress ==
    [w \in DOMAIN Worlds |-> [p \in Proto |->
        {\E a \in Worlds[w].addrs : matchesIfaceAddress(a, p)}
            \cup {found \in {FALSE} : "getifaddrs" \in NetFaults}]]

\* The dump of the routes, cut into two batches somewhere.  (The kernel leaves
\* out other families; so does parseDefaultRouteGateway.)
Dumps(routes) ==
    LET dump == [k \in 1 .. Len(routes) + 1 |->
                    IF k <= Len(routes) THEN Newroute(routes[k]) ELSE DumpDone]
    IN  {<< SubSeq(dump, 1, k), SubSeq(dump, k + 1, Len(dump)) >> :
            k \in DOMAIN dump}

\* What resolveGateway may return; a failing call cuts the dump short.
resolveGateway ==
    [w \in DOMAIN Worlds |-> [p \in Proto |->
        IF Worlds[w].ifindex = None THEN {NoGateway}
        ELSE {drain(p, Worlds[w].ifindex, SubSeq(batches, 1, n)) :
                 batches \in Dumps(Worlds[w].routes),
                 n \in IF "socket" \in NetFaults THEN 0 .. 2 ELSE {2}}]]

-----------------------------------------------------------------------------
(* The network moves; sock is the handle of p's socket.                    *)

Receive(p, sock, message) ==
    rx' = IF Attached(sock) /\ Len(rx[p]) < RxCapacity
          THEN [rx EXCEPT ![p] = Append(@, message)]
          ELSE rx

ReplyArrives(p, sock) ==
    \E who \in wire[p] :
        /\ wire' = [wire EXCEPT ![p] = @ \ {who}]
        /\ Receive(p, sock, who)
        /\ UNCHANGED world

ForeignArrives(p, sock) ==
    /\ "foreign" \in NetFaults
    /\ Attached(sock)
    /\ Len(rx[p]) < RxCapacity
    /\ Receive(p, sock, "foreign")
    /\ UNCHANGED << world, wire >>

WorldChanges ==
    /\ world' \in DOMAIN WorldNamed \ {world}
    /\ UNCHANGED << wire, rx >>
=============================================================================
