--------------------------- MODULE MCPingMonitor ----------------------------
(***************************************************************************)
(* Small instances of PingMonitor: the worlds, and the targets with what   *)
(* they resolve to.  The interface has index "if1", after a renumbering    *)
(* "if2".                                                                  *)
(***************************************************************************)
EXTENDS PingMonitor

\* Addresses: of the protocols given, a link-local IPv6 address, and both
\* kinds of another interface.
MCAddrs(protos) ==
    [iface : {"this"}, family : protos, linkLocal : {FALSE}]
        \cup [iface : {"this"}, family : {"v6"}, linkLocal : {TRUE}]
        \cup [iface : {"other"}, family : Proto, linkLocal : {FALSE}]

MCRoute(p, len, oif, ip) ==
    [family |-> p, dst_len |-> len, oif |-> oif,
     gateway |-> [family |-> p, ip |-> ip]]

\* A default route over the interface, one over another interface, one
\* without a next hop, and a route to a network.
MCRoutes(p, ifindex) ==
    << MCRoute(p, 0, ifindex, "gateway"),
       MCRoute(p, 0, "other", "other"),
       [family |-> p, dst_len |-> 0, oif |-> ifindex],
       MCRoute(p, 24, ifindex, "hop") >>

MCWorld(ifindex, protos, answering) ==
    [ifindex |-> ifindex, addrs |-> MCAddrs(protos),
     routes |-> (IF "v4" \in protos THEN MCRoutes("v4", ifindex) ELSE << >>)
                    \o (IF "v6" \in protos THEN MCRoutes("v6", ifindex)
                        ELSE << >>),
     answering |-> answering, elsewhere |-> FALSE]

All == Proto \X Answerer

\* Both protocols, one after the other.  A world in which nobody answers would
\* add nothing: where replies may come late, any of them may.
MCTwoProtocols ==
    [noAddress    |-> MCWorld("if1", {}, {}),
     good         |-> MCWorld("if1", Proto, All),
     gatewaysOnly |-> MCWorld("if1", Proto, Proto \X {"gateway"}),
     mixed        |-> MCWorld("if1", Proto,
                              {<<"v4", "gateway">>, <<"v6", "target">>})]

\* IPv4 over an interface that goes away and comes back, with a second route
\* to the target, and default routes that come late.
MCOneProtocol ==
    [good        |-> MCWorld("if1", {"v4"}, {"v4"} \X Answerer),
     gatewayOnly |-> MCWorld("if1", {"v4"}, {<<"v4", "gateway">>}),
     noRoute     |-> [MCWorld("if1", {"v4"}, {<<"v4", "gateway">>})
                         EXCEPT !.routes = << >>],
     elsewhere   |-> [MCWorld(None, {}, {}) EXCEPT !.elsewhere = TRUE],
     gone        |-> MCWorld(None, {}, {}),
     renumbered  |-> MCWorld("if2", {"v4"}, {"v4"} \X Answerer),
     silent      |-> MCWorld("if2", {"v4"}, {})]

MCLiteral == [v4 |-> {"1.1.1.1"}, v6 |-> {"2606::1"}]

\* The answer for a host name comes with the IPv6 addresses first.
MCDns ==
    [host |-> << [family |-> "v6", ip |-> "2606::2"],
                 [family |-> "v6", ip |-> "2606::3"],
                 [family |-> "v4", ip |-> "1.0.0.1"] >>]
=============================================================================
