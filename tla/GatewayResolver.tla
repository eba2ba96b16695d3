-------------------------- MODULE GatewayResolver ---------------------------
(***************************************************************************)
(* The gateway of an interface, found in a dump of the kernel's routes     *)
(* (gateway_resolver.cpp).  recv() hands the dump over in batches of       *)
(* messages; the messages after one that ends the dump are not looked at.  *)
(*                                                                         *)
(* NoGateway is the empty optional.  A route is a record                   *)
(*   family, dst_len   of struct rtmsg; a default route has dst_len 0      *)
(*   oif, gateway      its attributes, each of which may be missing; a     *)
(*                     gateway is a record [family, ip]                    *)
(***************************************************************************)
EXTENDS Naturals, Sequences

NoGateway == ""

Newroute(route) == [type |-> "NEWROUTE", route |-> route]

DumpDone == [type |-> "DONE"]

\* The address is formatted if its length is that of the family asked for.
formatGateway(family, gateway) ==
    IF gateway.family = family THEN gateway.ip ELSE NoGateway

IsDefault(family, route) == route.family = family /\ route.dst_len = 0

\* Mutant: any interface's default route will do.
parseDefaultRouteGateway_AnyInterface(family, ifindex, route) ==
    IF IsDefault(family, route) /\ "gateway" \in DOMAIN route
    THEN formatGateway(family, route.gateway)
    ELSE NoGateway

parseDefaultRouteGateway(family, ifindex, route) ==
    IF /\ IsDefault(family, route)
       /\ {"oif", "gateway"} \subseteq DOMAIN route
       /\ route.oif = ifindex
    THEN formatGateway(family, route.gateway)
    ELSE NoGateway

EndsDump(message) == message.type \in {"DONE", "ERROR"}

GatewayIn(family, ifindex, message) ==
    IF message.type = "NEWROUTE"
    THEN parseDefaultRouteGateway(family, ifindex, message.route)
    ELSE NoGateway

\* The last of the gateways found, results[k] being what step k found.
LastFound(results) ==
    LET found == {k \in DOMAIN results : results[k] # NoGateway}
    IN  IF found = {} THEN NoGateway
        ELSE results[CHOOSE k \in found : \A l \in found : l <= k]

done(batch) == \E k \in DOMAIN batch : EndsDump(batch[k])

scanBatch(family, ifindex, batch) ==
    LET scanned == {k \in DOMAIN batch : \A l \in 1 .. k : ~EndsDump(batch[l])}
    IN  LastFound([k \in scanned |-> GatewayIn(family, ifindex, batch[k])])

\* batches are what the calls of recv() return until one fails.
drain(family, ifindex, batches) ==
    LET received == {k \in DOMAIN batches :
                        \A l \in 1 .. k - 1 : ~done(batches[l])}
    IN  LastFound([k \in received |-> scanBatch(family, ifindex, batches[k])])
=============================================================================
