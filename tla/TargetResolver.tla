--------------------------- MODULE TargetResolver ---------------------------
(***************************************************************************)
(* From a configured target to the addresses to ping (target_resolve.cpp). *)
(*                                                                         *)
(* A result holds an address per family, or none: an optional that is not  *)
(* set is a family outside the function's domain.  An answer of            *)
(* getaddrinfo() is a sequence of records [family, ip].                    *)
(***************************************************************************)
EXTENDS Naturals, Sequences

CONSTANTS Literal,   \* Literal[f]: the texts inet_pton() takes for family f
          Dns        \* Dns[name]: the answer for a name that has one

Family == {"v4", "v6"}

ASSUME TargetAssumption ==
    /\ DOMAIN Literal = Family
    /\ Literal["v4"] \cap Literal["v6"] = {}
    /\ \A f \in Family : "" \notin Literal[f]
    /\ "" \notin DOMAIN Dns

\* What getaddrinfo() may find: all it knows, or nothing while the resolver
\* cannot be reached.
Resolvers == {Dns, << >>}

FirstOf(addrs, f) ==
    LET found == {k \in DOMAIN addrs : addrs[k].family = f}
    IN  addrs[CHOOSE k \in found : \A l \in found : k <= l].ip

collectAddresses(addrs) ==
    [f \in {addrs[k].family : k \in DOMAIN addrs} \cap Family |->
        FirstOf(addrs, f)]

resolveViaDns(dns, target) ==
    IF target \in DOMAIN dns THEN collectAddresses(dns[target]) ELSE << >>

IsLiteral(target) == \E f \in Family : target \in Literal[f]

tryLiteral(target) == [f \in {g \in Family : target \in Literal[g]} |-> target]

resolveTargets(dns, target) ==
    IF IsLiteral(target) THEN tryLiteral(target) ELSE resolveViaDns(dns, target)
=============================================================================
