----------------------------- MODULE MCStartup ------------------------------
(***************************************************************************)
(* A small instance of Startup.                                            *)
(***************************************************************************)
EXTENDS Startup

MCAnyPattern == "*"

MCPattern == {"*", "lo", "docker*", "podman*", "virbr*", "veth*", "br-*", "wg*"}

MCFnmatch ==
    {<<"*", n>> : n \in Name}
        \cup {<<"lo", "lo">>, <<"veth*", "veth0">>, <<"wg*", "wg0">>}

MCLiteral == [v4 |-> {"1.1.1.1"}, v6 |-> {"2606::1", "fd00::1"}]

MCDns ==
    [dual |-> << [family |-> "v6", ip |-> "2606::2"],
                 [family |-> "v4", ip |-> "1.0.0.1"] >>,
     v4only |-> << [family |-> "v4", ip |-> "1.0.0.1"] >>]

Overrides(fields) ==
    [default_target |-> "1.1.1.1", default_target6 |-> "2606::1",
     interfaces |-> [wg0 |-> fields]]

\* Each list alone, the no-op pattern beside a real list and by itself, both
\* lists, and overrides of every kind.
MCUserFiles ==
    {Malformed,
     [include |-> << "wg*" >>, exclude |-> << "*" >>],
     [include |-> << "*" >>, exclude |-> << "lo", "veth*" >>],
     [include |-> << >>, exclude |-> << "*" >>],
     [include |-> << "wg*", "veth*" >>, exclude |-> << "veth*" >>],
     Overrides([target |-> "fd00::1", gateway_ip_override6 |-> "none"]),
     Overrides([target |-> "dual", target6 |-> "fd00::1"]),
     Overrides([target |-> "v4only", target6 |-> "fd00::1",
                gateway_ip_override4 |-> "10.10.0.1"]),
     Overrides([label |-> "VPN", target6 |-> "fd00::1"])}
=============================================================================
