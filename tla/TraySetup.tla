----------------------------- MODULE TraySetup ------------------------------
(***************************************************************************)
(* How conwatch-tray reads its arguments: the targets of its two protocols *)
(* (PingMonitor::resolveInitialTargets) and where each takes its gateway   *)
(* from (GatewayOverride).                                                 *)
(***************************************************************************)
EXTENDS TargetResolver

\* first, and second for the families first has nothing of.
Completed(first, second) ==
    [f \in DOMAIN first \cup DOMAIN second |->
        IF f \in DOMAIN first THEN first[f] ELSE second[f]]

Target6(dns, target6) ==
    IF target6 = "" THEN << >>
    ELSE LET extra == resolveTargets(dns, target6)
         IN  [f \in DOMAIN extra \cap {"v6"} |-> extra[f]]

\* Mutant: target6 replaces what target gave.
resolveInitialTargets_Overrides(dns, target, target6) ==
    Completed(Target6(dns, target6), resolveTargets(dns, target))

\* target6 only ever adds an IPv6 target that target did not give.
resolveInitialTargets(dns, target, target6) ==
    Completed(resolveTargets(dns, target), Target6(dns, target6))

\* The argument vector as main reads it, program name left out; argsValid
\* and the defaults of a shorter one do not matter to Config!TrayArgv.
TrayArgs(argv) ==
    [iface |-> argv[1], target |-> argv[2], target6 |-> argv[3],
     label |-> argv[4], override |-> [v4 |-> argv[5], v6 |-> argv[6]]]

\* "None" stands for every other spelling of the sentinel in capitals.
toLower(s) == IF s = "None" THEN "none" ELSE s

gatewayModeOf(override) ==
    IF override = "" THEN "Auto"
    ELSE IF toLower(override) = "none" THEN "Disabled" ELSE "Fixed"
=============================================================================
