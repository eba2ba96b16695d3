------------------------------- MODULE Config -------------------------------
(***************************************************************************)
(* The watcher's configuration: loading (config_load.cpp), the             *)
(* include/exclude filter (isEligible) and the per-interface resolution of *)
(* the arguments a tray is started with (config_resolve.cpp).              *)
(*                                                                         *)
(* A YAML map is a function whose domain is the set of keys present, so an *)
(* optional field that is not set is a field outside the domain.           *)
(* fnmatch(3) is the relation Fnmatch between patterns and names.          *)
(***************************************************************************)
EXTENDS Host, Naturals, Sequences

CONSTANTS Pattern,     \* include/exclude patterns
          AnyPattern,  \* the pattern "*"
          Fnmatch      \* the pairs <<p, n>> with fnmatch(p, n, 0) == 0

ASSUME FnmatchAssumption ==
    /\ AnyPattern \in Pattern
    /\ Fnmatch \subseteq Pattern \X Name
    /\ \A n \in Name : <<AnyPattern, n>> \in Fnmatch

-----------------------------------------------------------------------------
(* Optional fields.                                                        *)

Has(node, key) == key \in DOMAIN node

ValueOr(node, key, default) == IF Has(node, key) THEN node[key] ELSE default

-----------------------------------------------------------------------------
(* The include/exclude filter.                                             *)

isNoopPattern(patterns) == Len(patterns) = 1 /\ patterns[1] = AnyPattern

IsReal(patterns) == patterns # << >> /\ ~isNoopPattern(patterns)

matchesAny(patterns, name) ==
    \E k \in DOMAIN patterns : <<patterns[k], name>> \in Fnmatch

isEligible(cfg, name) ==
    IF IsReal(cfg.include)
    THEN matchesAny(cfg.include, name)
    ELSE cfg.exclude # << >> => ~matchesAny(cfg.exclude, name)

-----------------------------------------------------------------------------
(* Loading.  The outcome of a load is a configuration, or LoadFails when   *)
(* the process exits with the precedence error.                            *)

LoadFails == [exit |-> 1]

\* struct Config before anything is read.
NewConfig ==
    [default_target |-> "1.1.1.1",
     include        |-> << >>,
     exclude        |-> << >>,
     interfaces     |-> << >>]

\* cfg with the keys that node has.
With(cfg, node, keys) ==
    [key \in DOMAIN cfg \cup (keys \cap DOMAIN node) |->
        IF key \in keys THEN ValueOr(node, key, cfg[key]) ELSE cfg[key]]

applyScalars(root, cfg) == With(cfg, root, {"default_target", "default_target6"})

applyPatternLists(root, cfg) == With(cfg, root, {"include", "exclude"})

OverrideKeys == {"label", "target", "target6", "gateway_ip_override4",
                 "gateway_ip_override6"}

parseOverride(name, node) == With([label |-> name], node, OverrideKeys)

applyInterfaceOverrides(root, cfg) ==
    LET nodes == ValueOr(root, "interfaces", << >>)
    IN  [cfg EXCEPT !.interfaces =
            [name \in DOMAIN nodes |-> parseOverride(name, nodes[name])]]

\* Mutant: both lists may be used.
validatePrecedence_Unchecked(cfg) == TRUE

validatePrecedence(cfg) == ~(IsReal(cfg.include) /\ IsReal(cfg.exclude))

load(root) ==
    LET cfg == applyInterfaceOverrides(root,
                   applyPatternLists(root, applyScalars(root, NewConfig)))
    IN  IF validatePrecedence(cfg) THEN cfg ELSE LoadFails

-----------------------------------------------------------------------------
(* Per-interface resolution.                                               *)

OverrideOf(cfg, iface) == ValueOr(cfg.interfaces, iface, << >>)

resolveTarget(cfg, iface) ==
    ValueOr(OverrideOf(cfg, iface), "target", cfg.default_target)

resolveLabel(cfg, iface) ==
    LET label == ValueOr(OverrideOf(cfg, iface), "label", "")
    IN  IF label = "" THEN iface ELSE label

resolveTarget6(cfg, iface) ==
    ValueOr(OverrideOf(cfg, iface), "target6",
            ValueOr(cfg, "default_target6", ""))

resolveGatewayIpOverride4(cfg, iface) ==
    ValueOr(OverrideOf(cfg, iface), "gateway_ip_override4", "")

resolveGatewayIpOverride6(cfg, iface) ==
    ValueOr(OverrideOf(cfg, iface), "gateway_ip_override6", "")

\* The argument vector ProcessManager::start hands to conwatch-tray.
TrayArgv(cfg, iface) ==
    << iface,
       resolveTarget(cfg, iface),
       resolveTarget6(cfg, iface),
       resolveLabel(cfg, iface),
       resolveGatewayIpOverride4(cfg, iface),
       resolveGatewayIpOverride6(cfg, iface) >>
=============================================================================
