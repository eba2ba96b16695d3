--------------------------- MODULE StartupProofs ----------------------------
(***************************************************************************)
(* Proofs about the start of the watcher, for any files of the user's and  *)
(* any number of crashes and edits: on a file system with room, the        *)
(* configuration is never half written, and the user's is never lost.      *)
(***************************************************************************)
EXTENDS Startup, TLAPS

Whole == {None, DefaultRoot} \cup UserFiles

\* The temporary file is whole when it is renamed.
IInv ==
    /\ file \in Whole
    /\ pc = "write" => tmp # None
    /\ pc = "rename" => tmp = DefaultRoot

LEMMA InitIInv == Init => IInv
  BY DEF Init, IInv, Whole

LEMMA NextIInv ==
    ASSUME "full" \notin Faults, IInv, [Next]_vars
    PROVE  IInv'
<1> USE DEF IInv, Whole, userVars
<1>0. None \notin {DefaultRoot, Empty}
  BY StartupAssumption DEF Texts
<1>1. CASE Start
  BY <1>1 DEF Start
<1>2. CASE Exists
  BY <1>2 DEF Exists
<1>11. CASE CreateDirectories
  BY <1>11 DEF CreateDirectories, Ends
<1>3. CASE OpenTmp
  BY <1>0, <1>3 DEF OpenTmp
<1>4. CASE WriteTmp
  BY <1>0, <1>4 DEF WriteTmp
<1>5. CASE Rename
  BY <1>0, <1>5 DEF Rename, Ends
<1>6. CASE Load
  BY <1>6 DEF Load, Ends
<1>7. CASE Run
  BY <1>7 DEF Run, vars
<1>8. CASE Crash
  BY <1>8 DEF Crash, Ends
<1>9. CASE Edit
  BY <1>9 DEF Edit
<1>10. CASE UNCHANGED vars
  BY <1>10 DEF vars
<1> QED  BY <1>1, <1>2, <1>3, <1>4, <1>5, <1>6, <1>7, <1>8, <1>9, <1>10,
         <1>11
         DEF Next, Daemon

\* The inductive invariant, on a file system with room.
THEOREM Invariance ==
    ASSUME "full" \notin Faults
    PROVE  Spec => []IInv
  BY InitIInv, NextIInv, PTL DEF Spec

\* config.yaml is never half written, wherever the process is ended.
THEOREM NeverHalfWritten ==
    ASSUME "full" \notin Faults
    PROVE  Spec => []FileIsWhole
<1>1. IInv => FileIsWhole
  BY DEF IInv, Whole, FileIsWhole
<1> QED  BY Invariance, <1>1, PTL

\* ensureExists writes only where the user has no file, or saved one meanwhile.
KeptInv ==
    /\ pc \in {"mkdir", "open", "write", "rename"} => saved = None \/ raced
    /\ saved # None /\ ~raced => file = saved

LEMMA NextKeptInv ==
    ASSUME KeptInv, [Next]_vars
    PROVE  KeptInv'
<1> USE DEF KeptInv, userVars, Ends
<1>1. CASE Start \/ Exists \/ CreateDirectories
  BY <1>1 DEF Start, Exists, CreateDirectories
<1>2. CASE OpenTmp
  BY <1>2 DEF OpenTmp
<1>3. CASE WriteTmp
  BY <1>3 DEF WriteTmp
<1>4. CASE Rename
  BY <1>4 DEF Rename
<1>5. CASE Load \/ Run
  BY <1>5 DEF Load, Run, vars
<1>6. CASE Crash \/ UNCHANGED vars
  BY <1>6 DEF Crash, vars
<1>7. CASE Edit
  BY <1>7 DEF Edit
<1> QED  BY <1>1, <1>2, <1>3, <1>4, <1>5, <1>6, <1>7 DEF Next, Daemon

\* No start, whatever an earlier one left behind, replaces the user's file,
\* with or without room on the file system.
THEOREM UserFileNeverLost == Spec => []UserFileKept
<1>1. Init => KeptInv
  BY DEF Init, KeptInv
<1>2. KeptInv => UserFileKept
  BY DEF KeptInv, UserFileKept
<1> QED  BY <1>1, NextKeptInv, <1>2, PTL DEF Spec

-----------------------------------------------------------------------------
(* Types.                                                                  *)

LEMMA NextTypeOK ==
    ASSUME TypeOK, [Next]_vars
    PROVE  TypeOK'
<1> USE DEF TypeOK, Steps, Texts, userVars, Ends
<1>1. CASE Start \/ Exists \/ CreateDirectories
  BY <1>1 DEF Start, Exists, CreateDirectories
<1>2. CASE OpenTmp
  BY <1>2 DEF OpenTmp
<1>3. CASE WriteTmp
  BY <1>3 DEF WriteTmp
<1>4. CASE Rename
  BY <1>4 DEF Rename
<1>5. CASE Load
  <2>1. UNCHANGED << file, tmp, saved, raced, crashes, edits >>
    BY <1>5 DEF Load
  <2>2. CASE pc' = "running"
    <3>1. file # None /\ config' = load(file) /\ text' = file
      BY <1>5, <2>2 DEF Load
    <3>2. config' = load(text')
      BY <3>1, Zenon
    <3> QED  BY <2>1, <2>2, <3>1, <3>2
  <2>3. CASE pc' = "down" /\ text' = None
    BY <2>1, <2>3
  <2>4. pc' = "running" \/ (pc' = "down" /\ text' = None)
    <3> HIDE DEF TypeOK, Texts
    <3> QED  BY <1>5, Zenon DEF Load
  <2> HIDE DEF TypeOK, Steps, Texts, userVars, Ends
  <2> QED  BY <2>2, <2>3, <2>4
<1>6. CASE Run \/ UNCHANGED vars
  BY <1>6 DEF Run, vars
<1>7. CASE Crash
  BY <1>7, StartupAssumption DEF Crash
<1>8. CASE Edit
  BY <1>8, StartupAssumption DEF Edit
<1> QED  BY <1>1, <1>2, <1>3, <1>4, <1>5, <1>6, <1>7, <1>8 DEF Next, Daemon

\* Type correctness; the watcher runs with what the file it loaded says.
THEOREM TypeCorrect == Spec => []TypeOK
<1>1. Init => TypeOK
  <2> SUFFICES ASSUME Init
               PROVE  TypeOK
    OBVIOUS
  <2>1. crashes \in 0 .. MaxCrashes /\ edits \in 0 .. MaxEdits
    BY StartupAssumption DEF Init
  <2>2. pc \in Steps /\ pc # "running"
    BY DEF Init, Steps
  <2> QED  BY <2>1, <2>2, Zenon DEF Init, TypeOK, Texts
<1> QED  BY <1>1, NextTypeOK, PTL DEF Spec

-----------------------------------------------------------------------------
(* What the filter does with the lists of a file.                          *)

\* The watcher runs with what a file that loads says.
LoadedInv == pc = "running" => Loads(text) /\ config = load(text)

LEMMA LoadedInvariance == Spec => []LoadedInv
<1>1. Init => LoadedInv
  BY DEF Init, LoadedInv
<1>2. LoadedInv /\ [Next]_vars => LoadedInv'
  BY DEF LoadedInv, Next, Daemon, Start, Exists, CreateDirectories, OpenTmp,
         WriteTmp, Rename, Load, Run, Crash, Edit, Ends, vars
<1> QED  BY <1>1, <1>2, PTL DEF Spec

LEMMA LoadKeepsLists ==
    ASSUME NEW root, load(root) # LoadFails
    PROVE  LET cfg == load(root) IN
           /\ cfg.include = ValueOr(root, "include", << >>)
           /\ cfg.exclude = ValueOr(root, "exclude", << >>)
           /\ validatePrecedence(cfg)
<1> DEFINE scalars == applyScalars(root, NewConfig)
           lists == applyPatternLists(root, scalars)
           cfg == applyInterfaceOverrides(root, lists)
<1>1. load(root) = cfg /\ validatePrecedence(cfg)
  BY DEF load
<1>2. /\ {"include", "exclude", "interfaces"} \subseteq DOMAIN scalars
      /\ scalars.include = << >>
      /\ scalars.exclude = << >>
  BY DEF applyScalars, With, NewConfig
<1> HIDE DEF scalars
<1>3. /\ {"include", "exclude", "interfaces"} \subseteq DOMAIN lists
      /\ lists.include = ValueOr(root, "include", << >>)
      /\ lists.exclude = ValueOr(root, "exclude", << >>)
  BY <1>2 DEF applyPatternLists, With, ValueOr, Has
<1> HIDE DEF lists
<1>4. cfg.include = lists.include /\ cfg.exclude = lists.exclude
  BY <1>3 DEF applyInterfaceOverrides
<1> QED  BY <1>1, <1>3, <1>4

\* Of a file that loads one list is real at most, and the watcher has both.
LEMMA LoadedLists ==
    ASSUME pc = "running", LoadedInv
    PROVE  /\ config.include = ValueOr(text, "include", << >>)
           /\ config.exclude = ValueOr(text, "exclude", << >>)
           /\ ~(IsReal(config.include) /\ IsReal(config.exclude))
  BY LoadKeepsLists DEF LoadedInv, Loads, validatePrecedence

\* No real list of the user's is passed over, for any file and any patterns.
THEOREM NoListPassedOver == Spec => []RealListsObserved
<1>1. LoadedInv => RealListsObserved
  <2> SUFFICES ASSUME LoadedInv, pc = "running", NEW n \in Name,
                      isEligible(config, n)
               PROVE  PassesRealLists(text, n)
    BY DEF RealListsObserved
  <2>1. IsReal(config.exclude) => config.exclude # << >>
    BY DEF IsReal
  <2> QED  BY <2>1, LoadedLists, Zenon DEF PassesRealLists, isEligible
<1> QED  BY LoadedInvariance, <1>1, PTL

\* The file has ["*"] for its exclude list and no real include list.
ExcludesAllByNoop(root) ==
    /\ isNoopPattern(ValueOr(root, "exclude", << >>))
    /\ ~IsReal(ValueOr(root, "include", << >>))

\* In every other file the real lists decide alone, for any patterns.
THEOREM OnlyTheNoopMisleads ==
    Spec => [](ExcludesAllByNoop(text) \/ PatternsObserved)
<1>1. LoadedInv => ExcludesAllByNoop(text) \/ PatternsObserved
  <2> SUFFICES ASSUME LoadedInv, pc = "running", ~ExcludesAllByNoop(text),
                      NEW n \in Name
               PROVE  isEligible(config, n) <=> PassesRealLists(text, n)
    BY DEF PatternsObserved
  <2>1. CASE IsReal(config.include)
    BY <2>1, LoadedLists, Zenon DEF PassesRealLists, isEligible
  <2>2. CASE ~IsReal(config.include)
    <3>1. ~isNoopPattern(config.exclude)
      BY <2>2, LoadedLists DEF ExcludesAllByNoop
    <3>2. IsReal(config.exclude) <=> config.exclude # << >>
      BY <3>1 DEF IsReal
    <3> QED  BY <2>2, <3>2, LoadedLists, Zenon DEF PassesRealLists, isEligible
  <2> QED  BY <2>1, <2>2
<1> QED  BY LoadedInvariance, <1>1, PTL

-----------------------------------------------------------------------------
(* What becomes of an interface's own settings.                            *)

Overridden(root) == ValueOr(root, "interfaces", << >>)

\* An own setting after load; a label that is missing becomes the name.
LEMMA LoadKeepsOverrides ==
    ASSUME NEW root, load(root) # LoadFails, NEW n, NEW key, NEW default,
           key \in OverrideKeys,
           key # "label" \/ Has(ValueOr(Overridden(root), n, << >>), key)
    PROVE  ValueOr(OverrideOf(load(root), n), key, default)
             = ValueOr(ValueOr(Overridden(root), n, << >>), key, default)
<1> DEFINE lists == applyPatternLists(root, applyScalars(root, NewConfig))
           nodes == Overridden(root)
           cfg == applyInterfaceOverrides(root, lists)
<1>1. load(root) = cfg
  BY DEF load
<1>2. "interfaces" \in DOMAIN lists
  BY DEF applyScalars, applyPatternLists, With, NewConfig
<1> HIDE DEF lists
<1>3. cfg.interfaces = [m \in DOMAIN nodes |-> parseOverride(m, nodes[m])]
  BY <1>2 DEF applyInterfaceOverrides, Overridden
<1> HIDE DEF cfg, nodes
<1>4. CASE n \in DOMAIN nodes
  <2>1. OverrideOf(cfg, n) = parseOverride(n, nodes[n])
    BY <1>3, <1>4 DEF OverrideOf, ValueOr, Has
  <2>3. ValueOr(nodes, n, << >>) = nodes[n]
    BY <1>4 DEF ValueOr, Has
  <2>2. ValueOr(parseOverride(n, nodes[n]), key, default)
          = ValueOr(nodes[n], key, default)
    <3> DEFINE own == nodes[n]
    <3>0. key # "label" \/ Has(own, key)
      BY <2>3 DEF nodes
    <3> HIDE DEF own
    <3>1. ValueOr(parseOverride(n, own), key, default)
            = ValueOr(own, key, default)
      BY <3>0 DEF parseOverride, With, ValueOr, Has, OverrideKeys
    <3> QED  BY <3>1 DEF own
  <2> QED  BY <1>1, <2>1, <2>2, <2>3 DEF nodes
<1>5. CASE n \notin DOMAIN nodes
  <2>1. OverrideOf(cfg, n) = << >> /\ ValueOr(nodes, n, << >>) = << >>
    BY <1>3, <1>5 DEF OverrideOf, ValueOr, Has
  <2> QED  BY <1>1, <2>1 DEF nodes
<1> QED  BY <1>4, <1>5

\* An empty result is the function without a family.
LEMMA EmptyIsAFunction == << >> = [f \in {} |-> f]
  OBVIOUS

LEMMA TargetsAreFunctions ==
    ASSUME NEW dns, NEW target
    PROVE  LET result == resolveTargets(dns, target) IN
           /\ result = [f \in DOMAIN result |-> result[f]]
           /\ DOMAIN result \subseteq Family
<1> DEFINE result == resolveTargets(dns, target)
<1>1. CASE IsLiteral(target)
  BY <1>1 DEF resolveTargets, tryLiteral
<1>2. CASE ~IsLiteral(target) /\ target \in DOMAIN dns
  BY <1>2 DEF resolveTargets, resolveViaDns, collectAddresses
<1>3. CASE ~IsLiteral(target) /\ target \notin DOMAIN dns
  <2>1. result = << >>
    BY <1>3 DEF resolveTargets, resolveViaDns
  <2> QED  BY <2>1, EmptyIsAFunction
<1> QED  BY <1>1, <1>2, <1>3

LEMMA Target6IsAFunction ==
    ASSUME NEW dns, NEW target6
    PROVE  LET extra == Target6(dns, target6) IN
           /\ extra = [f \in DOMAIN extra |-> extra[f]]
           /\ DOMAIN extra \subseteq {"v6"}
<1>1. CASE target6 = ""
  <2>1. Target6(dns, target6) = << >>
    BY <1>1 DEF Target6
  <2> QED  BY <2>1, EmptyIsAFunction
<1>2. CASE target6 # ""
  BY <1>2 DEF Target6
<1> QED  BY <1>1, <1>2

\* What target gave is pinged, and target6 where it gave no IPv6 address.
LEMMA InitialTargets ==
    ASSUME NEW dns, NEW target, NEW target6
    PROVE  LET pinged == resolveInitialTargets(dns, target, target6)
               wanted == resolveTargets(dns, target)
           IN  /\ Only(pinged, DOMAIN wanted) = wanted
               /\ "v6" \notin DOMAIN wanted =>
                    Only(pinged, {"v6"}) = Target6(dns, target6)
<1> DEFINE first == resolveTargets(dns, target)
           second == Target6(dns, target6)
           pinged == Completed(first, second)
<1>1. /\ first = [f \in DOMAIN first |-> first[f]]
      /\ second = [f \in DOMAIN second |-> second[f]]
      /\ DOMAIN second \subseteq {"v6"}
  BY TargetsAreFunctions, Target6IsAFunction
<1> HIDE DEF first, second
<1>2. Only(pinged, DOMAIN first) = first
  BY <1>1 DEF Completed, Only
<1>3. "v6" \notin DOMAIN first => Only(pinged, {"v6"}) = second
  BY <1>1 DEF Completed, Only
<1> QED  BY <1>2, <1>3 DEF resolveInitialTargets, first, second

\* An interface's own target, target6, gateway and label settings reach its
\* tray, for any files, names and answers of the name service.
THEOREM OwnSettingsArrive == Spec => []OwnSettingsReachTray
<1>1. LoadedInv => OwnSettingsReachTray
  <2> SUFFICES ASSUME pc = "running", load(text) # LoadFails,
                      config = load(text), NEW n \in Name, NEW dns \in Resolvers
               PROVE  LET own == ValueOr(Overridden(text), n, << >>)
                          args == TrayArgs(TrayArgv(config, n))
                          pinged == resolveInitialTargets(dns, args.target,
                                                          args.target6)
                          given == resolveTargets(dns, args.target)
                          wanted == IF Has(own, "target")
                                    THEN resolveTargets(dns, own.target)
                                    ELSE << >>
                          wanted6 == IF Has(own, "target6")
                                     THEN resolveTargets(dns, own.target6)
                                     ELSE << >>
                          Gateway(key) == ValueOr(own, key, "")
                      IN  /\ Only(pinged, DOMAIN wanted) = wanted
                          /\ "v6" \notin DOMAIN given =>
                               Only(wanted6, {"v6"}) \in
                                   {<< >>, Only(pinged, {"v6"})}
                          /\ args.override =
                               [v4 |-> Gateway("gateway_ip_override4"),
                                v6 |-> Gateway("gateway_ip_override6")]
                          /\ ValueOr(own, "label", "") \in {"", args.label}
    BY DEF LoadedInv, Loads, OwnSettingsReachTray, Overridden
  <2> DEFINE own == ValueOr(Overridden(text), n, << >>)
             args == TrayArgs(TrayArgv(config, n))
             default6 == ValueOr(config, "default_target6", "")
             Read(key, default) == ValueOr(OverrideOf(config, n), key, default)
  <2>0. ASSUME NEW key, key \in OverrideKeys, NEW default,
               key # "label" \/ Has(own, key)
        PROVE  Read(key, default) = ValueOr(own, key, default)
    BY <2>0, LoadKeepsOverrides
  <2>1. /\ args.target = ValueOr(own, "target", config.default_target)
        /\ args.target6 = ValueOr(own, "target6", default6)
        /\ args.override = [v4 |-> ValueOr(own, "gateway_ip_override4", ""),
                            v6 |-> ValueOr(own, "gateway_ip_override6", "")]
    <3>1. /\ args.target = Read("target", config.default_target)
          /\ args.target6 = Read("target6", default6)
          /\ args.override = [v4 |-> Read("gateway_ip_override4", ""),
                              v6 |-> Read("gateway_ip_override6", "")]
      BY DEF TrayArgs, TrayArgv, resolveTarget, resolveTarget6,
             resolveGatewayIpOverride4, resolveGatewayIpOverride6
    <3> HIDE DEF Read, own, args, default6
    <3>2. {"target", "target6", "gateway_ip_override4", "gateway_ip_override6"}
            \subseteq OverrideKeys \ {"label"}
      BY DEF OverrideKeys
    <3> QED  BY <2>0, <3>1, <3>2
  <2>2. ValueOr(own, "label", "") \in {"", args.label}
    <3>1. args.label = LET label == Read("label", "")
                       IN  IF label = "" THEN n ELSE label
      BY DEF TrayArgs, TrayArgv, resolveLabel
    <3> HIDE DEF Read, own, args
    <3>2. "label" \in OverrideKeys
      BY DEF OverrideKeys
    <3>3. CASE Has(own, "label")
      <4>1. Read("label", "") = ValueOr(own, "label", "")
        BY <2>0, <3>2, <3>3
      <4> QED  BY <3>1, <4>1
    <3>4. CASE ~Has(own, "label")
      BY <3>4 DEF ValueOr
    <3> QED  BY <3>3, <3>4
  <2> HIDE DEF Read, own, args, default6
  <2> DEFINE pinged == resolveInitialTargets(dns, args.target, args.target6)
             given == resolveTargets(dns, args.target)
             wanted == IF Has(own, "target")
                       THEN resolveTargets(dns, own.target) ELSE << >>
             wanted6 == IF Has(own, "target6")
                        THEN resolveTargets(dns, own.target6) ELSE << >>
  <2>3. Only(pinged, DOMAIN wanted) = wanted
    <3>1. CASE Has(own, "target")
      BY <2>1, <3>1, InitialTargets DEF ValueOr
    <3>2. CASE ~Has(own, "target")
      BY <3>2, EmptyIsAFunction DEF Only
    <3> QED  BY <3>1, <3>2
  <2>4. ASSUME "v6" \notin DOMAIN given
        PROVE  Only(wanted6, {"v6"}) \in {<< >>, Only(pinged, {"v6"})}
    <3>1. Only(pinged, {"v6"}) = Target6(dns, args.target6)
      BY <2>4, InitialTargets
    <3>2. CASE Has(own, "target6") /\ own.target6 # ""
      BY <2>1, <3>1, <3>2 DEF ValueOr, Target6, Only
    <3>3. CASE Has(own, "target6") /\ own.target6 = ""
      <4>1. "" \notin DOMAIN dns
        BY TargetAssumption, EmptyIsAFunction DEF Resolvers
      <4>2. ~IsLiteral("")
        BY TargetAssumption DEF IsLiteral
      <4>3. resolveTargets(dns, "") = << >>
        BY <4>1, <4>2 DEF resolveTargets, resolveViaDns
      <4>4. wanted6 = << >>
        BY <3>3, <4>3
      <4> QED  BY <4>4, EmptyIsAFunction DEF Only
    <3>4. CASE ~Has(own, "target6")
      BY <3>4, EmptyIsAFunction DEF Only
    <3> QED  BY <3>2, <3>3, <3>4
  <2> QED  BY <2>1, <2>2, <2>3, <2>4 DEF own, args
<1> QED  BY LoadedInvariance, <1>1, PTL
=============================================================================
