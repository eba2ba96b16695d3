------------------------------ MODULE Startup -------------------------------
(***************************************************************************)
(* How the watcher comes up (main.cpp, config.cpp): it writes the default  *)
(* configuration if there is none, loads the file and runs with it.  The   *)
(* process may end at any step and is started again by systemd             *)
(* (conwatch.service: Restart=on-failure); meanwhile the user edits the    *)
(* file.                                                                   *)
(*                                                                         *)
(* A file holds a YAML map or is Malformed, which stands for every text    *)
(* yaml-cpp throws on.  A file with no entry yet is << >>.                 *)
(***************************************************************************)
EXTENDS Config, TraySetup

CONSTANTS Malformed,
          UserFiles,   \* the files the user may save
          MaxCrashes,  \* bound on the times the process is ended from outside
          MaxEdits     \* bound on what the user does to the file

VARIABLES
    pc,       \* where the process is: see Steps
    file,     \* config.yaml, None if there is none
    tmp,      \* config.yaml.tmp
    config,   \* the Config the watcher runs with
    text,     \* the file it was loaded from
    saved,    \* the last file the user saved, None if deleted since
    raced,    \* that was between ensureExists' test and its rename
    crashes, edits

userVars == << saved, raced, edits >>

vars == << pc, file, tmp, config, text, saved, raced, crashes, edits >>

-----------------------------------------------------------------------------
\* "down" is also between an end of the process and its next start.
Steps == {"down", "exists", "mkdir", "open", "write", "rename", "load",
          "running"}

Empty == << >>

\* DefaultConfigYaml.
DefaultRoot ==
    [default_target |-> "1.1.1.1",
     include        |-> << >>,
     exclude        |-> << "lo", "docker*", "podman*", "virbr*", "veth*",
                           "br-*" >>,
     interfaces     |-> << >>]

DefaultKeys == << "default_target", "include", "exclude", "interfaces" >>

Only(root, keys) == [key \in keys \cap DOMAIN root |-> root[key]]

FirstKeys(n) == {DefaultKeys[k] : k \in 1 .. n}

\* What the start of DefaultConfigYaml reads as: its first keys, the last of
\* which may be a shorter list.
CutRoots ==
    {Malformed}
        \cup {Only(DefaultRoot, FirstKeys(n)) : n \in 0 .. 3}
        \cup {[Only(DefaultRoot, FirstKeys(3)) EXCEPT
                  !.exclude = SubSeq(@, 1, n)] : n \in 0 .. 5}

Texts == {Malformed, Empty, DefaultRoot} \cup CutRoots \cup UserFiles

ASSUME StartupAssumption ==
    /\ None \notin Texts
    /\ MaxCrashes \in Nat
    /\ MaxEdits \in Nat

Loads(root) == root # Malformed /\ load(root) # LoadFails

TypeOK ==
    /\ pc \in Steps
    /\ file \in Texts \cup {None}
    /\ tmp \in Texts \cup {None}
    /\ text \in Texts \cup {None}
    /\ saved \in UserFiles \cup {None}
    /\ raced \in BOOLEAN
    /\ crashes \in 0 .. MaxCrashes
    /\ edits \in 0 .. MaxEdits
    /\ pc = "running" => config = load(text)

Init ==
    /\ pc = "down"
    /\ file \in UserFiles \cup {None}
    /\ saved = file
    /\ raced = FALSE
    /\ tmp = None
    /\ config = None
    /\ text = None
    /\ crashes = 0
    /\ edits = 0

-----------------------------------------------------------------------------
(* The process.                                                            *)

Ends ==
    /\ pc' = "down"
    /\ config' = None
    /\ text' = None

\* After RestartSec, any number of times.
Start ==
    /\ pc = "down"
    /\ pc' = "exists"
    /\ UNCHANGED << file, tmp, config, text, crashes, userVars >>

\* Mutant: the default is written whatever is there.
Exists_Ignored ==
    /\ pc = "exists"
    /\ pc' = "mkdir"
    /\ UNCHANGED << file, tmp, config, text, crashes, userVars >>

Exists ==
    /\ pc = "exists"
    /\ pc' = IF file # None THEN "load" ELSE "mkdir"
    /\ UNCHANGED << file, tmp, config, text, crashes, userVars >>

\* Throws if the directory is missing, which it is not while something is in
\* it, and cannot be made.
CreateDirectories ==
    /\ pc = "mkdir"
    /\ \/ pc' = "open" /\ UNCHANGED << config, text >>
       \/ file = None /\ tmp = None /\ "full" \in Faults /\ Ends
    /\ UNCHANGED << file, tmp, crashes, userVars >>

\* Mutant: a temporary file that was left behind is an error.
OpenTmp_Exclusive ==
    /\ pc = "open"
    /\ IF tmp = None
       THEN pc' = "write" /\ tmp' = Empty /\ UNCHANGED << config, text >>
       ELSE Ends /\ UNCHANGED tmp
    /\ UNCHANGED << file, crashes, userVars >>

\* Nobody asks the stream whether it could be opened.
OpenTmp ==
    /\ pc = "open"
    /\ pc' = "write"
    /\ \/ tmp' = Empty
       \/ tmp = None /\ "full" \in Faults /\ UNCHANGED tmp
    /\ UNCHANGED << file, config, text, crashes, userVars >>

\* Mutant: the stream is still open, and its buffer unwritten, at the rename.
WriteTmp_Unflushed ==
    /\ pc = "write"
    /\ pc' = "rename"
    /\ UNCHANGED << file, tmp, config, text, crashes, userVars >>

\* The stream's destructor writes the buffer, and ignores how that ends.
WriteTmp ==
    /\ pc = "write"
    /\ pc' = "rename"
    /\ tmp' \in IF tmp = None THEN {None}
                ELSE {DefaultRoot}
                        \cup {cut \in CutRoots : "full" \in Faults}
    /\ UNCHANGED << file, config, text, crashes, userVars >>

\* fs::rename throws if there is no temporary file.
Rename ==
    /\ pc = "rename"
    /\ IF tmp = None
       THEN Ends /\ UNCHANGED << file, tmp >>
       ELSE /\ file' = tmp
            /\ tmp' = None
            /\ pc' = "load"
            /\ UNCHANGED << config, text >>
    /\ UNCHANGED << crashes, userVars >>

\* Mutant: the configuration is checked and not handed to the watcher.
Load_Discarded ==
    /\ pc = "load"
    /\ IF file # None /\ Loads(file)
       THEN pc' = "running" /\ config' = NewConfig /\ text' = file
       ELSE Ends
    /\ UNCHANGED << file, tmp, crashes, userVars >>

\* loadConfig throws without a file and on a malformed one.
Load ==
    /\ pc = "load"
    /\ IF file # None /\ Loads(file)
       THEN pc' = "running" /\ config' = load(file) /\ text' = file
       ELSE Ends
    /\ UNCHANGED << file, tmp, crashes, userVars >>

\* Watcher::run, the subject of module Watcher.
Run ==
    /\ pc = "running"
    /\ UNCHANGED vars

\* Killed, or restarted by the user to apply changes.
Crash ==
    /\ pc # "down"
    /\ crashes < MaxCrashes
    /\ crashes' = crashes + 1
    /\ Ends
    /\ UNCHANGED << file, tmp, userVars >>

-----------------------------------------------------------------------------
(* The user saves the file, in one step, or deletes it.                    *)

Edit ==
    /\ edits < MaxEdits
    /\ edits' = edits + 1
    /\ file' \in UserFiles \cup {None}
    /\ saved' = file'
    /\ raced' = (pc \in {"mkdir", "open", "write", "rename"})
    /\ UNCHANGED << pc, tmp, config, text, crashes >>

-----------------------------------------------------------------------------
Daemon ==
    \/ Start \/ Exists \/ CreateDirectories
    \/ OpenTmp \/ WriteTmp \/ Rename
    \/ Load \/ Run

Next == Daemon \/ Crash \/ Edit

Spec == Init /\ [][Next]_vars

\* systemd starts the process again, and the process takes its steps.
FairSpec == Spec /\ WF_vars(Daemon)

-----------------------------------------------------------------------------
(* Properties.                                                             *)

\* config.yaml is never half written, wherever the process is ended: it is a
\* file of the user's or the whole default (config.hpp:32, writeDefaultConfig).
FileIsWhole == file \in {None, DefaultRoot} \cup UserFiles

\* What the user saved stays, over any number of restarts and leftovers of
\* earlier ones, unless it was saved between ensureExists' test and its rename.
UserFileKept == saved # None /\ ~raced => file = saved

\* The name is on the include list and not on the exclude list of the file, as
\* far as these are real: one that is empty or ["*"] counts for nothing
\* (config_load.cpp:109-112, config.hpp:36-38).
PassesRealLists(root, name) ==
    LET include == ValueOr(root, "include", << >>)
        exclude == ValueOr(root, "exclude", << >>)
    IN  /\ IsReal(include) => matchesAny(include, name)
        /\ IsReal(exclude) => ~matchesAny(exclude, name)

\* No real list is passed over: whatever is monitored passes those of the file
\* that was loaded, of which validatePrecedence lets one be, and isEligible
\* must choose that one (README.md:165-183).
RealListsObserved ==
    pc = "running" =>
        \A n \in Name : isEligible(config, n) => PassesRealLists(text, n)

\* The real lists decide alone: an interface is monitored if and only if it
\* passes them, and every one is if neither list is real.  The error message of
\* validatePrecedence tells the user to set the other list to ["*"].
PatternsObserved ==
    pc = "running" =>
        \A n \in Name : isEligible(config, n) <=> PassesRealLists(text, n)

\* An interface's own settings are what its tray works with, past the defaults
\* and on the way through the argument vector: its target is pinged, its
\* target6 where the target, its own or the default, gave no IPv6 address, its
\* gateway setting is that protocol's, and its label is shown
\* (README.md:185-246; config_resolve.cpp, the two main.cpp).
OwnSettingsReachTray ==
    pc = "running" =>
        \A n \in Name : \A dns \in Resolvers :
            LET own == ValueOr(ValueOr(text, "interfaces", << >>), n, << >>)
                args == TrayArgs(TrayArgv(config, n))
                pinged == resolveInitialTargets(dns, args.target, args.target6)
                given == resolveTargets(dns, args.target)
                wanted == IF Has(own, "target")
                          THEN resolveTargets(dns, own.target) ELSE << >>
                wanted6 == IF Has(own, "target6")
                           THEN resolveTargets(dns, own.target6) ELSE << >>
                Gateway(key) == ValueOr(own, key, "")
            IN  /\ Only(pinged, DOMAIN wanted) = wanted
                /\ "v6" \notin DOMAIN given =>
                       Only(wanted6, {"v6"}) \in {<< >>, Only(pinged, {"v6"})}
                /\ args.override = [v4 |-> Gateway("gateway_ip_override4"),
                                    v6 |-> Gateway("gateway_ip_override6")]
                /\ ValueOr(own, "label", "") \in {"", args.label}

\* Wherever earlier starts were ended and whatever they left behind, the
\* watcher ends up running, unless the user's file cannot be used.
StartsEventually ==
    <>[](pc = "running" \/ (file # None /\ ~Loads(file)))
=============================================================================
