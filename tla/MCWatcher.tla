----------------------------- MODULE MCWatcher ------------------------------
(***************************************************************************)
(* Small instances of Watcher.  "veth0" is a name the filter excludes.     *)
(***************************************************************************)
EXTENDS Watcher, TLC

MCAnyPattern == "*"

MCPattern == {"*", "veth*"}

MCFnmatch == {<<"*", n>> : n \in Name} \cup ({<<"veth*", "veth0">>} \cap (Pattern \X Name))

MCcfg == [include        |-> << >>,
          exclude        |-> << "veth*" >>,
          default_target |-> "1.1.1.1",
          interfaces     |-> << >>]

\* With carrier, and administratively up with the cable out.
MCFlagSets == {{"UP", "RUNNING", "LOWER_UP"}, {"UP"}}

MCBootLinks == LinkTables

\* Every link is up.
MCAllUp ==
    {table \in LinkTables :
        \A i \in Ifindex : table[i] # None /\ isOperationallyUp(table[i].flags)}

MCSymmetry == Permutations(Ifindex) \cup Permutations(Pid)
=============================================================================
