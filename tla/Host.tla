-------------------------------- MODULE Host --------------------------------
(***************************************************************************)
(* What the modules of the watcher share: the identifiers the kernel hands *)
(* out and the system calls that may fail.                                 *)
(***************************************************************************)
CONSTANTS Ifindex,   \* interface indexes
          Name,      \* interface names
          Pid,       \* process ids; a reaped pid is handed out again
          None,      \* absence of an entry
          Faults     \* the calls that may fail: see FaultKinds

\* "exec" also stands for a tray that ends without being told to, "full" for
\* a file system that takes only part of a file, or no new one.
FaultKinds == {"socket", "dump", "signalfd", "poll", "fork", "exec", "full"}

ASSUME NoneAssumption == None \notin Ifindex \cup Name \cup Pid

ASSUME FaultsAssumption == Faults \subseteq FaultKinds
=============================================================================
