\* A tray that SIGTERM does not end: only the daemon is scheduled.
SPECIFICATION DaemonFairSpec
CONSTANTS
    Ifindex = {i1}
    Name = {"eth0", "eth1"}
    Pid = {p1, p2}
    None = None
    Faults = {}
    Pattern <- MCPattern
    AnyPattern <- MCAnyPattern
    Fnmatch <- MCFnmatch
    FlagSets <- MCFlagSets
    BootLinks <- MCAllUp
    QueueCapacity = 4
    MaxLinkEvents = 1
    m_cfg <- MCcfg
    MaxWaits = 2
PROPERTIES
    ShutdownCompletes
