\* No notification is lost, no call fails, no tray ends by itself.
SPECIFICATION FairSpec
CONSTANTS
    Ifindex = {i1, i2}
    Name = {"eth0", "eth1"}
    Pid = {p1, p2, p3}
    None = None
    Faults = {}
    Pattern <- MCPattern
    AnyPattern <- MCAnyPattern
    Fnmatch <- MCFnmatch
    FlagSets <- MCFlagSets
    BootLinks <- MCBootLinks
    QueueCapacity = 5
    MaxLinkEvents = 2
    m_cfg <- MCcfg
    MaxWaits = 3
INVARIANTS
    OneTrayPerName
    KnownUpHasTray
    DumpLeavesNoGap
    ShutdownReapsAll
    QuietIsRight
PROPERTIES
    Converges
    ShutdownCompletes
    ZombiesReaped
