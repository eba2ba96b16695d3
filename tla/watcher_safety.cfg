\* Every fault may happen and the receive queue overflows.
SPECIFICATION Spec
CONSTANTS
    Ifindex = {i1, i2}
    Name = {"eth0", "veth0"}
    Pid = {p1, p2}
    None = None
    Faults = {"socket", "dump", "signalfd", "poll", "fork", "exec"}
    Pattern <- MCPattern
    AnyPattern <- MCAnyPattern
    Fnmatch <- MCFnmatch
    FlagSets <- MCFlagSets
    BootLinks <- MCBootLinks
    QueueCapacity = 2
    MaxLinkEvents = 3
    m_cfg <- MCcfg
    MaxWaits = 1
SYMMETRY MCSymmetry
INVARIANTS
    TypeOK
    MapsAgree
    TracksOnlyItsChildren
    NoForgottenChild
    TrayMatchesKnownLink
    Synced
    NoOrphanTray
PROPERTIES
    SupervisesTrays
    StopsHaveCause
