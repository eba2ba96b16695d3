\* The receive queue overflows.
SPECIFICATION FairSpec
CONSTANTS
    Ifindex = {i1}
    Name = {"eth0", "veth0"}
    Pid = {p1, p2}
    None = None
    Faults = {}
    Pattern <- MCPattern
    AnyPattern <- MCAnyPattern
    Fnmatch <- MCFnmatch
    FlagSets <- MCFlagSets
    BootLinks <- MCBootLinks
    QueueCapacity = 1
    MaxLinkEvents = 3
    m_cfg <- MCcfg
    MaxWaits = 2
PROPERTIES
    Converges
