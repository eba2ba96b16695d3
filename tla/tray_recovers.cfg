\* One protocol over an interface that is renumbered and cut off.
SPECIFICATION FairSpec
CONSTANTS
    None = None
    FailStreakForGatewayCheck = 3
    FailStreakForSocketRecreate = 2
    LocalAddressRecheckTicks = 1
    MaxFailStreak = 5
    TrayIfindex = {"if1", "if2"}
    Worlds <- MCOneProtocol
    Targets = {"1.1.1.1", "2606::1", "host"}
    Literal <- MCLiteral
    Dns <- MCDns
    GatewayOverrides = {"", "None", "garbage"}
    NetFaults = {}
    RxCapacity = 1
INVARIANTS
    SkippedWithoutAddress
PROPERTIES
    Recovers
    OutageShown
    UpstreamOutageShown
