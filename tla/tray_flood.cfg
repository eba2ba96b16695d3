\* Other ICMP traffic keeps a receive from timing out.
SPECIFICATION FairSpec
CONSTANTS
    None = None
    FailStreakForGatewayCheck = 2
    FailStreakForSocketRecreate = 2
    LocalAddressRecheckTicks = 1
    MaxFailStreak = 4
    TrayIfindex = {"if1", "if2"}
    Worlds <- MCOneProtocol
    Targets = {"1.1.1.1"}
    Literal <- MCLiteral
    Dns <- MCDns
    GatewayOverrides = {""}
    NetFaults = {"foreign"}
    RxCapacity = 1
PROPERTIES
    TickEnds
