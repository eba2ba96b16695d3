\* Both protocols: calls fail, answers get lost or come late, other traffic.
SPECIFICATION Spec
CONSTANTS
    None = None
    FailStreakForGatewayCheck = 2
    FailStreakForSocketRecreate = 2
    LocalAddressRecheckTicks = 1
    MaxFailStreak = 4
    TrayIfindex = {"if1", "if2"}
    Worlds <- MCTwoProtocols
    Targets = {"host"}
    Literal <- MCLiteral
    Dns <- MCDns
    GatewayOverrides = {"", "none"}
    NetFaults = {"send", "socket", "getifaddrs", "late", "foreign"}
    RxCapacity = 1
INVARIANTS
    TypeOK
    DisplayFresh
    GatewayIsCurrent
    GatewayIsOurs
    IconAgreesWithTooltip
PROPERTIES
    RedOnlyAfterWarning
    TicksAreRounds
