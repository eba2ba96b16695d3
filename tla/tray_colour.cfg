\* Blue is shown over yellow.
SPECIFICATION Spec
CONSTANTS
    None = None
    FailStreakForGatewayCheck = 2
    FailStreakForSocketRecreate = 2
    LocalAddressRecheckTicks = 1
    MaxFailStreak = 4
    TrayIfindex = {"if1", "if2"}
    Worlds <- MCTwoProtocols
    Targets = {"host"}
    Literal <- MCLiteral
    Dns <- MCDns
    GatewayOverrides = {""}
    NetFaults = {}
    RxCapacity = 1
INVARIANTS
    ColourAsDocumented
