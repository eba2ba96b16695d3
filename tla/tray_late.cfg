\* A late reply of the gateway passes for one of the target.
SPECIFICATION Spec
CONSTANTS
    None = None
    FailStreakForGatewayCheck = 2
    FailStreakForSocketRecreate = 3
    LocalAddressRecheckTicks = 1
    MaxFailStreak = 5
    TrayIfindex = {"if1", "if2"}
    Worlds <- MCOneProtocol
    Targets = {"1.1.1.1"}
    Literal <- MCLiteral
    Dns <- MCDns
    GatewayOverrides = {""}
    NetFaults = {"late"}
    RxCapacity = 1
PROPERTIES
    AnswerIsTheTargets
