\* An exclude list of just "*", beside no real include list.
SPECIFICATION Spec
CONSTANTS
    Ifindex = {}
    Name = {"eth0", "lo", "veth0", "wg0"}
    Pid = {}
    None = None
    Faults = {}
    Pattern <- MCPattern
    AnyPattern <- MCAnyPattern
    Fnmatch <- MCFnmatch
    Literal <- MCLiteral
    Dns <- MCDns
    Malformed = Malformed
    UserFiles <- MCUserFiles
    MaxCrashes = 0
    MaxEdits = 0
INVARIANTS
    PatternsObserved
