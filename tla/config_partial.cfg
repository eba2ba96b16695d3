\* A file system that is full at the first start.
SPECIFICATION Spec
CONSTANTS
    Ifindex = {}
    Name = {"eth0", "lo", "veth0", "wg0"}
    Pid = {}
    None = None
    Faults = {"full"}
    Pattern <- MCPattern
    AnyPattern <- MCAnyPattern
    Fnmatch <- MCFnmatch
    Literal <- MCLiteral
    Dns <- MCDns
    Malformed = Malformed
    UserFiles <- MCUserFiles
    MaxCrashes = 1
    MaxEdits = 0
INVARIANTS
    FileIsWhole
