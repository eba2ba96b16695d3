\* Ended and started again while the user edits the file.
SPECIFICATION FairSpec
CONSTANTS
    Ifindex = {}
    Name = {"eth0", "lo", "veth0", "wg0"}
    Pid = {}
    None = None
    Faults = {}
    Pattern <- MCPattern
    AnyPattern <- MCAnyPattern
    Fnmatch <- MCFnmatch
    Literal <- MCLiteral
    Dns <- MCDns
    Malformed = Malformed
    UserFiles <- MCUserFiles
    MaxCrashes = 3
    MaxEdits = 2
INVARIANTS
    TypeOK
    FileIsWhole
    UserFileKept
    RealListsObserved
    OwnSettingsReachTray
PROPERTIES
    StartsEventually
