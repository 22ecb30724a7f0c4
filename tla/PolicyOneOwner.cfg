CONSTANTS
    Content <- MCContent
    AuthFiles <- MCAuthFiles
    Keys <- MCKeys
    Dirs <- MCDirs
    Writes <- MCWrites
    Providers = {}
    SiteID = ""
    Model = {"m1", "m2"}
    Name = {"a", "b"}
    Default = "_default"
    BuiltIn = "builtin"
    None = "-"
    MaxChanges = 2
    MaxSignals = 2
SPECIFICATION Spec
CHECK_DEADLOCK FALSE
INVARIANT OneOwner
