CONSTANTS
    Ids = {0, 1}
    CallerIds = {5}
    UserDB <- MCUserDB
    GroupDB <- MCGroupDB
    UnknownName = "nobody"
    Binaries = {"static", "dynamic", "notelf", "noexec"}
    Opts <- CheckedOpts
    MaxOpts = 4
SPECIFICATION Spec
PROPERTY RejectsOnlyWithoutMountNamespace
