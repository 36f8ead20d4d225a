\* One process under every kind of fault.  No symmetry: two properties are temporal.
SPECIFICATION FairSpec
CONSTANTS
    Owners = {p1}
    Keys = {k1}
    Channels = {a, b}
    Contents = {x, y}
    NoOwner = NoOwner
    NoChannel = NoChannel
    NoContent = NoContent
    MaxMessages = 4
    BatchLimit = 25
    Workers = 4
    Faults = {"call", "lost", "mangle", "cleanup", "external", "db", "crash"}
    MaxFaults = 2
    MaxRevision = 2
INVARIANT CleanupSparesStored
INVARIANT OrphansNeedFaults
PROPERTY Converges
PROPERTY RepairEnds
CHECK_DEADLOCK FALSE
