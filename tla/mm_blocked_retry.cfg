\* A row blocked by one refused call.
SPECIFICATION FairSpec
CONSTANTS
    Owners = {p1}
    Keys = {k1}
    Channels = {a}
    Contents = {x}
    NoOwner = NoOwner
    NoChannel = NoChannel
    NoContent = NoContent
    MaxMessages = 2
    BatchLimit = 25
    Workers = 4
    Faults = {"call"}
    MaxFaults = 1
    MaxRevision = 1
PROPERTY BlockedIsRetried
CHECK_DEADLOCK FALSE
