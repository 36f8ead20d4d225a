\* Two processes, whose leases run out, against clients that move and edit.
SPECIFICATION Spec
CONSTANTS
    Owners = {p1, p2}
    Keys = {k1}
    Channels = {a, b}
    Contents = {x, y}
    NoOwner = NoOwner
    NoChannel = NoChannel
    NoContent = NoContent
    MaxMessages = 3
    BatchLimit = 25
    Workers = 4
    Faults = {"lost"}
    MaxFaults = 1
    MaxRevision = 2
SYMMETRY Symmetry
INVARIANT IInv
INVARIANT HealthyIsVerified
INVARIANT RowOwnsItsMessage
PROPERTY ImplementsContract
CHECK_DEADLOCK FALSE
