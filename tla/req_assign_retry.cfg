\* A message created, moved and edited by three requests.
SPECIFICATION Spec
CONSTANTS
    Requests = {r1, r2, r3}
    IdemKeys = {i1, i2, i3}
    Handlers = {h1, h2}
    Keys = {k1}
    Channels = {a}
    Contents = {x, y}
    NoChannel = NoChannel
    NoContent = NoContent
    MaxSends = 2
SYMMETRY Symmetry
PROPERTY RetryReturnsResult
CHECK_DEADLOCK FALSE
