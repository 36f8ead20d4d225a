\* Two clients publish at the same time.
SPECIFICATION Spec
CONSTANTS
    Clients = {p1, p2}
    Refresher = refresher
    NumCompanies = 1
    NumItems = 1
    Texts = {x}
    Channels = {a}
    NoText = NoText
    NoChannel = NoChannel
    Gone = Gone
    PublicLimit = 1
    Attempts = 3
    BaseEnabled = TRUE
    BaseControl = a
    LegacyChannel = NoChannel
    MaxChanges = 2
    MaxFaults = 0
INVARIANT ChangesArePublished
CHECK_DEADLOCK FALSE
