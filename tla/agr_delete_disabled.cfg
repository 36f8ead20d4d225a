\* A company deleted while agreements are disabled.
SPECIFICATION Spec
CONSTANTS
    Clients = {p1}
    Refresher = refresher
    NumCompanies = 1
    NumItems = 1
    Texts = {x}
    Channels = {a}
    NoText = NoText
    NoChannel = NoChannel
    Gone = Gone
    PublicLimit = 1
    Attempts = 3
    BaseEnabled = TRUE
    BaseControl = a
    LegacyChannel = NoChannel
    MaxChanges = 3
    MaxFaults = 0
INVARIANT DeletedIsArchived
CHECK_DEADLOCK FALSE
