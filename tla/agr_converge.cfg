\* One client and the refresh job, one operation cut short or one restart.
SPECIFICATION FairSpec
CONSTANTS
    Clients = {p1}
    Refresher = refresher
    NumCompanies = 1
    NumItems = 1
    Texts = {x}
    Channels = {a}
    NoText = NoText
    NoChannel = NoChannel
    Gone = Gone
    PublicLimit = 1
    Attempts = 3
    BaseEnabled = TRUE
    BaseControl = NoChannel
    LegacyChannel = a
    MaxChanges = 4
    MaxFaults = 1
INVARIANT IInv
PROPERTY ConfigConverges
PROPERTY PanelsConverge
CHECK_DEADLOCK FALSE
