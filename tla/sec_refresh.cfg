\* Two events: operations of clients, failures or deeds of moderators.
SPECIFICATION Spec
CONSTANTS
    Ordinary = 1
    Texts = {x, y}
    NoChannel = NoChannel
    NoContent = NoContent
    MaxChannels = 4
    MaxWarnings = 6
    MaxBoards = 0
    MaxEvents = 2
INVARIANT ArmedIsAssigned
 
PROPERTY UserTextIsKept
PROPERTY TrapConverges
PROPERTY VerificationConverges
CHECK_DEADLOCK FALSE
