\* Presses and messages against refreshes; two operations or failures.
SPECIFICATION HandlersSpec
CONSTANTS
    Ordinary = 1
    Texts = {x}
    NoChannel = NoChannel
    NoContent = NoContent
    MaxChannels = 2
    MaxWarnings = 0
    MaxBoards = 2
    MaxEvents = 2
    Members = {m}
    Bot = Bot
INVARIANT HandlersInv
INVARIANT StaleNeverVerifies
INVARIANT GrantsAreConfigured
INVARIANT DisabledBansNobody
CHECK_DEADLOCK FALSE
