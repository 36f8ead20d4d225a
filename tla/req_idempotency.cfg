\* Three requests, two of them API requests that may share a key, two at a time.
SPECIFICATION Spec
CONSTANTS
    Requests = {r1, r2, r3}
    IdemKeys = {i1, i2}
    Handlers = {h1, h2}
    Keys = {k1}
    Channels = {a, b}
    Contents = {x, y}
    NoChannel = NoChannel
    NoContent = NoContent
    MaxSends = 2
SYMMETRY Symmetry
INVARIANT IInv
INVARIANT AppliedAtMostOnce
INVARIANT OneWinner
INVARIANT AnswersAgree
INVARIANT AnswersFit
PROPERTY AssignmentKeepsContent
CHECK_DEADLOCK FALSE
