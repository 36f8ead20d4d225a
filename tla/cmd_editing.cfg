\* Bodies of every form, the security job, exports sent back late, and archives.
SPECIFICATION Spec
CONSTANTS
    Users = {u1, u2}
    NoUser = NoUser
    Strings <- MCStrings
    MaxText = 2
    MaxComponents = 8
    Bodies <- MCBodies
    MaxAsked = 2
    PendingLimit = 1
    MaxRevision = 4
INVARIANT IInv
INVARIANT ContentSurvives
INVARIANT ButtonIsUnique
INVARIANT RoomIsEnough
INVARIANT EchoIsRecognised
INVARIANT PreviewIsInert
INVARIANT RefusedOnlyWhenFull
PROPERTY RefreshSettles
PROPERTY FateIsFinal
CHECK_DEADLOCK FALSE
