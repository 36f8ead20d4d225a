\* Two rows, one worker, batches of one row, and one failure.
SPECIFICATION Spec
CONSTANTS
    Rows = {r1, r2}
    BatchLimit = 1
    Workers = 1
    MaxFaults = 1
INVARIANT IInv
PROPERTY PoolClosesLast
PROPERTY StopsInTheEnd
PROPERTY DueIsClaimed
CHECK_DEADLOCK FALSE
