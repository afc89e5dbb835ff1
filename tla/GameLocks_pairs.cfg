SPECIFICATION Spec
CONSTANTS
    Requests = {r1, r2}
    Pool = pool
    MaxBusy = 2
INVARIANT ThreePairs
CHECK_DEADLOCK FALSE
