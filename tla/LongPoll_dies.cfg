SPECIFICATION Spec
CONSTANTS
    MaxEvents = 4
    PerPoll = 2
    MaxCuts = 1
INVARIANT NoPollDies
CHECK_DEADLOCK FALSE
