SPECIFICATION FairSpec
CONSTANTS
    MaxEvents = 4
    PerPoll = 2
    MaxCuts = 2
PROPERTIES Delivers Arrives StopsForGood
CHECK_DEADLOCK FALSE
