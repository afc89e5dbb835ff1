SPECIFICATION FairListSpec
CONSTANTS
    MaxChanges = 3
    MaxAsked = 2
INVARIANTS  AskedWhenSeen
 
CHECK_DEADLOCK FALSE
