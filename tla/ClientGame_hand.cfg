SPECIFICATION FairSpec
CONSTANTS
    Cards = {c1, c2, c3}
    HandSize = 2
    Picks = {1, 2}
    Draws = {0, 1}
    None = None
    MaxEvents = 2
    MaxConfirms = 2
    MaxReloads = 2
    Races = {}
INVARIANTS HandsAgree  
 
CHECK_DEADLOCK FALSE
