SPECIFICATION FairSpec
CONSTANTS
    Clients = {c1}
    Nicks = {n1, n2}
    Ids = {1, 2}
    Threads = {1, 2}
    None = None
INVARIANTS MapAgrees AnnouncedRight
PROPERTY OutMeansOver
CHECK_DEADLOCK FALSE
