SPECIFICATION Spec
CONSTANTS
    Games = {g1, g2}
    None = None
    MaxInFlight = 2
INVARIANTS Agrees OneView OnePoll SetsKnown
CHECK_DEADLOCK FALSE
