SPECIFICATION FairSpec
CONSTANTS
    None = None
    Starts = {s1, s2}
    Stops = {c1, c2}
    Sends = {m1, m2}
INVARIANTS StartedOnce StopCloses
PROPERTIES StopReturns SendsRouted
CHECK_DEADLOCK FALSE
