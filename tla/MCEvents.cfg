SPECIFICATION FairSpec
CONSTANTS
    a = a
    b = b
    ha = ha
    ha2 = ha2
    hb = hb
    None = None
    Actors = {a, b}
    Target = b
    Handles = {ha, hb}
    Of <- MCOf
    MaxEvents = 2
    MaxQueue = 3
INVARIANT EventsInOrder
PROPERTIES Quiesces Notified
CHECK_DEADLOCK FALSE
