SPECIFICATION FairSpec
CONSTANTS
    root = root
    kid = kid
    other = other
    grandkid = grandkid
    None = None
    Actors = {root, kid, grandkid}
    Parent <- Chain
    Clients = {x, y}
    Kinds = {"stop", "poison", "spawn", "panic"}
    MaxInc = 2
INVARIANTS LiveIsRegistered ChildRecorded ChildrenFirst
PROPERTY WaitEnds
CHECK_DEADLOCK FALSE
