SPECIFICATION Spec
CONSTANTS
    None = None
    Requests = {r1, r2}
    Ids = {i1, i2}
    MaxReplies = 3
INVARIANTS PendingRegistered Attribution ReplyNeverBlocks
CHECK_DEADLOCK FALSE
