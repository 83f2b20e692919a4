SPECIFICATION Spec
CONSTANTS
    Samples <- MCSamples
    Damaged <- MCDamaged
    Registered <- MCRegistered
    MaxMessages = 3
    Cuts = {0, 1, 3}
INVARIANTS MergesInto Reencodes EqualIsSameBytes Advances
CHECK_DEADLOCK FALSE
