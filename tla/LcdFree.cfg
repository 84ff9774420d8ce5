SPECIFICATION LcdSpec
CONSTANTS
    UserBuffers = {ua, ub}
    KReplaced = 0
INVARIANTS
    NotFreeWhileShown
