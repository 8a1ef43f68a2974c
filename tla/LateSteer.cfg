\* A steering request that arrives after its own message was started.
CONSTANTS
    c1 = c1
    c2 = c2
    Chats <- MCOneChat
    MaxMessages = 1
    MaxQueued = 1
SPECIFICATION Spec
INVARIANT SteerSparesOwnTurn
CHECK_DEADLOCK FALSE
