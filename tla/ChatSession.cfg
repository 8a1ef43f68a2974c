\* Two chat requests, two queued messages, a stop and a compression.
CONSTANTS
    c1 = c1
    c2 = c2
    Chats <- MCChats
    MaxMessages = 2
    MaxQueued = 2
SPECIFICATION FairSpec
INVARIANTS
    OneTurnAtATime
    QueueOrdered
    NoMessageLost
    StoppedQueueStaysEmpty
    SteerReachesRunner
PROPERTIES
    StopEndsDriver
CHECK_DEADLOCK FALSE
