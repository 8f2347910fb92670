CONSTANTS
    Runs = {r1}
    Threads <- MCThreads
    Subscriptions = {s1}
    Chats = {c1}
    Cases = {k1}
    Viewers = {v1}
    MaxHistory = 8
    QueueSize = 1
    MaxEmits = 1
    MaxDeletes = 0
    MaxExtras = 1
    MaxLates = 0
    MaxCuts = 2
SPECIFICATION FairSpec
INVARIANTS
    TypeOK
    
PROPERTIES
    ViewerSatisfied
    PlaceReleased
CHECK_DEADLOCK FALSE
