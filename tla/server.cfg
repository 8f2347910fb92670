CONSTANTS
    Runs = {r1, r2}
    Threads <- MCThreads
    Subscriptions = {}
    Chats = {c1}
    Cases = {}
    MaxHistory = 8
    QueueSize = 1
    MaxEmits = 1
    MaxDeletes = 1
    MaxExtras = 1
    MaxLates = 1
SPECIFICATION Spec
INVARIANTS
    MgrTypeOK
    OneTerminal
    ClosureCarriedOut
    StatusTellsEvent
    OneReply
    OneTurnPerPlace
    ReservationIsLive
PROPERTIES
    StatusIsFinal
SYMMETRY RunSymmetry
CHECK_DEADLOCK FALSE
