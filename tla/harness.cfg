SPECIFICATION FairSpec
CONSTANTS
    Tasks = {"a", "b", "c", "d"}
    Graphs <- MCGraphs
    Reference = {"b"}
    Staged = {"c"}
    MaxConcurrency = 2
    MaxCrashes = 1
    MaxReplans = 2
    MaxRetries = 1
INVARIANTS TypeOK  OnlyApprovedIsActive
PROPERTIES TerminalIsKept NothingStartsWhileWaiting FinishLeavesNothing ApprovedIsActivated
