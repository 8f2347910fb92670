CONSTANTS
    Calls = {k1, k2, k3}
    Attempts = {a1}
    MaxLlmCalls = 2
    MaxTokens = 2
    MaxTaskAttempts = 1
    Unmetered = Unmetered
    TokenCounts = {1, 2}
SPECIFICATION Spec
CHECK_DEADLOCK FALSE
INVARIANTS
    TypeOK
    NoCallUncounted
    LedgerMatchesCounters
    
