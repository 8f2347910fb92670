CONSTANTS
    Workers = {w1, w2}
    Operators = {o1}
    Reconcilers = {c1}
    Budgeted = TRUE
    MaxAttempts = 2
    MaxClaims = 3
    MaxMishaps = 1
SPECIFICATION FairRecoverySpec
INVARIANTS
    RecoveryTypeOK
    SuccessAgrees
    
PROPERTIES
    KeepsRunContract
    KeepsTaskContract
    DeadlineEndsRun
    
