CONSTANTS
    Tasks = {t1}
    Workers = {w1, w2}
    MaxAttempts = 2
    MaxMishaps = 3
SPECIFICATION FairSpec
INVARIANTS
    TypeOK
    ResultOfNewestAttempt
    RecoverableInFlight
    OneWriter
    ToldSuccessStands
PROPERTIES
    LiveLeaseHonoured
    ExpiryIsFinal
    KeepsContract
    
