SPECIFICATION Spec
CONSTANTS
    q1 = q1
    q2 = q2
    q3 = q3
    q4 = q4
    first = first
    none = none
    Requests <- FourRequests
    MaxLoginAttempts = 2
SYMMETRY RequestSymmetry
INVARIANTS
    TokenWorksOnce
    ResetEndsOldSessions
    SecondFactorIsHeld
    OneAccountPerIdentity
CHECK_DEADLOCK FALSE
