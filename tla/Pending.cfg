SPECIFICATION FairSpec
CONSTANTS
    A = A
    P = P
    Q = Q
    good = good
    bad = bad
    NChanges = 3
    Configs <- OneConfig
    Fields <- OneField
    Values <- MCValues
    Malformed <- MCMalformed
    Numeric <- MCNumeric
    Ops = {P, Q}
    Main = P
    OldestFirst = TRUE
    Budget <- Everything
CHECK_DEADLOCK FALSE
INVARIANT AppliedMeansPatched
PROPERTY EverySettled
INVARIANT NewestWins
PROPERTY SettledIsOver
PROPERTY WrittenOnce
