SPECIFICATION Spec
CONSTANTS
    c1 = c1  c2 = c2  s1 = s1  s2 = s2
    good = good  better = better  bad = bad
    op1 = op1  op2 = op2
    NoId = NoId
    Services = {s1, s2}
    Configs = {c1, c2}
    Declares <- Exclusive
    Named <- Unshared
    Detects = {}
    Contents = {good}
    Invalid = {}
    Compared <- Distinguished
    SloIds = {1, 2, 3}
    Ops = {op1}
    Excluded = {}
    RequireCatalog = FALSE
    IndexLag = TRUE
    MaxGen = 1
    Edited = {c1, c2}
    Budget <- Unreliable
INVARIANTS StatusRefersToOwnSLO
CHECK_DEADLOCK FALSE
