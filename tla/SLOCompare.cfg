SPECIFICATION Spec
CONSTANTS
    c1 = c1  c2 = c2  s1 = s1  s2 = s2
    good = good  better = better  bad = bad
    op1 = op1  op2 = op2
    NoId = NoId
    Services = {s1, s2}
    Configs = {c1, c2}
    Declares <- Shared
    Named <- Namesakes
    Detects = {}
    Contents = {good, better}
    Invalid = {}
    Compared <- Alike
    SloIds = {1, 2}
    Ops = {op1}
    Excluded = {}
    RequireCatalog = TRUE
    IndexLag = FALSE
    MaxGen = 2
    Edited = {c1, c2}
    Budget <- Replacement
INVARIANTS OkMeansInSync
CHECK_DEADLOCK FALSE
