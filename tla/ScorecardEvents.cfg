SPECIFICATION FairSpec
CONSTANTS
    d1 = d1  d2 = d2  s1 = s1  s2 = s2
    None = None
    Apps = {d1, d2}
    Services = {s1, s2}
    First <- Same
    Versions = {2, 3}
    Budgets <- Each
INVARIANTS OneConfigPerDeployment HandledMeansCarded
PROPERTIES NeverBackwards EveryAppGetsACard ScoresFollow
CHECK_DEADLOCK FALSE
