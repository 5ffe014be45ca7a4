SPECIFICATION ScoringSpec
CONSTANTS
    Absent = Absent
    Workloads <- JustDocumented
    Files <- JustAbsent
    CacheTTL = 2
    Duration = 1
    MaxClock = 3
    MaxEdits = 1
CHECK_DEADLOCK FALSE
INVARIANT PresenceCounts
