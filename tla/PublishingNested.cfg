SPECIFICATION Spec
CONSTANTS
    c1 = c1
    c2 = c2
    u1 = u1
    u2 = u2
    s1 = s1
    Entities <- Pair
    Level <- MCLevel
    MaxVersions = 3
    MaxDraftLogs = 2
    MaxPublishLogs = 0
    MaxNesting = 2
    MaxCourseLogs = 0
    FilteredQuerysets = FALSE
INVARIANT
    DraftRowMatchesItsRecord
