SPECIFICATION CourseSpec
CHECK_DEADLOCK FALSE
CONSTANTS
    c1 = c1
    c2 = c2
    u1 = u1
    u2 = u2
    s1 = s1
    Idle = Idle
    Sessions = {a, b}
    Entities <- MCEntities
    Level <- MCLevel
    Edited <- MCEdited
    MaxVersions = 2
    MaxDraftLogs = 3
    MaxPublishLogs = 3
    MaxNesting = 0
    FilteredQuerysets = FALSE
INVARIANT
    DigestsSeeAllSessions
SYMMETRY SessionSymmetry
