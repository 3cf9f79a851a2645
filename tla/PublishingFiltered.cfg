SPECIFICATION Spec
CONSTANTS
    c1 = c1
    c2 = c2
    u1 = u1
    u2 = u2
    s1 = s1
    Entities <- Pair
    Level <- MCLevel
    MaxVersions = 1
    MaxDraftLogs = 2
    MaxPublishLogs = 1
    MaxNesting = 0
    MaxCourseLogs = 0
    FilteredQuerysets = TRUE
PROPERTY
    PublishCoversDependencies
