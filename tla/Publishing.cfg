SPECIFICATION CourseSpec
CONSTANTS
    c1 = c1
    c2 = c2
    u1 = u1
    u2 = u2
    s1 = s1
    Entities <- Chain
    Level <- MCLevel
    MaxVersions = 2
    MaxDraftLogs = 4
    MaxPublishLogs = 2
    MaxNesting = 1
    MaxCourseLogs = 2
    FilteredQuerysets = FALSE
INVARIANTS
    TypeOK
    DraftHistoryReplays
    PublishHistoryReplays
    DigestsTellUnpublishedChanges
    DraftLogIsExact
    PublishLogIsComplete
PROPERTIES
    PublishCoversDependencies
    ResetDiscardsEverything
    ImplementsReleases
