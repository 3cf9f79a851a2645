SPECIFICATION CourseSpec
CONSTANTS
    c1 = c1
    c2 = c2
    u1 = u1
    s1 = s1
    Entities <- MCEntities
    Level <- MCLevel
    EntityLists <- MCEntityLists
    MaxVersions = 2
    MaxVersionNum = 2
    MaxChildren = 6
    MaxDraftLogs = 3
    MaxPublishLogs = 2
    MaxNesting = 0
    FilteredQuerysets = FALSE
INVARIANTS
    ContainersTypeOK
    NextVersionNumIsFree
    NoUnpublishedChangesMeansSameContents
    UsersAreTold
PROPERTIES
    PastContentsStay
    AppendAndRemoveKeepTheRest
