SPECIFICATION CourseSpec
CONSTANTS
    c1 = c1
    c2 = c2
    u1 = u1
    s1 = s1
    k1 = k1
    html = html
    video = video
    intro = intro
    unit1 = unit1
    subsection1 = subsection1
    block = block
    image = image
    old_image = old_image
    settings = settings
    lib_key = lib_key
    staged_key = staged_key
    other_key = other_key
    plain_key = plain_key
    StagedKey = staged_key
    BlockXml = block
    Entities <- MCEntities
    EntityOrder <- MCEntityOrder
    Level <- MCLevel
    EntityLists <- MCEntityLists
    CollectionKeys <- MCCollectionKeys
    NameOf <- MCNameOf
    ComponentType <- MCComponentType
    Slug <- MCSlug
    KeyAfter <- MCKeyAfter
    TomlKeys <- MCTomlKeys
    NoData <- MCNoData
    Uploads <- MCUploads
    Losses <- MCLosses
    PackageKeys <- MCPackageKeys
    TakenKeys <- MCTakenKeys
    OrgAndSlug <- MCOrgAndSlug
    MaxEdits = 3
    MaxVersions = 3
    MaxVersionNum = 3
    MaxChildren = 3
    MaxDraftLogs = 4
    MaxPublishLogs = 3
    MaxNesting = 1
    FilteredQuerysets = FALSE
INVARIANTS
    PackageIsRestored
    ContentsAreRestored
    UnpublishedChangesAreRestored
PROPERTIES
    ChangesAreDated
CHECK_DEADLOCK FALSE
