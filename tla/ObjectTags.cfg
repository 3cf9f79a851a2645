SPECIFICATION ObjectTagsSpec
CONSTANTS
    None = None
    Empty = Empty
    Closed = Closed
    FreeText = FreeText
    o1 = o1
    o2 = o2
    va = va
    vb = vb
    ida = ida
    idb = idb
    s1 = s1
    Objects <- MCObjects
    Values <- MCValues
    ExternalIds <- MCExternalIds
    Sessions <- MCSessions
    Requests <- MCRequests
    Files <- MCFiles
    InitialTags <- MCInitialTags
    SingleTag <- MCSingleTag
    TagLimit = 2
    MaxRows = 3
    MaxEdits = 2
SYMMETRY MCSymmetry
INVARIANTS
    ObjectTagsTypeOK
PROPERTIES
    TagObjectSetsTheTags
    ResyncedRowsAgree
    TaxonomyEditsKeepObjectTags
    CopiesAreTheSourcesTags
CHECK_DEADLOCK FALSE
