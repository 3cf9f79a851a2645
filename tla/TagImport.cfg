SPECIFICATION ImportSpec
CONSTANTS
    None = None
    va = va
    vb = vb
    vc = vc
    vd = vd
    x = x
    y = y
    z = 4
    w1 = w1
    w2 = w2
    Values <- MCValues
    ExternalIds <- MCExternalIds
    Workers <- MCWorkers
    Files <- MCFiles
    InitialTags <- MCInitialTags
    MaxTasks = 2
    MaxEdits = 1
INVARIANTS
    ImportTypeOK
    UnfinishedTasksHaveWorkers
    ExportsRecreateTheListedTags
PROPERTIES
    ImportsDoWhatTheFileSays
    HierarchyStays
    ImportsAreNotBlockedForever
CHECK_DEADLOCK FALSE
