SPECIFICATION ComponentsSpec
CONSTANTS
    key1 = key1
    key2 = key2
    html = html
    text = text
    d1 = d1
    None = None
    Idle = Idle
    Sessions = {sA, sB}
    Keys <- MCKeys
    MediaTypes = {html, text}
    Data = {d1}
    GuessType <- MCGuessType
    Calls <- MCCalls
    MaxVersionNum = 3
INVARIANTS
    ComponentsTypeOK
    FilesAreThere
PROPERTIES
    AssetsStay
    ImplementsEdits
