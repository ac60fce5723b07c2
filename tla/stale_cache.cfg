\* A file is edited while a session has its old version imported.
SPECIFICATION Spec
CONSTANTS
    a = a
    b = b
    Ids = {a, b}
    Values <- MCValues
    Unreadable <- MCUnreadable
    Unfit <- MCUnfit
    Short <- MCShort
    Cuts <- MCCuts
    Versions = {1, 2}
    Enumerates <- MCEnumerates
    Computes <- MCComputes
    Calls <- MCCalls
    OtherValues <- MCOtherValues
    None = None
    Batch = 2
    Attempts = 2
    HasFile = TRUE
    LiveEdits = TRUE
    MaxEdits = 1
    MaxOthers = 0
    MaxTears = 0
PROPERTY
    StoredByItsFiles
