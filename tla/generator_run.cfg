\* Files are edited between sessions; one edit by others, one torn document.
SPECIFICATION FairSpec
CONSTANTS
    a = a
    b = b
    Ids = {a, b}
    Values <- MCValues
    Unreadable <- MCUnreadable
    Unfit <- MCUnfit
    Short <- MCShort
    Cuts <- MCCuts
    Versions = {1, 2}
    Enumerates <- MCEnumerates
    Computes <- MCComputes
    Calls <- MCCalls
    OtherValues <- MCOtherValues
    None = None
    Batch = 2
    Attempts = 2
    HasFile = TRUE
    LiveEdits = FALSE
    MaxEdits = 1
    MaxOthers = 1
    MaxTears = 1
INVARIANTS
    TypeOK
    AppliedIsStored
    PaidOnce
PROPERTIES
    StoredByItsFiles
    ReplacesOnlyAsAsked
    RunEnds
