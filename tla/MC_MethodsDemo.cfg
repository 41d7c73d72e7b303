CONSTANTS
    f1 = f1
    f2 = f2
    f3 = f3
    None = None
    Files <- MCFiles
    MaxReq = 5
SPECIFICATION FairSpec
INVARIANTS
    TypeOK
    NoDuplicateRows
    EmptyIndicatorAccurate
    DeletedStatusTrue
PROPERTY
    LoadSettles
    ShowsStoreLists
CHECK_DEADLOCK FALSE
