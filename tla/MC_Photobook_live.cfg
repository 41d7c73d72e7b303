CONSTANTS
    f1 = f1
    f2 = f2
    f3 = f3
    None = None
    Files <- MCFiles
    ImageFiles <- MCImageFiles
    MaxReq = 4
SPECIFICATION FairSpec
PROPERTY
    LoadCompletes
CHECK_DEADLOCK FALSE
