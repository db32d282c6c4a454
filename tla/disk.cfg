CONSTANTS
    Root = root
    Null = Null
    x = x
    y = y
    Names <- MCNames
    Files = {f, g}
    MaxHandles = 2
    MaxWatches = 2
    Opens <- MCOpens
    RenameOver = FALSE
SPECIFICATION FairSpec
CHECK_DEADLOCK FALSE
INVARIANTS
    FilesShared
    
    

    
