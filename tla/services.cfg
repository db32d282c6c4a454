CONSTANTS
    Handles = {1, 2}
    MaxRequests = 3
    MaxConnections = 2
    Programs = {p1, p2, p3}
    Unix = TRUE
    Paths = {"a", "b"}
    Files = {f}
    Directories = {d}
    Nothing = Nothing
    Fds = {3, 4}
    Openings <- MCOpenings
    MaxWatches = 1
    OneWatch = TRUE
    Rates = {230400}
    Lines <- MCLines
    Flows <- MCFlows
    Characters <- MCCharacters
    Timeouts <- MCTimeouts
    Found <- MCFound
    Takes <- MCTakes
    Signals = {"DTR"}
SPECIFICATION ServicesSpec
INVARIANTS
    
    
    LineAsAsked

    
    
    
CHECK_DEADLOCK FALSE
