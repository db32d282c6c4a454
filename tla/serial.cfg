CONSTANTS
    Ports = {1, 2}
    NoPort = 0
    Lengths <- MCLengths
    Chunk = 1
    Timers <- MCTimers
    MaxBytes <- MCMaxBytes
    MaxRequests = 3
    Uses <- MCUses
    OneAtATime = TRUE
    CloseQuiet = TRUE
SPECIFICATION FairSpec

    
PROPERTIES
    EventFirst
    ReadAnswered
