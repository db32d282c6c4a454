CONSTANTS
    Hosts = {first}
    Reasons = {}
    Timeout = 1
SPECIFICATION FairSpec
PROPERTY ReconnectionEnds
