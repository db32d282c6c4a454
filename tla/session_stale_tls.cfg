SPECIFICATION FairSpec
CONSTANTS
    Hosts = {first}
    Reasons = {}
    Timeout = 1
INVARIANT RequestOnOwnSocket
