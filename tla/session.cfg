CONSTANTS
    Hosts <- MCHosts
    Reasons <- MCReasons
    Timeout = 1
SPECIFICATION FairSpec
INVARIANTS
    SecurityHeaderAgreement
    
    ProtectedOnce
    RedirectFollowed
