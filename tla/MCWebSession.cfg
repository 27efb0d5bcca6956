\* One tab, two logins: refusals, late answers, faults and changes elsewhere.
CONSTANTS
    Nobody = Nobody
    Creds = {c1}
    MaxRequests = 2
    MaxTroubles = 1
SPECIFICATION FairSpec
INVARIANTS
    StorageKeepsTheSession
    LoginIsOfOneRequest
PROPERTIES
    RefusedSessionEnds
    RightPasswordGetsIn
CHECK_DEADLOCK FALSE
