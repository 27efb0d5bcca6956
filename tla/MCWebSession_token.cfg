\* A token is generated in a tab that has not logged in.
CONSTANTS
    Nobody = Nobody
    Creds = {c1}
    MaxRequests = 2
    MaxTroubles = 0
SPECIFICATION Spec
PROPERTIES
    TokenIsShown
CHECK_DEADLOCK FALSE
