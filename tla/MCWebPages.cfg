\* Every page with the smallest sets in which its hazards happen: two requests
\* under way at a time, and one failure, loss or stranger.
CONSTANTS
    Valid = {v1}
    Bad = Bad
    Blank = Blank
    MaxPuts = 2
    MaxTroubles = 1
    Paths = {p1}
    NoPath = NoPath
    Ids = {i1,i2}
    Addresses = {a1,a2}
    Passwords = {w1}
    Empty = Empty
    Rows = {r1,r2}
    MaxCalls = 2
    Channels = {n1}
    ChannelTypes = {shoutrrr,greenapi}
    FirstType = shoutrrr
    Texts = {x1}
    NoText = NoText
    MaxWrites = 1
    MaxFailures = 1
    MaxThemePuts = 2
    MaxThemeLosses = 1
    Lines = {y,z}
    MaxLines = 4
    Domains = {d1}
    Answers = {q1,q2,q3}
SPECIFICATION PagesSpec
INVARIANTS
    PagesTypeOK PagesCatchUp VerdictsAreOfTheForm
    ScheduleInForce RestartReadsAll DiffIsRight RewritesAreSafe
PROPERTIES
    NothingIsLostOnSave BackupIsWhole
CHECK_DEADLOCK FALSE
