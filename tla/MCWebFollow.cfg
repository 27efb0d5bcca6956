\* Two runs, so that one can follow the other between two polls, and one lost
\* request; two clicks, so that one comes after the configuration of the other
\* was sent, and two loads, so that one arrives after the edits of the other.
CONSTANTS
    MaxRuns = 2
    MaxLost = 1
    Types = {rewrite,dhcp}
    Dhcp = dhcp
    MaxToggles = 2
    MaxLoads = 2
    MaxSends = 2
    MaxMisses = 1
SPECIFICATION FollowSpec
INVARIANTS
    HistoryCoversNotices PanelAgrees
PROPERTIES
    SeenRunReachesHistory EditReachesServer OnlyWhatWasClicked
CHECK_DEADLOCK FALSE
