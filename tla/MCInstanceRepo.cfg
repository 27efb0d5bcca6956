\* Three instances, two addresses, dhcp and one other config type.
CONSTANTS
    i1 = i1
    i2 = i2
    i3 = i3
    a1 = a1
    a2 = a2
    Ids = {i1, i2, i3}
    Addresses = {a1, a2}
    ConfigTypes = {"dhcp", "dns"}
    AllConfigTypes = {"dhcp", "dns"}
    Dhcp = "dhcp"
    MaxEdits = 1
SYMMETRY IdSymmetry
SPECIFICATION RepoSpec
INVARIANTS
    OneConfiguredMaster
    DhcpOnlyOnRequest
PROPERTIES
    MasterLostOnlyByDelete
    PromoteKeepsSelection
