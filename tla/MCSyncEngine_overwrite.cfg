\* A slave promoted in the middle of a run is written to as master.
CONSTANTS
    i1 = i1
    i2 = i2
    i3 = i3
    a1 = a1
    a2 = a2
    a3 = a3
    Ids = {i1, i2, i3}
    Addresses = {a1, a2, a3}
    ConfigTypes = {"dhcp", "dns"}
    AllConfigTypes = {"dhcp", "dns"}
    Dhcp = "dhcp"
    MaxEdits = 1
    MaxParallel = 1
    MaxWrites = 1
    BadSecrets = {i3}
SPECIFICATION EngineSpec
PROPERTIES
    MasterIsNotOverwritten
