CONSTANTS
    Service = {s1, s2}
    L4Port = {n1, n2}
    L3Port = {p1, p2}
    NoPort = NoPort
    Free = Free
    Foreign = {}
SPECIFICATION StaticSpec
PROPERTY ListedAddressesAreUsed
