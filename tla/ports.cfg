CONSTANTS
    p1 = p1  p2 = p2  p3 = p3
    f1 = f1  f2 = f2  f3 = f3
    a1 = a1
    Port <- Ports
    FloatingIP <- FloatingIPs
    Agent <- Gateways
    NoPort = NoPort
    UseFloatingIPs = TRUE
    MaxFaults = 2
    MaxCrashes = 1
    MaxUses = 3
SPECIFICATION FairSpec
INVARIANTS TypeOK UsedPortsAreComplete LeaksAreAccountedFor
PROPERTIES UnusedPortsGo AgentsFollow OrphansGo
