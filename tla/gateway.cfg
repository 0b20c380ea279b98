CONSTANTS
    IPv6 = {"n6", "c6", "a6"}
    NoAddresses = NoAddresses
    NoCluster = NoCluster
    Setups <- AllSetups
    FirstClusters <- AllClusters
    Clusters <- LaterClusters
    Packets <- SomePackets
    NamedPort = 8080
    MaxRequests = 4
    MaxFaults = 1
    MaxRestarts = 1
    MaxReboots = 1
SPECIFICATION Spec
CHECK_DEADLOCK FALSE
INVARIANTS TypeOK PolicyInForce TrafficReachesBackends IdleAppliesFile
PROPERTIES ReloadReplacesChains UpdatesAreAccepted
