CONSTANTS
    IPv6 = {"n6", "c6", "a6"}
    NoAddresses = NoAddresses
    NoCluster = NoCluster
    Setups <- AllSetups
    FirstClusters <- SomeClusters
    Clusters <- SomeClusters
    Packets <- SomePackets
    NamedPort = 8080
    MaxRequests = 3
    MaxFaults = 0
    MaxRestarts = 1
    MaxReboots = 0
SPECIFICATION Spec
CHECK_DEADLOCK FALSE
PROPERTY UpdatesAreAcceptedAfterRestart
