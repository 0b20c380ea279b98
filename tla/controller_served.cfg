CONSTANTS
    s1 = s1  s2 = s2  n1 = n1  n2 = n2
    Service = {s1}
    L3Port = {p1, p2, p3, h1}
    L4Port = {n1}
    NoPort = NoPort
    Free = Free
    Foreign = {}
    Half = {h1}
    Agent = {a1, a2}
    Absent = Absent
    NoCall = NoCall
    SpecPorts <- SamePort
    UserOps = {"create", "delete", "recreate", "vanish"}
    MaxEdits = 3
    MaxFaults = 1
    MaxCrashes = 1
    MaxLag = 2
    MaxJobs = 3
SPECIFICATION FairSpec
PROPERTIES WantedServicesAreServed OthersAreNotServed
