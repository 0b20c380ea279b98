CONSTANTS
    s1 = s1  s2 = s2  n1 = n1  n2 = n2
    Service = {s1, s2}
    L3Port = {p1, p2, p3, h1}
    L4Port = {n1, n2}
    NoPort = NoPort
    Free = Free
    Foreign = {}
    Half = {h1}
    Agent = {a1}
    Absent = Absent
    NoCall = NoCall
    SpecPorts <- Rivals
    UserOps = {"create", "delete"}
    MaxEdits = 3
    MaxFaults = 0
    MaxCrashes = 1
    MaxLag = 1
    MaxJobs = 1
SPECIFICATION Spec
INVARIANTS TypeOK PublishedIsReserved PublishedExclusive ConfigExclusive
PROPERTIES AnnotationStable CleanupSparesPublished
