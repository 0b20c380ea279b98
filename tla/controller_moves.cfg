CONSTANTS
    s1 = s1  s2 = s2  n1 = n1  n2 = n2
    Service = {s1, s2}
    L3Port = {p1, p2, p3}
    L4Port = {n1, n2}
    NoPort = NoPort
    Free = Free
    Foreign = {}
    Half = {}
    Agent = {a1}
    Absent = Absent
    NoCall = NoCall
    SpecPorts <- Rivals
    UserOps = {"create", "ports", "type", "touch", "disown"}
    MaxEdits = 3
    MaxFaults = 0
    MaxCrashes = 0
    MaxLag = 2
    MaxJobs = 1
SPECIFICATION Spec
INVARIANT StatusMatchesAnnotation
PROPERTIES CleanupSparesPublished PublishedStaysMapped
