CONSTANTS
    Service = {s1, s2, s3}
    L4Port = {n1, n2}
    L3Port = {p1, p2, foreign}
    NoPort = NoPort
    Free = Free
    Foreign = {foreign}
SPECIFICATION Spec
SYMMETRY MCSymmetry
INVARIANTS TypeOK TablesAgree MappedPortIsKnown KnownPortsWereIssued Exclusive
PROPERTIES CleanupSparesMapped RemapIsStable EvictionIsExact ImplementsPortAssignment
