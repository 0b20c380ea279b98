-------------------------- MODULE PortMapper_proofs --------------------------
(***************************************************************************)
(* Proofs about PortMapper, for every set of services, L3 ports and L4     *)
(* ports.  The inductive invariant is IndInv: no conjunct of it but the    *)
(* types is inductive alone, because what a call may touch is found        *)
(* through the other table.                                                *)
(* The last part is about StaticPorts.                                     *)
(***************************************************************************)
EXTENDS StaticPorts, TLAPS

IndInv == TypeOK /\ TablesAgree /\ MappedPortIsKnown /\ KnownPortsWereIssued

-----------------------------------------------------------------------------
(* Emplacing a port the mapper does not know loses no allocation.          *)
LEMMA UnknownPortIsEmpty ==
    ASSUME IndInv, NEW p \in L3Port, p \notin l3ports
    PROVE  Emplaced(p) = allocations
<1>1. \A n \in L4Port : allocations[p][n] = Free
  <2>1. SUFFICES ASSUME NEW n \in L4Port, allocations[p][n] # Free
                 PROVE  FALSE
    OBVIOUS
  <2>2. PICK s \in Service : allocations[p][n] = s
    BY <2>1 DEF IndInv, TypeOK
  <2>3. services[s].l3port = p
    BY <2>2 DEF IndInv, TablesAgree
  <2>4. services[s].l3port \in l3ports
    BY <2>3, PortMapperAssumption DEF IndInv, MappedPortIsKnown, IsMapped
  <2> QED BY <2>3, <2>4
<1>2. allocations[p] = NoAllocations
  BY <1>1 DEF IndInv, TypeOK, NoAllocations
<1> QED BY <1>2 DEF IndInv, TypeOK, Emplaced

(* A step that leaves the tables alone keeps the invariant.                *)
LEMMA SameTablesKeepInv ==
    ASSUME IndInv, UNCHANGED mapperVars,
           backend' \subseteq issued', issued' \subseteq L3Port,
           issued \subseteq issued',
           reply' \in [op : Ops, svcs : SUBSET Service, ports : SUBSET L3Port,
                      err : BOOLEAN]
    PROVE  IndInv'
<1>1. services' = services /\ l3ports' = l3ports /\ allocations' = allocations
  BY DEF mapperVars
<1>2. TypeOK'
  BY <1>1 DEF IndInv, TypeOK
<1>3. TablesAgree'
  BY <1>1 DEF IndInv, TablesAgree
<1>4. MappedPortIsKnown'
  BY <1>1 DEF IndInv, MappedPortIsKnown, IsMapped
<1>5. KnownPortsWereIssued'
  BY <1>1 DEF IndInv, KnownPortsWereIssued
<1> QED BY <1>2, <1>3, <1>4, <1>5 DEF IndInv

(* Recording a mapping on a port that suits keeps the invariant.           *)
LEMMA AssignKeepsInv ==
    ASSUME IndInv, NEW s \in Service, NEW ports \in PortSets, NEW p \in L3Port,
           \A n \in ports : allocations[p][n] \in {Free, s},
           Assign(allocations, s, ports, p),
           backend' \subseteq issued', issued' \subseteq L3Port,
           issued \subseteq issued', p \in issued'
    PROVE  IndInv'
<1> DEFINE cleared == IF IsMapped(s) THEN Released(allocations, s) ELSE allocations
<1>1. cleared \in [L3Port -> [L4Port -> Service \cup {Free}]]
  BY DEF IndInv, TypeOK, Released
<1>2. \A q \in L3Port, n \in L4Port : cleared[q][n] # s
  <2>1. CASE IsMapped(s)
    BY <2>1, PortMapperAssumption DEF Released
  <2>2. CASE ~IsMapped(s)
    BY <2>2, PortMapperAssumption DEF IndInv, TablesAgree, IsMapped
  <2> QED BY <2>1, <2>2
<1>3. \A q \in L3Port, n \in L4Port, t \in Service \ {s} :
          cleared[q][n] = t <=> allocations[q][n] = t
  BY PortMapperAssumption DEF Released
<1>4. services' = [services EXCEPT ![s] = [l3port |-> p, ports |-> ports]]
  BY DEF Assign
<1>5. allocations' = [cleared EXCEPT ![p] =
          [n \in L4Port |-> IF n \in ports THEN s ELSE cleared[p][n]]]
  BY DEF Assign
<1>6. TypeOK'
  <2>1. services' \in [Service -> [l3port : L3Port \cup {NoPort}, ports : SUBSET L4Port]]
    BY <1>4 DEF IndInv, TypeOK, PortSets
  <2>2. allocations' \in [L3Port -> [L4Port -> Service \cup {Free}]]
    BY <1>1, <1>5
  <2>3. l3ports' \subseteq L3Port
    BY DEF IndInv, TypeOK, Assign
  <2>4. reply' \in [op : Ops, svcs : SUBSET Service, ports : SUBSET L3Port, err : BOOLEAN]
    BY DEF Assign, Reply, Ops
  <2> QED BY <2>1, <2>2, <2>3, <2>4 DEF TypeOK
<1>7. TablesAgree'
  <2>1. SUFFICES ASSUME NEW t \in Service, NEW q \in L3Port, NEW n \in L4Port
                 PROVE  allocations'[q][n] = t <=>
                            (services'[t].l3port = q /\ n \in services'[t].ports)
    BY DEF TablesAgree
  <2>2. allocations'[q][n] = IF q = p /\ n \in ports THEN s ELSE cleared[q][n]
    BY <1>1, <1>5
  <2>3. CASE t = s
    BY <2>2, <2>3, <1>2, <1>4 DEF IndInv, TypeOK
  <2>4. CASE t # s
    <3>1. services'[t] = services[t]
      BY <2>4, <1>4 DEF IndInv, TypeOK
    <3>2. allocations[q][n] = t <=> (services[t].l3port = q /\ n \in services[t].ports)
      BY DEF IndInv, TablesAgree
    <3>3. cleared[q][n] = t <=> allocations[q][n] = t
      BY <1>3, <2>4
    <3>4. q = p /\ n \in ports => allocations[q][n] # t
      BY <2>4, PortMapperAssumption
    <3> QED BY <2>2, <2>4, <3>1, <3>2, <3>3, <3>4
  <2> QED BY <2>3, <2>4
<1>8. MappedPortIsKnown'
  <2>1. SUFFICES ASSUME NEW t \in Service
                 PROVE  IF services'[t].l3port # NoPort
                          THEN services'[t].l3port \in l3ports' /\ services'[t].ports # {}
                          ELSE services'[t].ports = {}
    BY DEF MappedPortIsKnown, IsMapped
  <2>2. l3ports' = l3ports \cup {p}
    BY DEF Assign
  <2>3. CASE t = s
    BY <2>2, <2>3, <1>4, PortMapperAssumption DEF IndInv, TypeOK, PortSets
  <2>4. CASE t # s
    BY <2>2, <2>4, <1>4 DEF IndInv, TypeOK, MappedPortIsKnown, IsMapped
  <2> QED BY <2>3, <2>4
<1>9. KnownPortsWereIssued'
  BY DEF IndInv, KnownPortsWereIssued, Assign
<1> QED BY <1>6, <1>7, <1>8, <1>9 DEF IndInv

(* How the branches of MapService end: an error that leaves the tables as  *)
(* they are, or a mapping to a port on which all the numbers are free or   *)
(* the service's own.                                                      *)
LEMMA MapServiceOutcome ==
    ASSUME IndInv, NEW s \in Service, NEW ports \in PortSets,
           NEW annot \in L3Port \cup {NoPort}, MapService(s, ports, annot)
    PROVE  /\ backend' \subseteq issued' /\ issued \subseteq issued' /\ issued' \subseteq L3Port
           /\ \/ FailMapping(s)
              \/ \E p \in issued' : /\ \A n \in ports : allocations[p][n] \in {Free, s}
                                   /\ Assign(allocations, s, ports, p)
<1>1. CASE CheckFails(s, annot)
  BY <1>1 DEF CheckFails, IndInv, TypeOK
<1>2. CASE KeepPort(s, ports, annot)
  <2> DEFINE p == PreferredPort(s, annot)
  <2>1. p \in L3Port /\ p \in issued /\ (p \in l3ports => IsPortSuitableFor(p, ports, s))
    BY <1>2 DEF KeepPort, CanKeep, IndInv, TypeOK
  <2>2. p \notin l3ports => allocations[p] = NoAllocations
    <3>1. Emplaced(p)[p] = NoAllocations
      BY <2>1 DEF Emplaced, IndInv, TypeOK
    <3> QED BY <2>1, <3>1, UnknownPortIsEmpty
  <2>3. \A n \in ports : allocations[p][n] \in {Free, s}
    BY <2>1, <2>2 DEF IsPortSuitableFor, NoAllocations, PortSets
  <2>4. Assign(allocations, s, ports, p)
    BY <1>2, <2>1, UnknownPortIsEmpty DEF KeepPort
  <2> QED BY <1>2, <2>1, <2>3, <2>4 DEF KeepPort, IndInv, TypeOK
<1>3. CASE UseKnownPort(s, ports, annot)
  <2>1. PICK p \in FindL3PortFor(ports) : Assign(allocations, s, ports, p)
    BY <1>3 DEF UseKnownPort
  <2>2. p \in issued
    BY DEF FindL3PortFor, IndInv, KnownPortsWereIssued
  <2>3. \A n \in ports : allocations[p][n] \in {Free, s}
    BY DEF FindL3PortFor, IsPortSuitableFor
  <2> QED BY <1>3, <2>1, <2>2, <2>3 DEF UseKnownPort, IndInv, TypeOK
<1>4. CASE UseNewPort(s, ports, annot)
  <2>1. PICK p \in L3Port : ProvisionPort(p) /\ Assign(Emplaced(p), s, ports, p)
    BY <1>4 DEF UseNewPort
  <2>2. p \notin l3ports
    BY <2>1 DEF ProvisionPort, IndInv, KnownPortsWereIssued
  <2>3. Emplaced(p) = allocations /\ allocations[p] = NoAllocations
    <3>1. Emplaced(p)[p] = NoAllocations
      BY DEF Emplaced, IndInv, TypeOK
    <3> QED BY <2>2, <3>1, UnknownPortIsEmpty
  <2>4. \A n \in ports : allocations[p][n] \in {Free, s}
    BY <2>3 DEF NoAllocations, PortSets
  <2> QED BY <2>1, <2>3, <2>4 DEF ProvisionPort, IndInv, TypeOK
<1>5. CASE ProvisionFails(s, ports, annot)
  BY <1>5 DEF ProvisionFails, ProvisionPort, IndInv, TypeOK
<1> QED BY <1>1, <1>2, <1>3, <1>4, <1>5 DEF MapService

(* Whichever branch MapService takes, the invariant is kept.               *)
LEMMA MapServiceKeepsInv ==
    ASSUME IndInv, NEW s \in Service, NEW ports \in PortSets,
           NEW annot \in L3Port \cup {NoPort}, MapService(s, ports, annot)
    PROVE  IndInv'
<1>1. /\ backend' \subseteq issued' /\ issued \subseteq issued' /\ issued' \subseteq L3Port
      /\ \/ FailMapping(s)
         \/ \E p \in issued' : /\ \A n \in ports : allocations[p][n] \in {Free, s}
                              /\ Assign(allocations, s, ports, p)
  BY MapServiceOutcome
<1>2. CASE FailMapping(s)
  <2>1. reply' \in [op : Ops, svcs : SUBSET Service, ports : SUBSET L3Port, err : BOOLEAN]
    BY <1>2 DEF FailMapping, Reply, Ops
  <2> QED BY <1>1, <1>2, <2>1, SameTablesKeepInv DEF FailMapping
<1>3. ASSUME NEW p \in issued', \A n \in ports : allocations[p][n] \in {Free, s},
             Assign(allocations, s, ports, p)
      PROVE  IndInv'
  BY <1>1, <1>3, AssignKeepsInv
<1> QED BY <1>1, <1>2, <1>3

-----------------------------------------------------------------------------
(* UnmapService keeps the invariant.                                       *)
LEMMA UnmapServiceKeepsInv ==
    ASSUME IndInv, NEW s \in Service, UnmapService(s)
    PROVE  IndInv'
<1>1. /\ services' = [services EXCEPT ![s] = Unmapped]
      /\ allocations' = Released(allocations, s)
      /\ UNCHANGED <<l3ports, backend, issued>>
  BY DEF UnmapService
<1>2. TypeOK'
  <2>1. allocations' \in [L3Port -> [L4Port -> Service \cup {Free}]]
    BY <1>1 DEF Released, IndInv, TypeOK
  <2>2. reply' \in [op : Ops, svcs : SUBSET Service, ports : SUBSET L3Port, err : BOOLEAN]
    BY DEF UnmapService, Reply, Ops
  <2> QED BY <1>1, <2>1, <2>2 DEF Unmapped, IndInv, TypeOK
<1>3. TablesAgree'
  BY <1>1, PortMapperAssumption DEF Released, Unmapped, IndInv, TypeOK, TablesAgree
<1>4. MappedPortIsKnown'
  BY <1>1 DEF Unmapped, IsMapped, IndInv, TypeOK, MappedPortIsKnown
<1>5. KnownPortsWereIssued'
  BY <1>1 DEF IndInv, KnownPortsWereIssued
<1> QED BY <1>2, <1>3, <1>4, <1>5 DEF IndInv

(* A mapped service holds at least one number of its port, so the cleanup  *)
(* counts the port as used.                                                *)
LEMMA MappedPortIsUsed ==
    ASSUME IndInv
    PROVE  UsedL3Ports = {services[s].l3port : s \in {t \in Service : IsMapped(t)}}
<1>1. ASSUME NEW s \in Service, IsMapped(s)
      PROVE  services[s].l3port \in UsedL3Ports
  <2>1. services[s].l3port \in l3ports /\ services[s].ports # {}
    BY <1>1 DEF IndInv, MappedPortIsKnown
  <2>2. services[s].l3port \in L3Port /\ services[s].ports \subseteq L4Port
    BY <2>1 DEF IndInv, TypeOK
  <2>3. PICK n \in L4Port : n \in services[s].ports
    BY <2>1, <2>2
  <2>4. allocations[services[s].l3port][n] = s
    BY <2>2, <2>3 DEF IndInv, TablesAgree
  <2> QED BY <2>1, <2>4, PortMapperAssumption DEF UsedL3Ports, NoAllocations
<1>2. ASSUME NEW p \in UsedL3Ports
      PROVE  \E s \in Service : IsMapped(s) /\ services[s].l3port = p
  <2>1. p \in L3Port /\ allocations[p] # NoAllocations
    BY <1>2 DEF UsedL3Ports, IndInv, TypeOK
  <2>2. PICK n \in L4Port : allocations[p][n] # Free
    BY <2>1 DEF NoAllocations, IndInv, TypeOK
  <2>3. PICK s \in Service : allocations[p][n] = s
    BY <2>1, <2>2 DEF IndInv, TypeOK
  <2>4. services[s].l3port = p
    BY <2>1, <2>3 DEF IndInv, TablesAgree
  <2> QED BY <2>1, <2>4, PortMapperAssumption DEF IsMapped
<1> QED BY <1>1, <1>2

(* cleanupPorts keeps the invariant: the ports it forgets are unused.      *)
LEMMA CleanupPortsKeepsInv ==
    ASSUME IndInv, CleanupPorts
    PROVE  IndInv'
<1>1. /\ l3ports' = UsedL3Ports
      /\ UNCHANGED <<services, allocations, issued>>
      /\ backend' \subseteq backend
  BY DEF CleanupPorts
<1>2. UsedL3Ports \subseteq l3ports
  BY DEF UsedL3Ports
<1>3. TypeOK'
  <2>1. reply' \in [op : Ops, svcs : SUBSET Service, ports : SUBSET L3Port, err : BOOLEAN]
    BY <1>2 DEF CleanupPorts, Reply, Ops, IndInv, TypeOK
  <2> QED BY <1>1, <1>2, <2>1 DEF IndInv, TypeOK
<1>4. TablesAgree'
  BY <1>1 DEF IndInv, TablesAgree
<1>5. MappedPortIsKnown'
  <2>1. ASSUME NEW s \in Service, IsMapped(s)
        PROVE  services[s].l3port \in UsedL3Ports
    BY <2>1, MappedPortIsUsed
  <2> QED BY <1>1, <2>1 DEF IsMapped, IndInv, MappedPortIsKnown
<1>6. KnownPortsWereIssued'
  BY <1>1, <1>2 DEF IndInv, KnownPortsWereIssued
<1> QED BY <1>3, <1>4, <1>5, <1>6 DEF IndInv

(* The services SetAvailableL3Ports finds through the allocations are the  *)
(* ones that are mapped to an L3 port outside the list.                    *)
LEMMA EvictedAreLost ==
    ASSUME IndInv, NEW available \in SUBSET L3Port, NEW s \in Service
    PROVE  (/\ IsMapped(s)
            /\ \E p \in l3ports \ available, n \in L4Port : allocations[p][n] = s)
           <=> (IsMapped(s) /\ services[s].l3port \notin available)
<1>1. ASSUME IsMapped(s), services[s].l3port \notin available
      PROVE  \E p \in l3ports \ available, n \in L4Port : allocations[p][n] = s
  <2>1. services[s].l3port \in l3ports \ available /\ services[s].ports # {}
    BY <1>1 DEF IndInv, MappedPortIsKnown
  <2>2. services[s].l3port \in L3Port /\ services[s].ports \subseteq L4Port
    BY <2>1 DEF IndInv, TypeOK
  <2>3. PICK n \in L4Port : n \in services[s].ports
    BY <2>1, <2>2
  <2> QED BY <2>1, <2>2, <2>3 DEF IndInv, TablesAgree
<1>2. ASSUME NEW p \in l3ports \ available, NEW n \in L4Port, allocations[p][n] = s
      PROVE  services[s].l3port \notin available
  <2>1. p \in L3Port
    BY DEF IndInv, TypeOK
  <2> QED BY <1>2, <2>1 DEF IndInv, TablesAgree
<1> QED BY <1>1, <1>2

(* SetAvailableL3Ports keeps the invariant.                                *)
LEMMA SetAvailableKeepsInv ==
    ASSUME IndInv, NEW available \in SUBSET L3Port, SetAvailableL3Ports(available)
    PROVE  IndInv'
<1> DEFINE lost(s) == IsMapped(s) /\ services[s].l3port \notin available
<1>1. \A s \in Service : services'[s] = IF lost(s) THEN Unmapped ELSE services[s]
  BY EvictedAreLost DEF SetAvailableL3Ports
<1>2. /\ l3ports' = l3ports \cap available
      /\ allocations' = [p \in L3Port |->
             IF p \in l3ports \ available THEN NoAllocations ELSE allocations[p]]
      /\ UNCHANGED <<backend, issued>>
  BY DEF SetAvailableL3Ports
<1>3. TypeOK'
  <2>1. services' \in [Service -> [l3port : L3Port \cup {NoPort}, ports : SUBSET L4Port]]
    BY DEF SetAvailableL3Ports, Unmapped, IndInv, TypeOK
  <2>2. allocations' \in [L3Port -> [L4Port -> Service \cup {Free}]]
    BY <1>2 DEF NoAllocations, IndInv, TypeOK
  <2>3. reply' \in [op : Ops, svcs : SUBSET Service, ports : SUBSET L3Port, err : BOOLEAN]
    BY DEF SetAvailableL3Ports, Reply, Ops
  <2> QED BY <1>2, <2>1, <2>2, <2>3 DEF IndInv, TypeOK
<1>4. TablesAgree'
  <2>1. SUFFICES ASSUME NEW s \in Service, NEW p \in L3Port, NEW n \in L4Port
                 PROVE  allocations'[p][n] = s <=>
                            (services'[s].l3port = p /\ n \in services'[s].ports)
    BY DEF TablesAgree
  <2>2. allocations[p][n] = s <=> (services[s].l3port = p /\ n \in services[s].ports)
    BY DEF IndInv, TablesAgree
  <2>3. CASE p \in l3ports \ available
    <3>1. allocations'[p][n] = Free
      BY <1>2, <2>3 DEF NoAllocations
    <3>2. services'[s].l3port # p
      BY <1>1, <2>3, PortMapperAssumption DEF Unmapped, IsMapped
    <3> QED BY <3>1, <3>2, PortMapperAssumption
  <2>4. CASE p \notin l3ports
    <3>1. services[s].l3port # p
      BY <2>4, PortMapperAssumption DEF IndInv, MappedPortIsKnown, IsMapped
    <3>2. services'[s].l3port # p
      BY <1>1, <3>1, PortMapperAssumption DEF Unmapped
    <3> QED BY <1>2, <2>2, <2>4, <3>1, <3>2
  <2>5. CASE p \in available
    <3>1. allocations'[p][n] = allocations[p][n]
      BY <1>2, <2>5
    <3>2. services'[s].l3port = p => services'[s] = services[s]
      BY <1>1, PortMapperAssumption DEF Unmapped
    <3>3. services[s].l3port = p => services'[s] = services[s]
      BY <1>1, <2>5
    <3> QED BY <2>2, <3>1, <3>2, <3>3
  <2> QED BY <2>3, <2>4, <2>5
<1>5. MappedPortIsKnown'
  <2>1. ASSUME NEW s \in Service
        PROVE  IF services'[s].l3port # NoPort
                 THEN services'[s].l3port \in l3ports' /\ services'[s].ports # {}
                 ELSE services'[s].ports = {}
    <3>1. CASE lost(s)
      BY <1>1, <3>1 DEF Unmapped
    <3>2. CASE ~lost(s)
      BY <1>1, <1>2, <3>2 DEF IsMapped, IndInv, MappedPortIsKnown
    <3> QED BY <3>1, <3>2
  <2> QED BY <2>1 DEF MappedPortIsKnown, IsMapped
<1>6. KnownPortsWereIssued'
  BY <1>2 DEF IndInv, KnownPortsWereIssued
<1> QED BY <1>3, <1>4, <1>5, <1>6 DEF IndInv

(* A restart of the process keeps the invariant.                           *)
LEMMA NewPortMapperKeepsInv ==
    ASSUME IndInv, NewPortMapper
    PROVE  IndInv'
<1>1. backend' \subseteq issued' /\ issued' \subseteq L3Port
  BY DEF NewPortMapper, ProvisionPort, IndInv, TypeOK
<1>2. TypeOK'
  BY <1>1 DEF NewPortMapper, Unmapped, NoAllocations, Reply, Ops, IndInv, TypeOK
<1>3. TablesAgree'
  BY PortMapperAssumption DEF NewPortMapper, Unmapped, NoAllocations, TablesAgree
<1>4. MappedPortIsKnown'
  BY DEF NewPortMapper, Unmapped, IsMapped, MappedPortIsKnown
<1>5. KnownPortsWereIssued'
  BY <1>1 DEF NewPortMapper, KnownPortsWereIssued
<1> QED BY <1>2, <1>3, <1>4, <1>5 DEF IndInv

(* So does the loss of a port in the backend.                              *)
LEMMA PortVanishesKeepsInv ==
    ASSUME IndInv, NEW p \in L3Port, PortVanishes(p)
    PROVE  IndInv'
<1>1. reply' \in [op : Ops, svcs : SUBSET Service, ports : SUBSET L3Port, err : BOOLEAN]
  BY DEF PortVanishes, Reply, Ops
<1> QED BY <1>1, SameTablesKeepInv DEF PortVanishes, mapperVars, IndInv, TypeOK

-----------------------------------------------------------------------------
(* The process starts in states that satisfy the invariant.                *)
LEMMA InitEstablishesInv == Init => IndInv
<1> SUFFICES ASSUME Init PROVE IndInv
  OBVIOUS
<1>1. TypeOK
  BY DEF Init, Unmapped, NoAllocations, Reply, Ops, TypeOK
<1>2. TablesAgree
  BY PortMapperAssumption DEF Init, Unmapped, NoAllocations, TablesAgree
<1>3. MappedPortIsKnown
  BY DEF Init, Unmapped, IsMapped, MappedPortIsKnown
<1>4. KnownPortsWereIssued
  BY DEF Init, KnownPortsWereIssued
<1> QED BY <1>1, <1>2, <1>3, <1>4 DEF IndInv

(* Every call of the interface, and the loss of a backend port, keeps it.  *)
LEMMA NextKeepsInv == IndInv /\ [Next]_vars => IndInv'
<1> SUFFICES ASSUME IndInv, [Next]_vars PROVE IndInv'
  OBVIOUS
<1>1. ASSUME NEW s \in Service, NEW ports \in PortSets,
             NEW annot \in L3Port \cup {NoPort}, MapService(s, ports, annot)
      PROVE  IndInv'
  BY <1>1, MapServiceKeepsInv
<1>2. ASSUME NEW s \in Service, UnmapService(s) PROVE IndInv'
  BY <1>2, UnmapServiceKeepsInv
<1>3. CASE CleanupPorts
  BY <1>3, CleanupPortsKeepsInv
<1>4. ASSUME NEW available \in SUBSET L3Port, SetAvailableL3Ports(available)
      PROVE  IndInv'
  BY <1>4, SetAvailableKeepsInv
<1>5. CASE NewPortMapper
  BY <1>5, NewPortMapperKeepsInv
<1>6. ASSUME NEW p \in L3Port, PortVanishes(p) PROVE IndInv'
  BY <1>6, PortVanishesKeepsInv
<1>7. CASE UNCHANGED vars
  BY <1>7, SameTablesKeepInv DEF vars, mapperVars, IndInv, TypeOK
<1> QED BY <1>1, <1>2, <1>3, <1>4, <1>5, <1>6, <1>7 DEF Next

(* Every reachable state satisfies the inductive invariant: the tables of  *)
(* the mapper agree, whatever is mapped, relocated, evicted or forgotten.  *)
THEOREM SpecKeepsInv == Spec => []IndInv
<1> QED BY InitEstablishesInv, NextKeepsInv, PTL DEF Spec

(* Type correctness of the mapper.                                         *)
THEOREM TypeCorrect == Spec => []TypeOK
<1>1. IndInv => TypeOK
  BY DEF IndInv
<1> QED BY <1>1, SpecKeepsInv, PTL

(* The allocations of the L3 ports and the services' mappings agree.       *)
THEOREM TablesAlwaysAgree == Spec => []TablesAgree
<1>1. IndInv => TablesAgree
  BY DEF IndInv
<1> QED BY <1>1, SpecKeepsInv, PTL

(* The port of a mapped service is in the table of L3 ports.               *)
THEOREM MappedPortsAreKnown == Spec => []MappedPortIsKnown
<1>1. IndInv => MappedPortIsKnown
  BY DEF IndInv
<1> QED BY <1>1, SpecKeepsInv, PTL

(* A port that the backend provisions is never one the mapper knows.       *)
THEOREM KnownPortsAreIssued == Spec => []KnownPortsWereIssued
<1>1. IndInv => KnownPortsWereIssued
  BY DEF IndInv
<1> QED BY <1>1, SpecKeepsInv, PTL

LEMMA InvImpliesExclusive == IndInv => Exclusive
<1> SUFFICES ASSUME IndInv, NEW s \in Service, NEW t \in Service, s # t,
                    IsMapped(s), services[s].l3port = services[t].l3port
             PROVE  services[s].ports \cap services[t].ports = {}
  BY DEF Exclusive
<1>1. services[s].l3port \in L3Port
  BY DEF IsMapped, IndInv, TypeOK
<1>2. services[s].ports \subseteq L4Port
  BY DEF IndInv, TypeOK
<1> QED BY <1>1, <1>2 DEF IndInv, TablesAgree

(* Two services never share an L4 port number of an L3 port.               *)
THEOREM PortsAreExclusive == Spec => []Exclusive
<1> QED BY InvImpliesExclusive, SpecKeepsInv, PTL

-----------------------------------------------------------------------------
(* Every step of the mapper is a step of PortAssignment or leaves the      *)
(* mapping of every service alone.                                         *)
LEMMA StepRefinesAssignment ==
    IndInv /\ [Next]_vars => [PA!Next]_services
<1> SUFFICES ASSUME IndInv, [Next]_vars PROVE [PA!Next]_services
  OBVIOUS
<1>1. ASSUME NEW s \in Service, NEW ports \in PortSets,
             NEW annot \in L3Port \cup {NoPort}, MapService(s, ports, annot)
      PROVE  [PA!Next]_services
  <2>1. CASE FailMapping(s)
    BY <2>1 DEF FailMapping, mapperVars
  <2>2. ASSUME NEW p \in L3Port, \A n \in ports : allocations[p][n] \in {Free, s},
               Assign(allocations, s, ports, p)
        PROVE  PA!Assign(s, p, ports)
    <3>1. ASSUME NEW t \in Service \ {s}, services[t].l3port = p,
                 NEW n \in services[t].ports \cap ports
          PROVE  FALSE
      <4>1. allocations[p][n] = t
        BY <3>1 DEF IndInv, TypeOK, TablesAgree
      <4> QED BY <2>2, <4>1, PortMapperAssumption
    <3>2. PA!Available(s, p, ports)
      BY <3>1 DEF PA!Available
    <3> QED BY <2>2, <3>2 DEF PA!Assign, Assign
  <2> QED BY <1>1, <2>1, <2>2, MapServiceOutcome DEF PA!Next, PortSets
<1>2. ASSUME NEW s \in Service, UnmapService(s) PROVE PA!Next
  <2>1. PA!Withdraw({s})
    BY <1>2 DEF UnmapService, Unmapped, PA!Withdraw, PA!Nothing, IndInv, TypeOK
  <2> QED BY <2>1 DEF PA!Next
<1>3. CASE CleanupPorts
  BY <1>3 DEF CleanupPorts
<1>4. ASSUME NEW available \in SUBSET L3Port, SetAvailableL3Ports(available)
      PROVE  PA!Next
  <2> DEFINE evicted == {s \in Service : /\ IsMapped(s)
                                        /\ \E p \in l3ports \ available, n \in L4Port :
                                               allocations[p][n] = s}
  <2>1. PA!Withdraw(evicted)
    BY <1>4 DEF SetAvailableL3Ports, Unmapped, PA!Withdraw, PA!Nothing
  <2> QED BY <2>1 DEF PA!Next
<1>5. CASE NewPortMapper
  <2>1. PA!Withdraw(Service)
    BY <1>5 DEF NewPortMapper, Unmapped, PA!Withdraw, PA!Nothing
  <2> QED BY <2>1 DEF PA!Next
<1>6. ASSUME NEW p \in L3Port, PortVanishes(p) PROVE UNCHANGED services
  BY <1>6 DEF PortVanishes
<1>7. CASE UNCHANGED vars
  BY <1>7 DEF vars
<1> QED BY <1>1, <1>2, <1>3, <1>4, <1>5, <1>6, <1>7 DEF Next

(* The mapper implements PortAssignment: an assignment never takes a       *)
(* number of another service and never disturbs another service.           *)
THEOREM MapperImplementsAssignment == Spec => ImplementsPortAssignment
<1>1. Init => PA!Init
  BY DEF Init, PA!Init, Unmapped, PA!Nothing
<1> QED BY <1>1, SpecKeepsInv, StepRefinesAssignment, PTL
        DEF Spec, PA!Spec, ImplementsPortAssignment

-----------------------------------------------------------------------------
(* A cleanup tells the backend exactly the ports of the mapped services,   *)
(* and so deletes none of them.                                            *)
LEMMA StepSparesMapped ==
    IndInv /\ [Next]_vars =>
        [reply'.op = "CleanupPorts" =>
            /\ (backend \ backend') \cap {services[s].l3port : s \in Service} = {}
            /\ reply'.ports = {services[s].l3port : s \in {t \in Service : IsMapped(t)}}]_vars
<1> SUFFICES ASSUME IndInv, Next, reply'.op = "CleanupPorts"
             PROVE  /\ (backend \ backend') \cap {services[s].l3port : s \in Service} = {}
                    /\ reply'.ports = {services[s].l3port : s \in {t \in Service : IsMapped(t)}}
  OBVIOUS
<1>1. CASE CleanupPorts
  <2>1. backend \ backend' \subseteq backend \ UsedL3Ports
    BY <1>1 DEF CleanupPorts
  <2>2. reply'.ports = UsedL3Ports
    BY <1>1 DEF CleanupPorts, Reply
  <2>3. NoPort \notin backend
    BY PortMapperAssumption DEF IndInv, TypeOK
  <2> QED BY <2>1, <2>2, <2>3, MappedPortIsUsed DEF IsMapped
<1>2. ASSUME NEW s \in Service, NEW ports \in PortSets,
             NEW annot \in L3Port \cup {NoPort}, MapService(s, ports, annot)
      PROVE  FALSE
  <2>1. reply'.op = "MapService"
    BY <1>2, MapServiceOutcome DEF FailMapping, Assign, Reply
  <2> QED BY <2>1
<1> QED BY <1>1, <1>2
        DEF Next, UnmapService, SetAvailableL3Ports, NewPortMapper, PortVanishes, Reply

(* No cleanup of the specification deletes the port of a mapped service.   *)
THEOREM CleanupSparesMappedServices == Spec => CleanupSparesMapped
<1> QED BY SpecKeepsInv, StepSparesMapped, PTL DEF Spec, CleanupSparesMapped

(* A service that is mapped again with numbers it already holds stays on   *)
(* its port as long as the backend has the port: nobody else can hold one  *)
(* of its numbers, so no conflict can be found.                            *)
LEMMA StepIsStable ==
    IndInv /\ [Next]_vars =>
        [\A s \in Service :
            (/\ reply'.op = "MapService"
             /\ reply'.svcs = {s}
             /\ IsMapped(s)
             /\ services[s].l3port \in backend
             /\ services'[s].ports \subseteq services[s].ports)
                => services'[s].l3port = services[s].l3port]_vars
<1> SUFFICES ASSUME IndInv, Next, NEW s \in Service,
                    reply'.op = "MapService", reply'.svcs = {s}, IsMapped(s),
                    services[s].l3port \in backend,
                    services'[s].ports \subseteq services[s].ports
             PROVE  services'[s].l3port = services[s].l3port
  OBVIOUS
<1>1. PICK t \in Service, ports \in PortSets, annot \in L3Port \cup {NoPort} :
          MapService(t, ports, annot)
  BY DEF Next, UnmapService, CleanupPorts, SetAvailableL3Ports, NewPortMapper,
         PortVanishes, Reply
<1>2. t = s
  <2>1. reply'.svcs = {t}
    BY <1>1, MapServiceOutcome DEF FailMapping, Assign, Reply
  <2> QED BY <2>1
<1>3. CASE FailMapping(s)
  BY <1>3 DEF FailMapping, mapperVars
<1>4. CASE ~FailMapping(s)
  <2>1. PICK p \in L3Port : Assign(allocations, s, ports, p)
    BY <1>1, <1>2, <1>4, MapServiceOutcome
  <2>2. services'[s] = [l3port |-> p, ports |-> ports]
    BY <2>1 DEF Assign, IndInv, TypeOK
  <2>3. ports \subseteq services[s].ports
    BY <2>2
  <2>4. PreferredPort(s, annot) = services[s].l3port
    BY DEF PreferredPort
  <2>5. CanKeep(services[s].l3port, s, ports)
    <3>1. \A n \in ports : allocations[services[s].l3port][n] = s
      BY <2>3 DEF IsMapped, IndInv, TypeOK, TablesAgree
    <3> QED BY <3>1 DEF CanKeep, IsPortSuitableFor
  <2>6. KeepPort(s, ports, annot)
    BY <1>1, <1>2, <1>4, <2>4, <2>5
       DEF MapService, CheckFails, UseKnownPort, UseNewPort, ProvisionFails
  <2> QED BY <2>4, <2>6 DEF KeepPort, Assign, IndInv, TypeOK
<1> QED BY <1>3, <1>4

(* Resyncs of the specification do not move services.                      *)
THEOREM RemapsAreStable == Spec => RemapIsStable
<1> QED BY SpecKeepsInv, StepIsStable, PTL DEF Spec, RemapIsStable

(* SetAvailableL3Ports unmaps, and returns, exactly the services that are  *)
(* mapped to an L3 port outside its list.                                  *)
LEMMA StepEvictsExactly ==
    IndInv /\ [Next]_vars =>
        [reply'.op = "SetAvailableL3Ports" =>
            LET lost == {s \in Service : IsMapped(s) /\ services[s].l3port \notin reply'.ports}
            IN  /\ reply'.svcs = lost
                /\ \A s \in Service : services'[s] = IF s \in lost THEN Unmapped ELSE services[s]
                /\ l3ports' \subseteq reply'.ports]_vars
<1> DEFINE lost(available) ==
        {s \in Service : IsMapped(s) /\ services[s].l3port \notin available}
<1> SUFFICES ASSUME IndInv, Next, reply'.op = "SetAvailableL3Ports"
             PROVE  /\ reply'.svcs = lost(reply'.ports)
                    /\ \A s \in Service : services'[s] =
                           IF s \in lost(reply'.ports) THEN Unmapped ELSE services[s]
                    /\ l3ports' \subseteq reply'.ports
  OBVIOUS
<1>1. ASSUME NEW s \in Service, NEW ports \in PortSets,
             NEW annot \in L3Port \cup {NoPort}, MapService(s, ports, annot)
      PROVE  FALSE
  <2>1. reply'.op = "MapService"
    BY <1>1, MapServiceOutcome DEF FailMapping, Assign, Reply
  <2> QED BY <2>1
<1>2. PICK available \in SUBSET L3Port : SetAvailableL3Ports(available)
  BY <1>1 DEF Next, UnmapService, CleanupPorts, NewPortMapper, PortVanishes, Reply
<1>3. reply'.ports = available
  BY <1>2 DEF SetAvailableL3Ports, Reply
<1>4. {s \in Service : /\ IsMapped(s)
                      /\ \E p \in l3ports \ available, n \in L4Port :
                             allocations[p][n] = s} = lost(available)
  BY EvictedAreLost
<1>5. reply'.svcs = lost(available)
  BY <1>2, <1>4 DEF SetAvailableL3Ports, Reply
<1>6. services' = [s \in Service |-> IF s \in lost(available) THEN Unmapped ELSE services[s]]
  BY <1>2, <1>4 DEF SetAvailableL3Ports
<1> QED BY <1>2, <1>3, <1>5, <1>6 DEF SetAvailableL3Ports

(* Every SetAvailableL3Ports of the specification evicts exactly those.    *)
THEOREM EvictionsAreExact == Spec => EvictionIsExact
<1> QED BY SpecKeepsInv, StepEvictsExactly, PTL DEF Spec, EvictionIsExact

-----------------------------------------------------------------------------
(* With the static manager the port mapper does a part of what PortMapper  *)
(* allows, so the theorems about it hold; and the list is the whole world. *)
LEMMA StaticMapIsMap ==
    ASSUME NEW s \in Service, NEW ports \in PortSets, NEW annot \in L3Port \cup {NoPort},
           StaticMapService(s, ports, annot)
    PROVE  MapService(s, ports, annot) /\ UNCHANGED <<backend, issued>>
BY DEF StaticMapService, MapService, KeepPort, UseKnownPort, ProvisionFails

LEMMA StaticNextIsNext == [StaticNext]_vars => [Next]_vars
BY StaticMapIsMap DEF StaticNext, StaticCleanupPorts, StaticNewPortMapper, Next

(* The mapper with the static manager implements PortMapper: what is       *)
(* proved there of exclusive ports and of stable mappings holds here.      *)
THEOREM StaticImplementsPortMapper == StaticSpec => Spec
BY StaticNextIsNext, PTL DEF StaticSpec, Spec

LEMMA StaticKeepsList == [StaticNext]_vars => UNCHANGED backend
BY StaticMapIsMap DEF StaticNext, StaticCleanupPorts, UnmapService, StaticNewPortMapper, vars

(* What the mapper knows stays within the list; that it is the whole list  *)
(* is not an invariant, see ListedAddressesAreUsed.                        *)
KnownIsListed == l3ports \subseteq backend

LEMMA StaticKeepsKnown == IndInv /\ KnownIsListed /\ [StaticNext]_vars => KnownIsListed'
<1> SUFFICES ASSUME IndInv, KnownIsListed, [StaticNext]_vars
             PROVE  KnownIsListed'
  OBVIOUS
<1>1. backend' = backend
  BY StaticKeepsList
<1>2. ASSUME NEW s \in Service, NEW ports \in PortSets, NEW annot \in L3Port \cup {NoPort},
             StaticMapService(s, ports, annot)
      PROVE  KnownIsListed'
  <2>1. CASE KeepPort(s, ports, annot)
    BY <1>1, <2>1 DEF KeepPort, CanKeep, Assign, KnownIsListed
  <2>2. CASE UseKnownPort(s, ports, annot)
    BY <1>1, <2>2 DEF UseKnownPort, FindL3PortFor, Assign, KnownIsListed
  <2>3. CASE FailMapping(s)
    BY <1>1, <2>3 DEF FailMapping, mapperVars, KnownIsListed
  <2> QED BY <1>2, <2>1, <2>2, <2>3 DEF StaticMapService
<1>3. ASSUME NEW s \in Service, UnmapService(s)
      PROVE  KnownIsListed'
  BY <1>1, <1>3 DEF UnmapService, KnownIsListed
<1>4. CASE StaticCleanupPorts
  BY <1>1, <1>4 DEF StaticCleanupPorts, CleanupPorts, UsedL3Ports, KnownIsListed
<1>5. CASE StaticNewPortMapper
  BY <1>1, <1>5 DEF StaticNewPortMapper, NewPortMapper, KnownIsListed
<1>6. CASE UNCHANGED vars
  BY <1>6 DEF vars, mapperVars, KnownIsListed
<1> QED BY <1>2, <1>3, <1>4, <1>5, <1>6 DEF StaticNext

(* No service is ever mapped to an address that is not on the list, also   *)
(* not by the annotation it has from an earlier list.                      *)
THEOREM MappedAreListed == StaticSpec => []MappedIsListed
<1>1. Init => KnownIsListed
  BY DEF Init, KnownIsListed
<1>2. IndInv /\ KnownIsListed => MappedIsListed
  BY DEF IndInv, MappedPortIsKnown, KnownIsListed, MappedIsListed, CheckPortExists
<1> QED BY <1>1, <1>2, StaticKeepsKnown, SpecKeepsInv, StaticImplementsPortMapper, PTL
        DEF StaticSpec
=============================================================================
