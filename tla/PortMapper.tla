----------------------------- MODULE PortMapper -----------------------------
(***************************************************************************)
(* The port mapper of the controller (internal/controller/port_mapper.go): *)
(* the in-memory table that gives each LoadBalancer service one L3 port (a *)
(* port of the backend, i.e. one address) and reserves its L4 port numbers *)
(* on it.  One action is one call of the PortMapper interface; the worker  *)
(* is its only writer, so calls do not overlap.                            *)
(*                                                                         *)
(* The Go maps are total functions here.  services[s].l3port = NoPort says *)
(* that s is not a key of c.services; l3ports is the key set of c.l3ports; *)
(* allocations[p][n] = Free says that n is not a key of p's Allocations    *)
(* (Free also plays the empty service key that findL3PortFor passes).      *)
(*                                                                         *)
(* The backend (OpenStack, or the static list) is external: `backend` is   *)
(* the set of ports that exist there, `issued` those that ever existed,    *)
(* because a port ID is a UUID and is never issued twice.  Foreign ports   *)
(* exist without the load balancer's tag: CheckPortExists finds them, the  *)
(* listing of available ports and the cleanup do not.  The static manager  *)
(* is the case in which every ProvisionPort fails and nothing is deleted.  *)
(*                                                                         *)
(* Abstracted: the protocol of an L4 port (Allocations is keyed by the     *)
(* number alone), and service objects (a call carries the port numbers and *)
(* the inbound-port annotation).  The API server admits no LoadBalancer    *)
(* service without a port, so `ports` is never empty.                      *)
(***************************************************************************)
CONSTANTS
    Service,    \* service identifiers, namespace/name
    L3Port,     \* IDs of backend ports, those not issued yet included
    L4Port,     \* L4 port numbers
    NoPort,     \* the empty port ID
    Free,       \* an L4 port number nobody holds
    Foreign     \* the backend ports that do not carry the tag

ASSUME PortMapperAssumption ==
    /\ NoPort \notin L3Port
    /\ Free \notin Service
    /\ Foreign \subseteq L3Port

VARIABLES
    services,       \* c.services
    l3ports,        \* the keys of c.l3ports
    allocations,    \* the Allocations of each L3 port
    backend,        \* the ports that exist in the backend
    issued,         \* the ports that ever existed there
    reply           \* what the last call was about and what it returned

mapperVars == <<services, l3ports, allocations>>
vars == <<services, l3ports, allocations, backend, issued, reply>>

Unmapped == [l3port |-> NoPort, ports |-> {}]
NoAllocations == [n \in L4Port |-> Free]
PortSets == (SUBSET L4Port) \ {{}}

(* `svcs` is the service of the call, or the evicted services; `ports` the *)
(* L3 ports that GetUsedL3Ports returns or SetAvailableL3Ports receives.   *)
Reply(op, svcs, ports, err) ==
    [op |-> op, svcs |-> svcs, ports |-> ports, err |-> err]

Ops == {"NewPortMapper", "MapService", "UnmapService", "CleanupPorts",
        "SetAvailableL3Ports", "PortVanishes"}

IsMapped(s) == services[s].l3port # NoPort
GetServiceL3Port(s) == services[s].l3port
UsedL3Ports == {p \in l3ports : allocations[p] # NoAllocations}

-----------------------------------------------------------------------------
(* Definitions whose names end in _Slip are not the code: each is a slip   *)
(* that could have been made there.  A property listed with one in         *)
(* PROJECT.json fails when the slip takes the place of the definition.     *)
AnyPortSuits_Slip(p, ports, key) ==
    \E n \in ports : allocations[p][n] \in {Free, key}
OwnPortBlocks_Slip(p, ports, key) ==
    \A n \in ports : allocations[p][n] = Free

(* An L3 port suits a set of numbers iff each is free on it or already     *)
(* belongs to the asking service.                                          *)
IsPortSuitableFor(p, ports, key) ==
    \A n \in ports : allocations[p][n] \in {Free, key}

EmptyPort_Slip(ports) ==
    LET found == {p \in l3ports : IsPortSuitableFor(p, ports, Free)}
    IN  IF found = {} THEN {NoPort} ELSE found

(* findL3PortFor returns the first suitable port in Go's random map order. *)
FindL3PortFor(ports) == {p \in l3ports : IsPortSuitableFor(p, ports, Free)}

(* The port a service wants: the one it has, else the annotated one.       *)
PreferredPort(s, annot) == IF IsMapped(s) THEN services[s].l3port ELSE annot

UncheckedPort_Slip(p, s, ports) ==
    /\ p # NoPort
    /\ p \in l3ports => IsPortSuitableFor(p, ports, s)

(* The preferred port is kept if the backend still has it and no other     *)
(* service holds one of the numbers; a port not known yet has no holders.  *)
CanKeep(p, s, ports) ==
    /\ p \in backend
    /\ p \in l3ports => IsPortSuitableFor(p, ports, s)

Emplaced(p) == [allocations EXCEPT ![p] = NoAllocations]

WholePort_Slip(allocs, s) ==
    [p \in L3Port |-> IF \E n \in L4Port : allocs[p][n] = s
                         THEN NoAllocations ELSE allocs[p]]

Released(allocs, s) ==
    [p \in L3Port |-> [n \in L4Port |->
        IF allocs[p][n] = s THEN Free ELSE allocs[p][n]]]

NoUnmap_Slip(allocs, s, ports, p) ==
    /\ services' = [services EXCEPT ![s] = [l3port |-> p, ports |-> ports]]
    /\ l3ports' = l3ports \cup {p}
    /\ allocations' = [allocs EXCEPT ![p] =
           [n \in L4Port |-> IF n \in ports THEN s ELSE allocs[p][n]]]
    /\ reply' = Reply("MapService", {s}, {}, FALSE)
NoEmplace_Slip(allocs, s, ports, p) ==
    /\ services' = [services EXCEPT ![s] = [l3port |-> p, ports |-> ports]]
    /\ allocations' = [allocs EXCEPT ![p] =
           [n \in L4Port |-> IF n \in ports THEN s ELSE allocs[p][n]]]
    /\ reply' = Reply("MapService", {s}, {}, FALSE)
    /\ UNCHANGED l3ports

(* The tail of MapService: unmap the old mapping, record the new one and   *)
(* reserve the numbers on the port.                                        *)
Assign(allocs, s, ports, p) ==
    LET cleared == IF IsMapped(s) THEN Released(allocs, s) ELSE allocs
    IN  /\ services' = [services EXCEPT ![s] = [l3port |-> p, ports |-> ports]]
        /\ l3ports' = l3ports \cup {p}
        /\ allocations' = [cleared EXCEPT ![p] =
               [n \in L4Port |-> IF n \in ports THEN s ELSE cleared[p][n]]]
        /\ reply' = Reply("MapService", {s}, {}, FALSE)

FailMapping(s) ==
    /\ reply' = Reply("MapService", {s}, {}, TRUE)
    /\ UNCHANGED mapperVars

(* ProvisionPort creates a port with a new ID.                             *)
ProvisionPort(p) ==
    /\ p \in L3Port \ issued
    /\ backend' = backend \cup {p}
    /\ issued' = issued \cup {p}

-----------------------------------------------------------------------------
(* The branches of MapService.  CheckPortExists may fail ...               *)
CheckFails(s, annot) ==
    /\ PreferredPort(s, annot) # NoPort
    /\ FailMapping(s)
    /\ UNCHANGED <<backend, issued>>

(* ... or the service stays on the port it prefers ...                     *)
KeepPort(s, ports, annot) ==
    LET p == PreferredPort(s, annot)
    IN  /\ CanKeep(p, s, ports)
        /\ Assign(IF p \in l3ports THEN allocations ELSE Emplaced(p),
                  s, ports, p)
        /\ UNCHANGED <<backend, issued>>

(* ... or it moves to another known port ...                               *)
UseKnownPort(s, ports, annot) ==
    /\ ~CanKeep(PreferredPort(s, annot), s, ports)
    /\ \E p \in FindL3PortFor(ports) : Assign(allocations, s, ports, p)
    /\ UNCHANGED <<backend, issued>>

(* ... or, when no known port suits, to a new one ...                      *)
UseNewPort(s, ports, annot) ==
    /\ ~CanKeep(PreferredPort(s, annot), s, ports)
    /\ FindL3PortFor(ports) = {}
    /\ \E p \in L3Port : /\ ProvisionPort(p)
                         /\ Assign(Emplaced(p), s, ports, p)

(* ... unless provisioning fails, which may leave the port it created.     *)
ProvisionFails(s, ports, annot) ==
    /\ ~CanKeep(PreferredPort(s, annot), s, ports)
    /\ FindL3PortFor(ports) = {}
    /\ FailMapping(s)
    /\ \/ UNCHANGED <<backend, issued>>
       \/ \E p \in L3Port : ProvisionPort(p)

MapService(s, ports, annot) ==
    \/ CheckFails(s, annot)
    \/ KeepPort(s, ports, annot)
    \/ UseKnownPort(s, ports, annot)
    \/ UseNewPort(s, ports, annot)
    \/ ProvisionFails(s, ports, annot)

UnmapService(s) ==
    /\ services' = [services EXCEPT ![s] = Unmapped]
    /\ allocations' = Released(allocations, s)
    /\ reply' = Reply("UnmapService", {s}, {}, FALSE)
    /\ UNCHANGED <<l3ports, backend, issued>>

(* The worker's cleanupPorts: GetUsedL3Ports forgets the L3 ports without  *)
(* an allocation and returns the others; CleanUnusedPorts then deletes the *)
(* tagged ports that are not among them, as far as the backend obeys.      *)
CleanupPorts ==
    /\ l3ports' = UsedL3Ports
    /\ reply' = Reply("CleanupPorts", {}, UsedL3Ports, FALSE)
    /\ \E gone \in SUBSET ((backend \ Foreign) \ UsedL3Ports) :
           backend' = backend \ gone
    /\ UNCHANGED <<services, allocations, issued>>

(* SetAvailableL3Ports evicts the services that hold a number of an L3     *)
(* port that is not in the list, and forgets these ports.                  *)
SetAvailableL3Ports(available) ==
    LET evicted == {s \in Service : /\ IsMapped(s)
                                    /\ \E p \in l3ports \ available, n \in L4Port :
                                           allocations[p][n] = s}
    IN  /\ services' = [s \in Service |->
               IF s \in evicted THEN Unmapped ELSE services[s]]
        /\ l3ports' = l3ports \cap available
        /\ allocations' = [p \in L3Port |->
               IF p \in l3ports \ available THEN NoAllocations ELSE allocations[p]]
        /\ reply' = Reply("SetAvailableL3Ports", evicted, available, FALSE)
        /\ UNCHANGED <<backend, issued>>

(* A new process: NewPortMapper knows the tagged ports and no service.     *)
(* The old one may have ended inside ProvisionPort, after it had tagged    *)
(* the port: then that port is one of them.                                *)
NewPortMapper ==
    /\ services' = [s \in Service |-> Unmapped]
    /\ \/ UNCHANGED <<backend, issued>>
       \/ /\ \E ports \in PortSets : FindL3PortFor(ports) = {}
          /\ \E p \in L3Port : ProvisionPort(p)
    /\ l3ports' = backend' \ Foreign
    /\ allocations' = [p \in L3Port |-> NoAllocations]
    /\ reply' = Reply("NewPortMapper", {}, {}, FALSE)

(* Somebody deletes a port in the backend.                                 *)
PortVanishes(p) ==
    /\ p \in backend
    /\ backend' = backend \ {p}
    /\ reply' = Reply("PortVanishes", {}, {p}, FALSE)
    /\ UNCHANGED <<services, l3ports, allocations, issued>>

-----------------------------------------------------------------------------
Init ==
    /\ backend \in {B \in SUBSET L3Port : Foreign \subseteq B}
    /\ issued = backend
    /\ services = [s \in Service |-> Unmapped]
    /\ l3ports = backend \ Foreign
    /\ allocations = [p \in L3Port |-> NoAllocations]
    /\ reply = Reply("NewPortMapper", {}, {}, FALSE)

Next ==
    \/ \E s \in Service, ports \in PortSets, annot \in L3Port \cup {NoPort} :
           MapService(s, ports, annot)
    \/ \E s \in Service : UnmapService(s)
    \/ CleanupPorts
    \/ \E available \in SUBSET L3Port : SetAvailableL3Ports(available)
    \/ NewPortMapper
    \/ \E p \in L3Port : PortVanishes(p)

Spec == Init /\ [][Next]_vars

-----------------------------------------------------------------------------
(* The types of the variables: each service has a port and numbers, or     *)
(* neither, and every number of an L3 port has a holder or is free.        *)
TypeOK ==
    /\ services \in [Service -> [l3port : L3Port \cup {NoPort}, ports : SUBSET L4Port]]
    /\ l3ports \subseteq L3Port
    /\ allocations \in [L3Port -> [L4Port -> Service \cup {Free}]]
    /\ backend \subseteq issued
    /\ issued \subseteq L3Port
    /\ reply \in [op : Ops, svcs : SUBSET Service, ports : SUBSET L3Port, err : BOOLEAN]

(* The two tables of the mapper agree: a number of an L3 port is held by   *)
(* exactly the service that is mapped to that port with that number, over  *)
(* every order of mappings, relocations, evictions and cleanups.           *)
TablesAgree ==
    \A s \in Service, p \in L3Port, n \in L4Port :
        allocations[p][n] = s <=> (services[s].l3port = p /\ n \in services[s].ports)

(* A mapped service has numbers and its port is in the table, so           *)
(* MapService can index c.l3ports and the cleanup will count the port.     *)
MappedPortIsKnown ==
    \A s \in Service :
        IF IsMapped(s) THEN /\ services[s].l3port \in l3ports
                            /\ services[s].ports # {}
                       ELSE services[s].ports = {}

(* Every L3 port the mapper knows or ever handed out was once issued by    *)
(* the backend, so a new port never collides with one in the table.        *)
KnownPortsWereIssued == l3ports \subseteq issued

(* No two services share an L4 port number of an L3 port: what the mapper  *)
(* is for.                                                                 *)
Exclusive ==
    \A s, t \in Service :
        s # t /\ IsMapped(s) /\ services[s].l3port = services[t].l3port
            => services[s].ports \cap services[t].ports = {}

(* A cleanup never deletes the backend port of a mapped service, and it    *)
(* tells the backend of exactly the ports that mapped services use.        *)
CleanupSparesMapped ==
    [][reply'.op = "CleanupPorts" =>
        /\ (backend \ backend') \cap {services[s].l3port : s \in Service} = {}
        /\ reply'.ports = {services[s].l3port : s \in {t \in Service : IsMapped(t)}}]_vars

(* Mapping a service again with numbers it already holds never moves it,   *)
(* as long as the backend has its port: resyncs do not change addresses.   *)
RemapIsStable ==
    [][\A s \in Service :
        (/\ reply'.op = "MapService"
         /\ reply'.svcs = {s}
         /\ IsMapped(s)
         /\ services[s].l3port \in backend
         /\ services'[s].ports \subseteq services[s].ports)
            => services'[s].l3port = services[s].l3port]_vars

(* SetAvailableL3Ports unmaps and returns exactly the services whose port  *)
(* is not in the list (the interface's comment).                           *)
EvictionIsExact ==
    [][reply'.op = "SetAvailableL3Ports" =>
        LET lost == {s \in Service : IsMapped(s) /\ services[s].l3port \notin reply'.ports}
        IN  /\ reply'.svcs = lost
            /\ \A s \in Service : services'[s] = IF s \in lost THEN Unmapped ELSE services[s]
            /\ l3ports' \subseteq reply'.ports]_vars

(* The mapper implements PortAssignment.                                   *)
PA == INSTANCE PortAssignment WITH assigned <- services
ImplementsPortAssignment == PA!Spec
=============================================================================
