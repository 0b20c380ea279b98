-------------------------- MODULE LoadBalancerModel --------------------------
(***************************************************************************)
(* What the controller tells the agents: the three generators of the load  *)
(* balancer model (internal/controller/model_*.go), the checks the agent   *)
(* makes before it uses one (the `validate` tags of internal/model), and,  *)
(* as the reference, where Kubernetes wants a connection to end and which  *)
(* connections its network policies admit.                                 *)
(*                                                                         *)
(* A generator reads a cluster, i.e. a snapshot of the informers' caches   *)
(* and of the port mapper:                                                 *)
(*   assignment  of each mapped service, the address of its L3 port        *)
(*   services    ports (a sequence) and clusterIP of each service          *)
(*   endpoints   of each service, a sequence of subsets                    *)
(*   nodes       the internal addresses of the nodes                       *)
(*   policies    a sequence of network policies                            *)
(* A policy has the name, whether it is of type Ingress, the addresses of  *)
(* the pods it selects (`pods`) and a sequence of ingress rules; a rule    *)
(* has peers and ports.  A CIDR is the set of the client addresses in it.  *)
(* Clients are outside of the cluster, so a peer that is no IP block       *)
(* matches none of them.                                                   *)
(*                                                                         *)
(* The L3 ports come from the mapper and the L4 ports from a lister that   *)
(* may be newer, so after a port change two services can share a port of   *)
(* an address.                                                             *)
(*                                                                         *)
(* Lists whose order nobody looks at are sets.  L3 ports have distinct     *)
(* addresses.  Namespaces are not modelled: two policies of the same name  *)
(* are of different namespaces.  Only the Pod model reads endpoints and    *)
(* policies.                                                               *)
(***************************************************************************)
EXTENDS Integers, Sequences, SequencesExt, FiniteSets

CONSTANTS
    IPv6,           \* the addresses that are IPv6; all others are IPv4
    NoAddresses     \* a nil list of addresses

Family(a) == IF a \in IPv6 THEN 6 ELSE 4

(* Optional ports: Unset is a nil pointer; Named is the IntVal of a port   *)
(* that is given by name.                                                  *)
Unset == -1
Named == 0

IsList(x) == x \in Seq(Range(x))

(* The entries of list s that are in S, in the order of s.                 *)
Keep(s, S) == FlattenSeq([i \in DOMAIN s |-> IF s[i] \in S THEN <<s[i]>> ELSE <<>>])

Layers == {"NodePort", "ClusterIP", "Pod"}

-----------------------------------------------------------------------------
(* Kubernetes.  The port of an endpoint carries the name of the service    *)
(* port it is for; a service without endpoints is reached by nobody.       *)
EndpointsOf(C, s, p) ==
    UNION {{<<a, q.port>> : a \in sub.addrs,
                            q \in {r \in Range(sub.ports) : r.name = p.name /\ r.proto = p.proto}} :
           sub \in Range(C.endpoints[s])}

(* Where the docs (controller/backend_layer.md) want port p of s to lead.  *)
Backends(layer, C, s, p) ==
    CASE layer = "NodePort"  -> {<<a, p.node>> : a \in {b \in C.nodes : Family(b) = Family(C.assignment[s])}}
      [] layer = "ClusterIP" -> {<<C.services[s].clusterIP, p.port>>}
      [] layer = "Pod"       -> EndpointsOf(C, s, p)

(* The ports of services that share the address and the port of port p of  *)
(* s, with their services: <<s, p>> and, for a while, others.              *)
Sharers(C, s, p) ==
    UNION {{<<t, q>> : q \in {r \in Range(C.services[t].ports) : r.proto = p.proto /\ r.port = p.port}} :
           t \in {u \in DOMAIN C.assignment : C.assignment[u] = C.assignment[s]}}

PeerMatches(peer, src) ==
    peer.block /\ src \in peer.cidr /\ \A x \in Range(peer.except) : src \notin x

(* `named` is the container port that all named ports stand for here.      *)
PortMatches(f, proto, port, named) ==
    /\ f.proto = proto
    /\ \/ f.port = Unset
       \/ f.port = Named /\ port = named
       \/ f.port > 0 /\ f.port <= port /\ port <= (IF f.end = Unset THEN f.port ELSE f.end)

(* A pod that no ingress policy selects is open; otherwise one rule of one *)
(* of the policies must admit the connection.                              *)
Admits(C, pkt, named) ==
    LET selecting == {pol \in Range(C.policies) : pol.isIngress /\ pkt.dst \in pol.pods}
    IN  selecting = {} \/ \E pol \in selecting : \E rule \in Range(pol.ingress) :
            /\ rule.from = <<>> \/ \E peer \in Range(rule.from) : PeerMatches(peer, pkt.src)
            /\ rule.ports = <<>> \/ \E f \in Range(rule.ports) :
                                        PortMatches(f, pkt.proto, pkt.port, named)

(* What Kubernetes sees to: the endpoints tell apart the ports of a        *)
(* subset, none of which is zero, by name and protocol.                    *)
Served(C) == DOMAIN C.assignment \cap DOMAIN C.services

DistinctEndpoints(C) ==
    \A s \in Served(C) :
        /\ IsList(C.endpoints[s])
        /\ \A sub \in Range(C.endpoints[s]) :
              /\ IsList(sub.ports)
              /\ \A q \in Range(sub.ports) : q.port \in Nat \ {0}
              /\ \A q, r \in Range(sub.ports) : q.name = r.name /\ q.proto = r.proto => q = r

(* A port that is given by name is no range.                               *)
SoundPolicies(C) ==
    /\ IsList(C.policies)
    /\ \A pol \in Range(C.policies) :
          /\ IsFiniteSet(pol.pods) /\ IsList(pol.ingress)
          /\ \A rule \in Range(pol.ingress) :
                /\ IsList(rule.from) /\ \A peer \in Range(rule.from) : IsList(peer.except)
                /\ IsList(rule.ports)
                /\ \A f \in Range(rule.ports) : /\ {f.port, f.end} \subseteq Nat \cup {Unset}
                                                /\ f.port = Named => f.end = Unset

WellFormed(C) == DistinctEndpoints(C) /\ SoundPolicies(C)

(* What not every cluster is like: policies of one name, in two            *)
(* namespaces, and ports that are given by name.                           *)
UniqueNames(C) == \A i, j \in DOMAIN C.policies :
    C.policies[i].name = C.policies[j].name => i = j

HasNamedPorts(C) == \E pol \in Range(C.policies) : \E rule \in Range(pol.ingress) :
    \E f \in Range(rule.ports) : f.port = Named

-----------------------------------------------------------------------------
(* Definitions whose names end in _Slip are not the code: each is a slip   *)
(* that could have been made there.                                        *)

(* A generator groups the forwards of the services by their L3 port.       *)
GroupByAddress(C, forwards) ==
    {[address |-> a,
      ports |-> UNION {forwards[s] : s \in {t \in DOMAIN forwards : C.assignment[t] = a}}] :
        a \in {C.assignment[s] : s \in DOMAIN forwards}}

Mapped(C) == DOMAIN C.assignment

(* A generator fails as a whole if the lister lacks a mapped service.      *)
ModelFails(C) == ~(Mapped(C) \subseteq DOMAIN C.services)

Forward(p, dest, addrs) ==
    [proto |-> p.proto, inbound |-> p.port, dest |-> dest, addrs |-> addrs]

(* getDestinationAddresses; nothing is appended to a nil list.             *)
NodeAddresses(C, family) ==
    LET found == {a \in C.nodes : Family(a) = family}
    IN  IF found = {} THEN NoAddresses ELSE found

NodePortModel(C) ==
    LET forwards == [s \in Mapped(C) |->
            {Forward(p, p.node, NodeAddresses(C, Family(C.assignment[s]))) :
                p \in Range(C.services[s].ports)}]
    IN  [ingress |-> GroupByAddress(C, forwards), policies |-> <<>>, assignments |-> {}]

ClusterIPModel(C) ==
    LET forwards == [s \in Mapped(C) |->
            {Forward(p, p.port, {C.services[s].clusterIP}) : p \in Range(C.services[s].ports)}]
    IN  [ingress |-> GroupByAddress(C, forwards), policies |-> <<>>, assignments |-> {}]

Highest(indices) == CHOOSE i \in indices : \A j \in indices : j <= i

(* The port with the highest index.                                        *)
LastPort(subset, indices) == subset.ports[Highest(indices)].port

PortFirst_Slip(subset, name, targetPort, proto) ==
    LET ports == {i \in DOMAIN subset.ports : subset.ports[i].proto = proto}
        byName == {i \in ports : name # "" /\ subset.ports[i].name = name}
        byPort == {i \in ports : subset.ports[i].port = targetPort}
    IN  IF byPort # {} THEN LastPort(subset, byPort)
        ELSE IF byName # {} THEN LastPort(subset, byName)
        ELSE Unset

(* findPort: of the ports with the right protocol, the last one with the   *)
(* name, or else the last one with the number.                             *)
FindPort(subset, name, targetPort, proto) ==
    LET ports == {i \in DOMAIN subset.ports : subset.ports[i].proto = proto}
        byName == {i \in ports : name # "" /\ subset.ports[i].name = name}
        byPort == {i \in ports : subset.ports[i].port = targetPort}
    IN  IF byName # {} THEN LastPort(subset, byName)
        ELSE IF byPort # {} THEN LastPort(subset, byPort)
        ELSE Unset

(* A target port is a number, or 0 and a name.  Only the first subset of   *)
(* the endpoints counts, and a port that is not found in it is left out.   *)
PodForwards(C, s) ==
    LET subset == Head(C.endpoints[s])
        Dest(p) == IF p.target # Named THEN FindPort(subset, p.name, p.target, p.proto)
                                       ELSE FindPort(subset, p.targetName, p.port, p.proto)
    IN  {Forward(p, Dest(p), subset.addrs) :
            p \in {q \in Range(C.services[s].ports) : Dest(q) # Unset}}

(* buildAllowedIngress: the peers that are IP blocks, and the ports.       *)
BuildAllowedIngress(rule) ==
    [blocks |-> Keep(rule.from, {peer \in Range(rule.from) : peer.block}), ports |-> rule.ports]

(* buildNetworkPolicy: a rule whose peers are all selectors only admits    *)
(* what is inside of the cluster, and is dropped.                          *)
BuildNetworkPolicy(pol) ==
    LET External(rule) == rule.from = <<>> \/ \E peer \in Range(rule.from) : peer.block
        rules == Keep(pol.ingress, {rule \in Range(pol.ingress) : External(rule)})
    IN  [name |-> pol.name,
         ingresses |-> [i \in DOMAIN rules |-> BuildAllowedIngress(rules[i])]]

(* Each address that a policy selects is assigned the names of all the     *)
(* policies that do.                                                       *)
PodModel(C) ==
    LET policies == Keep(C.policies, {pol \in Range(C.policies) : pol.isIngress})
        Reachable == {s \in Mapped(C) : C.endpoints[s] # <<>>}
        forwards == [s \in Reachable |-> PodForwards(C, s)]
    IN  [ingress |-> GroupByAddress(C, forwards),
         policies |-> [i \in DOMAIN policies |-> BuildNetworkPolicy(policies[i])],
         assignments |-> {[address |-> a,
                           policies |-> {pol.name : pol \in {q \in Range(policies) : a \in q.pods}}] :
                             a \in UNION {pol.pods : pol \in Range(policies)}}]

GenerateModel(layer, C) ==
    CASE layer = "NodePort"  -> NodePortModel(C)
      [] layer = "ClusterIP" -> ClusterIPModel(C)
      [] layer = "Pod"       -> PodModel(C)

-----------------------------------------------------------------------------
(* validate.Struct: TCP or UDP only; a list of addresses, be it empty; an  *)
(* end port that is greater than the port.                                 *)
Protocols == {"TCP", "UDP"}

ValidForward(f) == f.proto \in Protocols /\ f.addrs # NoAddresses

ValidPortFilter(f) ==
    /\ f.proto \in Protocols
    /\ f.end # Unset => f.port # Unset /\ f.end > f.port

Valid(m) ==
    /\ \A i \in m.ingress : \A f \in i.ports : ValidForward(f)
    /\ \A pol \in Range(m.policies) : \A rule \in Range(pol.ingresses) :
           \A f \in Range(rule.ports) : ValidPortFilter(f)
=============================================================================
