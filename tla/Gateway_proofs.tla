--------------------------- MODULE Gateway_proofs ---------------------------
(***************************************************************************)
(* Proofs for Gateway, for any clusters that are well-formed, any packets  *)
(* and any number of requests, failed listings, restarts and reboots.      *)
(*                                                                         *)
(* First the models: each forward of a load balancer model leads to the    *)
(* backends of its service port, and each backend is in a forward.  What   *)
(* becomes of the policies, and of the chains that nft is given, is in     *)
(* Nftables_proofs.  Then the agent: the forwards in the kernel are those  *)
(* of the file that is in force, and as long as nft lists the chains, so   *)
(* are the chains, but for rules that are there more than once.            *)
(***************************************************************************)
EXTENDS Gateway, Nftables_proofs

-----------------------------------------------------------------------------
(* The generators.                                                         *)
LEMMA LastPortIsOne ==
    ASSUME NEW sub, IsList(sub.ports),
           NEW I \in SUBSET (DOMAIN sub.ports), I # {}
    PROVE  \E i \in I : LastPort(sub, I) = sub.ports[i].port
<1>1. PICK n \in Nat : DOMAIN sub.ports = 1..n
  BY DEF IsList
<1>2. \E i \in I : \A j \in I : j <= i
  BY <1>1, HasMaximum
<1>3. Highest(I) \in I
  BY <1>2 DEF Highest
<1> QED BY <1>3 DEF LastPort

LEMMA GroupExists ==
    ASSUME NEW C, NEW forwards, NEW t \in DOMAIN forwards
    PROVE  \E g \in GroupByAddress(C, forwards) :
              g.address = C.assignment[t] /\ forwards[t] \subseteq g.ports
<1> DEFINE Ports(a) == UNION {forwards[s] : s \in {u \in DOMAIN forwards : C.assignment[u] = a}}
           Group(a) == [address |-> a, ports |-> Ports(a)]
<1>1. GroupByAddress(C, forwards) = {Group(a) : a \in {C.assignment[s] : s \in DOMAIN forwards}}
  BY DEF GroupByAddress
<1>2. forwards[t] \subseteq Ports(C.assignment[t])
  OBVIOUS
<1>3. Group(C.assignment[t]).address = C.assignment[t]
      /\ Group(C.assignment[t]).ports = Ports(C.assignment[t])
  OBVIOUS
<1> HIDE DEF Group, Ports
<1> QED BY <1>1, <1>2, <1>3

(* A generator that groups forwards by address: what prerouting has.       *)
LEMMA GroupsKeepForwards ==
    ASSUME NEW C, NEW forwards, NEW m, m.ingress = GroupByAddress(C, forwards), NEW x
    PROVE  x \in Prerouting(m) <=>
              \E t \in DOMAIN forwards : \E f \in forwards[t] :
                  f.addrs # {} /\ x = [inbound |-> C.assignment[t], forward |-> f]
<1>1. ASSUME NEW t \in DOMAIN forwards, NEW f \in forwards[t], f.addrs # {},
             x = [inbound |-> C.assignment[t], forward |-> f]
      PROVE  x \in Prerouting(m)
  <2>1. PICK g \in m.ingress : g.address = C.assignment[t] /\ forwards[t] \subseteq g.ports
    BY GroupExists
  <2>2. x \in {[inbound |-> g.address, forward |-> h] : h \in {k \in g.ports : k.addrs # {}}}
    BY <1>1, <2>1
  <2> QED BY <2>1, <2>2 DEF Prerouting
<1>2. ASSUME x \in Prerouting(m)
      PROVE  \E t \in DOMAIN forwards : \E f \in forwards[t] :
                 f.addrs # {} /\ x = [inbound |-> C.assignment[t], forward |-> f]
  <2>1. PICK g \in m.ingress :
          x \in {[inbound |-> g.address, forward |-> h] : h \in {k \in g.ports : k.addrs # {}}}
    BY <1>2 DEF Prerouting
  <2>2. PICK h \in g.ports : h.addrs # {} /\ x = [inbound |-> g.address, forward |-> h]
    BY <2>1
  <2>3. PICK a \in {C.assignment[s] : s \in DOMAIN forwards} :
          g = [address |-> a,
               ports |-> UNION {forwards[s] : s \in {t \in DOMAIN forwards : C.assignment[t] = a}}]
    BY <2>1 DEF GroupByAddress
  <2>4. PICK t \in DOMAIN forwards : C.assignment[t] = a /\ h \in forwards[t]
    BY <2>2, <2>3
  <2> QED BY <2>2, <2>3, <2>4
<1> QED BY <1>1, <1>2

LeadsTo(f) == {<<a, f.dest>> : a \in f.addrs}

AllResolvable(l, C, s, p) ==
    l # "Pod" \/ \A x \in Sharers(C, s, p) : Resolvable(C, x[1], x[2])
AllBackends(l, C, s, p) == UNION {Backends(l, C, x[1], x[2]) : x \in Sharers(C, s, p)}

(* Every forward is made from a port of its service, and leads to the      *)
(* backends of that port.                                                  *)
MadeFrom(C, l, forwards) ==
    \A t \in DOMAIN forwards : \A f \in forwards[t] :
       \E q \in Range(C.services[t].ports) :
           /\ f.proto = q.proto /\ f.inbound = q.port
           /\ l # "Pod" \/ Resolvable(C, t, q) => LeadsTo(f) \subseteq Backends(l, C, t, q)

SharersOf ==
    \A C, s, p, t, q : t \in Mapped(C) /\ C.assignment[t] = C.assignment[s]
        /\ q \in Range(C.services[t].ports) /\ q.proto = p.proto /\ q.port = p.port
            => <<t, q>> \in Sharers(C, s, p)

LEMMA SharersHave == SharersOf
<1> SUFFICES ASSUME NEW C, NEW s, NEW p, NEW t \in DOMAIN C.assignment,
                    C.assignment[t] = C.assignment[s], NEW q \in Range(C.services[t].ports),
                    q.proto = p.proto, q.port = p.port
             PROVE  <<t, q>> \in Sharers(C, s, p)
  BY DEF SharersOf, Mapped
<1>1. t \in {u \in DOMAIN C.assignment : C.assignment[u] = C.assignment[s]}
  OBVIOUS
<1>2. <<t, q>> \in {<<t, k>> : k \in {r \in Range(C.services[t].ports) :
                                          r.proto = p.proto /\ r.port = p.port}}
  OBVIOUS
<1> QED BY <1>1, <1>2 DEF Sharers

(* What a connection to port p of service s reaches then.                  *)
LEMMA ReachesForwards ==
    ASSUME NEW C, NEW l, NEW s \in Mapped(C), NEW p \in Range(C.services[s].ports),
           NEW forwards, DOMAIN forwards \subseteq Mapped(C), MadeFrom(C, l, forwards),
           NEW m, m.ingress = GroupByAddress(C, forwards), NEW r, r.nat = Prerouting(m)
    PROVE  LET reached == Destinations(r, C.assignment[s], p.proto, p.port)
           IN  /\ AllResolvable(l, C, s, p) => reached \subseteq AllBackends(l, C, s, p)
               /\ reached # {} => C.assignment[s] \in VirtualAddresses(m)
               /\ s \in DOMAIN forwards =>
                     \A f \in forwards[s] : f.proto = p.proto /\ f.inbound = p.port =>
                         LeadsTo(f) \subseteq reached
<1> DEFINE reached == Destinations(r, C.assignment[s], p.proto, p.port)
<1>1. ASSUME NEW y \in reached
      PROVE  /\ AllResolvable(l, C, s, p) => y \in AllBackends(l, C, s, p)
             /\ C.assignment[s] \in VirtualAddresses(m)
  <2>1. PICK g \in r.nat : /\ g.inbound = C.assignment[s]
                           /\ g.forward.proto = p.proto /\ g.forward.inbound = p.port
                           /\ y \in LeadsTo(g.forward)
    BY <1>1 DEF Destinations, LeadsTo
  <2>2. PICK t \in DOMAIN forwards : \E h \in forwards[t] :
          h.addrs # {} /\ g = [inbound |-> C.assignment[t], forward |-> h]
    BY <2>1, GroupsKeepForwards
  <2>3. PICK h \in forwards[t] : h.addrs # {} /\ g = [inbound |-> C.assignment[t], forward |-> h]
    BY <2>2
  <2>4. PICK q \in Range(C.services[t].ports) :
          /\ h.proto = q.proto /\ h.inbound = q.port
          /\ l # "Pod" \/ Resolvable(C, t, q) => LeadsTo(h) \subseteq Backends(l, C, t, q)
    BY <2>2, <2>3 DEF MadeFrom
  <2>5. q.proto = p.proto /\ q.port = p.port /\ C.assignment[t] = C.assignment[s] /\ g.forward = h
    BY <2>1, <2>3, <2>4
  <2>6. <<t, q>> \in Sharers(C, s, p)
    BY <2>2, <2>4, <2>5, SharersHave DEF SharersOf
  <2>7. l # "Pod" \/ Resolvable(C, t, q) => y \in Backends(l, C, t, q)
    BY <2>1, <2>4, <2>5
  <2>8. \E i \in m.ingress : i.address = C.assignment[s]
    BY <2>2, <2>5, GroupExists
  <2> QED BY <2>6, <2>7, <2>8 DEF VirtualAddresses, AllResolvable, AllBackends
<1>2. ASSUME s \in DOMAIN forwards, NEW f \in forwards[s], f.proto = p.proto, f.inbound = p.port
      PROVE  LeadsTo(f) \subseteq reached
  <2> DEFINE g == [inbound |-> C.assignment[s], forward |-> f]
  <2>1. f.addrs # {} => g \in r.nat
    BY <1>2, GroupsKeepForwards
  <2>2. g.inbound = C.assignment[s] /\ g.forward = f
    OBVIOUS
  <2> HIDE DEF g
  <2> QED BY <1>2, <2>1, <2>2 DEF Destinations, LeadsTo
<1> QED BY <1>1, <1>2

LEMMA ForwardsAreValid ==
    ASSUME NEW C, NEW forwards, NEW m, m.ingress = GroupByAddress(C, forwards), Valid(m),
           NEW t \in DOMAIN forwards, NEW f \in forwards[t]
    PROVE  f.addrs # NoAddresses
<1>1. PICK g \in m.ingress : forwards[t] \subseteq g.ports
  BY GroupExists
<1> QED BY <1>1 DEF Valid, ValidForward

(* What a rule set with the forwards of a model does for port p of s.      *)
Serves(r, l, C, s, p) ==
    LET reached == Destinations(r, C.assignment[s], p.proto, p.port)
        sharers == Sharers(C, s, p)
    IN  l # "Pod" \/ (\A x \in sharers : Resolvable(C, x[1], x[2])) =>
          /\ reached \subseteq UNION {Backends(l, C, x[1], x[2]) : x \in sharers}
          /\ sharers = {<<s, p>>} /\ (l # "Pod" \/ Len(C.endpoints[s]) <= 1)
                => Backends(l, C, s, p) \subseteq reached
          /\ reached # {} => C.assignment[s] \in VirtualAddresses(GenerateModel(l, C))

(* What the three layers have in common: their forwards are made from the  *)
(* ports of the services, and that of a port nobody shares leads to all    *)
(* of its backends.                                                        *)
LEMMA ForwardsServe ==
    ASSUME NEW C, NEW l, NEW s \in Mapped(C), NEW p \in Range(C.services[s].ports),
           NEW forwards, DOMAIN forwards \subseteq Mapped(C), MadeFrom(C, l, forwards),
           NEW m, m = GenerateModel(l, C), m.ingress = GroupByAddress(C, forwards),
           NEW r, r.nat = Prerouting(m),
           l # "Pod" \/ (Resolvable(C, s, p) /\ Len(C.endpoints[s]) <= 1) =>
               \/ Backends(l, C, s, p) = {}
               \/ s \in DOMAIN forwards /\ \E f \in forwards[s] :
                     /\ f.proto = p.proto /\ f.inbound = p.port
                     /\ Backends(l, C, s, p) \subseteq LeadsTo(f)
    PROVE  Serves(r, l, C, s, p)
<1> DEFINE reached == Destinations(r, C.assignment[s], p.proto, p.port)
           sharers == Sharers(C, s, p)
<1>1. /\ AllResolvable(l, C, s, p) => reached \subseteq AllBackends(l, C, s, p)
      /\ reached # {} => C.assignment[s] \in VirtualAddresses(m)
      /\ s \in DOMAIN forwards =>
            \A f \in forwards[s] : f.proto = p.proto /\ f.inbound = p.port =>
                LeadsTo(f) \subseteq reached
  BY ReachesForwards
<1> HIDE DEF reached, sharers
<1>2. ASSUME sharers = {<<s, p>>}, l # "Pod" \/ Len(C.endpoints[s]) <= 1,
             AllResolvable(l, C, s, p)
      PROVE  Backends(l, C, s, p) \subseteq reached
  <2>1. l # "Pod" \/ Resolvable(C, s, p)
    BY <1>2 DEF AllResolvable, sharers
  <2> QED BY <1>1, <1>2, <2>1
<1> QED BY <1>1, <1>2 DEF Serves, reached, sharers, AllResolvable, AllBackends

LEMMA NodePortServes ==
    ASSUME NEW C, ~ModelFails(C), Valid(GenerateModel("NodePort", C)),
           NEW r, r.nat = Prerouting(GenerateModel("NodePort", C)),
           NEW s \in Mapped(C), NEW p \in Range(C.services[s].ports)
    PROVE  Serves(r, "NodePort", C, s, p)
<1> DEFINE Addrs(t) == NodeAddresses(C, Family(C.assignment[t]))
           forwards == [t \in Mapped(C) |->
                          {Forward(q, q.node, Addrs(t)) : q \in Range(C.services[t].ports)}]
           found(t) == {a \in C.nodes : Family(a) = Family(C.assignment[t])}
           m == NodePortModel(C)
<1>1. m.ingress = GroupByAddress(C, forwards) /\ GenerateModel("NodePort", C) = m
  BY DEF NodePortModel, GenerateModel
<1>2. ASSUME NEW t \in Mapped(C), NEW q \in Range(C.services[t].ports)
      PROVE  Backends("NodePort", C, t, q) = {<<a, q.node>> : a \in Addrs(t)}
  <2>1. Forward(q, q.node, Addrs(t)) \in forwards[t]
    OBVIOUS
  <2>2. Addrs(t) # NoAddresses
    BY <1>1, <2>1, ForwardsAreValid DEF Forward
  <2>3. Addrs(t) = found(t)
    BY <2>2 DEF NodeAddresses
  <2> QED BY <2>3 DEF Backends
<1>3. Forward(p, p.node, Addrs(s)) \in forwards[s]
  OBVIOUS
<1>4. MadeFrom(C, "NodePort", forwards)
  BY <1>2 DEF Forward, MadeFrom, LeadsTo
<1>5. DOMAIN forwards = Mapped(C)
  OBVIOUS
<1>6. \E f \in forwards[s] :
          /\ f.proto = p.proto /\ f.inbound = p.port
          /\ Backends("NodePort", C, s, p) \subseteq LeadsTo(f)
  BY <1>2, <1>3 DEF Forward, LeadsTo
<1> HIDE DEF forwards, Addrs, found, m
<1> QED BY <1>1, <1>4, <1>5, <1>6, ForwardsServe

LEMMA ClusterIPServes ==
    ASSUME NEW C, ~ModelFails(C),
           NEW r, r.nat = Prerouting(GenerateModel("ClusterIP", C)),
           NEW s \in Mapped(C), NEW p \in Range(C.services[s].ports)
    PROVE  Serves(r, "ClusterIP", C, s, p)
<1> DEFINE Addrs(t) == {C.services[t].clusterIP}
           forwards == [t \in Mapped(C) |->
                          {Forward(q, q.port, Addrs(t)) : q \in Range(C.services[t].ports)}]
           m == ClusterIPModel(C)
<1>1. m.ingress = GroupByAddress(C, forwards) /\ GenerateModel("ClusterIP", C) = m
  BY DEF ClusterIPModel, GenerateModel
<1>2. Forward(p, p.port, Addrs(s)) \in forwards[s]
  OBVIOUS
<1>3. \A t, q : Backends("ClusterIP", C, t, q) = {<<a, q.port>> : a \in Addrs(t)}
  BY DEF Backends
<1>4. MadeFrom(C, "ClusterIP", forwards)
  BY <1>3 DEF Forward, MadeFrom, LeadsTo
<1>5. DOMAIN forwards = Mapped(C)
  OBVIOUS
<1>6. \E f \in forwards[s] :
          /\ f.proto = p.proto /\ f.inbound = p.port
          /\ Backends("ClusterIP", C, s, p) \subseteq LeadsTo(f)
  BY <1>2, <1>3 DEF Forward, LeadsTo
<1> HIDE DEF forwards, Addrs, m
<1> QED BY <1>1, <1>4, <1>5, <1>6, ForwardsServe

(* x is the number of a port of this name and protocol.                    *)
PortOf(sub, name, proto, x) ==
    \E q \in Range(sub.ports) : q.proto = proto /\ q.name = name /\ x = q.port

LEMMA FindsByName ==
    ASSUME NEW sub, IsList(sub.ports), NEW name, NEW target, NEW proto,
           NEW e \in Range(sub.ports), e.proto = proto, e.name = name, name # ""
    PROVE  PortOf(sub, name, proto, FindPort(sub, name, target, proto))
<1> DEFINE ports == {i \in DOMAIN sub.ports : sub.ports[i].proto = proto}
           byName == {i \in ports : name # "" /\ sub.ports[i].name = name}
           byPort == {i \in ports : sub.ports[i].port = target}
<1>1. FindPort(sub, name, target, proto) =
          IF byName # {} THEN LastPort(sub, byName)
          ELSE IF byPort # {} THEN LastPort(sub, byPort) ELSE Unset
  BY DEF FindPort
<1>2. byName \in SUBSET DOMAIN sub.ports
  OBVIOUS
<1>3. PICK k \in DOMAIN sub.ports : sub.ports[k] = e
  BY DEF Range
<1>4. k \in byName
  BY <1>3
<1>5. PICK i \in byName : LastPort(sub, byName) = sub.ports[i].port
  <2> HIDE DEF byName
  <2> QED BY <1>2, <1>4, LastPortIsOne
<1>6. sub.ports[i] \in Range(sub.ports) /\ sub.ports[i].proto = proto /\ sub.ports[i].name = name
  BY DEF Range
<1> HIDE DEF byName, byPort
<1> QED BY <1>1, <1>4, <1>5, <1>6 DEF PortOf

LEMMA FindsByNumber ==
    ASSUME NEW sub, IsList(sub.ports), NEW target, NEW proto,
           NEW e \in Range(sub.ports), e.proto = proto, e.port = target
    PROVE  FindPort(sub, "", target, proto) = target
<1> DEFINE byPort == {i \in {j \in DOMAIN sub.ports : sub.ports[j].proto = proto} :
                         sub.ports[i].port = target}
<1>1. FindPort(sub, "", target, proto) = IF byPort # {} THEN LastPort(sub, byPort) ELSE Unset
  BY DEF FindPort
<1>2. byPort \in SUBSET DOMAIN sub.ports
  OBVIOUS
<1>3. PICK k \in DOMAIN sub.ports : sub.ports[k] = e
  BY DEF Range
<1>4. k \in byPort
  BY <1>3
<1>5. PICK i \in byPort : LastPort(sub, byPort) = sub.ports[i].port
  <2> HIDE DEF byPort
  <2> QED BY <1>2, <1>4, LastPortIsOne
<1>6. sub.ports[i].port = target
  OBVIOUS
<1> HIDE DEF byPort
<1> QED BY <1>1, <1>4, <1>5, <1>6

(* The target port of q, as PodForwards looks it up.                       *)
Target(sub, q) ==
    IF q.target # Named THEN FindPort(sub, q.name, q.target, q.proto)
                        ELSE FindPort(sub, q.targetName, q.port, q.proto)

LEMMA TargetIsBackend ==
    ASSUME NEW C, WellFormed(C), ~ModelFails(C),
           NEW s \in Mapped(C), NEW p \in Range(C.services[s].ports),
           Resolvable(C, s, p), C.endpoints[s] # <<>>
    PROVE  /\ Head(C.endpoints[s]) \in Range(C.endpoints[s])
           /\ \E e \in Range(Head(C.endpoints[s]).ports) :
                 /\ e.name = p.name /\ e.proto = p.proto /\ e.port \in Nat \ {0}
                 /\ Target(Head(C.endpoints[s]), p) = e.port
<1> DEFINE first == Head(C.endpoints[s])
<1>1. s \in Served(C)
  BY DEF Served, Mapped, ModelFails
<1>2. IsList(C.endpoints[s])
  BY <1>1 DEF WellFormed, DistinctEndpoints
<1>3. first \in Range(C.endpoints[s])
  BY <1>2 DEF IsList
<1>4. IsList(first.ports) /\ \A q \in Range(first.ports) : q.port \in Nat \ {0}
  BY <1>1, <1>3 DEF WellFormed, DistinctEndpoints
<1>5. PICK e \in Range(first.ports) :
        /\ e.name = p.name /\ e.proto = p.proto
        /\ IF p.target = Named THEN p.targetName = p.name /\ p.name # "" ELSE e.port = p.target
  BY DEF Resolvable
<1> HIDE DEF first
<1>6. CASE p.name # ""
  <2> DEFINE number == IF p.target # Named THEN p.target ELSE p.port
  <2>1. Target(first, p) = FindPort(first, p.name, number, p.proto)
    BY <1>5 DEF Target
  <2> HIDE DEF number
  <2>2. PortOf(first, p.name, p.proto, Target(first, p))
    BY <1>4, <1>5, <1>6, <2>1, FindsByName
  <2> QED BY <1>3, <1>4, <2>2 DEF PortOf, first
<1>7. CASE p.name = ""
  <2>1. p.target # Named /\ e.port = p.target
    BY <1>5, <1>7
  <2>2. Target(first, p) = p.target
    <3>1. Target(first, p) = FindPort(first, "", p.target, p.proto)
      BY <1>7, <2>1 DEF Target
    <3>2. FindPort(first, "", p.target, p.proto) = p.target
      BY <1>4, <1>5, <2>1, FindsByNumber
    <3> QED BY <3>1, <3>2
  <2> QED BY <1>3, <1>4, <1>5, <2>1, <2>2 DEF first
<1> QED BY <1>6, <1>7

LEMMA PodForwardsHas ==
    ASSUME NEW C, NEW t
    PROVE  PodForwards(C, t) =
              {Forward(q, Target(Head(C.endpoints[t]), q), Head(C.endpoints[t]).addrs) :
                  q \in {k \in Range(C.services[t].ports) : Target(Head(C.endpoints[t]), k) # Unset}}
BY DEF PodForwards, Target

LEMMA PodServes ==
    ASSUME NEW C, WellFormed(C), ~ModelFails(C),
           NEW r, r.nat = Prerouting(GenerateModel("Pod", C)),
           NEW s \in Mapped(C), NEW p \in Range(C.services[s].ports)
    PROVE  Serves(r, "Pod", C, s, p)
<1> DEFINE Reachable == {t \in Mapped(C) : C.endpoints[t] # <<>>}
           forwards == [t \in Reachable |-> PodForwards(C, t)]
           first == Head(C.endpoints[s])
           m == PodModel(C)
           wanted == Backends("Pod", C, s, p)
<1>1. m.ingress = GroupByAddress(C, forwards) /\ GenerateModel("Pod", C) = m
  BY DEF PodModel, GenerateModel
<1>2. DOMAIN forwards = Reachable /\ Reachable \subseteq Mapped(C)
  OBVIOUS
<1>3. \A t, q : Backends("Pod", C, t, q) =
          UNION {{<<a, k.port>> : a \in b.addrs,
                     k \in {j \in Range(b.ports) : j.name = q.name /\ j.proto = q.proto}} :
                 b \in Range(C.endpoints[t])}
  BY DEF Backends, EndpointsOf
<1>4. MadeFrom(C, "Pod", forwards)
  <2> SUFFICES ASSUME NEW t \in DOMAIN forwards, NEW f \in forwards[t]
               PROVE  \E q \in Range(C.services[t].ports) :
                         /\ f.proto = q.proto /\ f.inbound = q.port
                         /\ Resolvable(C, t, q) => LeadsTo(f) \subseteq Backends("Pod", C, t, q)
    BY DEF MadeFrom
  <2> DEFINE sub == Head(C.endpoints[t])
  <2>1. f \in PodForwards(C, t) /\ t \in Mapped(C) /\ C.endpoints[t] # <<>>
    OBVIOUS
  <2>2. PICK q \in Range(C.services[t].ports) : f = Forward(q, Target(sub, q), sub.addrs)
    BY <2>1, PodForwardsHas
  <2>3. f.proto = q.proto /\ f.inbound = q.port /\ f.dest = Target(sub, q) /\ f.addrs = sub.addrs
    BY <2>2 DEF Forward
  <2>4. ASSUME Resolvable(C, t, q)
        PROVE  {<<a, Target(sub, q)>> : a \in sub.addrs} \subseteq Backends("Pod", C, t, q)
    BY <1>3, <2>1, <2>4, TargetIsBackend
  <2> HIDE DEF sub
  <2> QED BY <2>3, <2>4 DEF LeadsTo
<1>5. ASSUME Resolvable(C, s, p), Len(C.endpoints[s]) <= 1, C.endpoints[s] # <<>>
      PROVE  s \in DOMAIN forwards /\ \E f \in forwards[s] :
                /\ f.proto = p.proto /\ f.inbound = p.port
                /\ wanted \subseteq LeadsTo(f)
  <2>1. PICK e \in Range(first.ports) :
          /\ e.name = p.name /\ e.proto = p.proto /\ e.port \in Nat \ {0}
          /\ Target(first, p) = e.port
    BY <1>5, TargetIsBackend
  <2>2. s \in DOMAIN forwards /\ Forward(p, Target(first, p), first.addrs) \in forwards[s]
    <3>1. Target(first, p) # Unset
      BY <2>1 DEF Unset
    <3> QED BY <1>5, <3>1, PodForwardsHas
  <2>3. s \in Served(C)
    BY DEF Served, Mapped, ModelFails
  <2>4. IsList(C.endpoints[s])
    BY <2>3 DEF WellFormed, DistinctEndpoints
  <2>5. first \in Range(C.endpoints[s]) /\ \A b \in Range(C.endpoints[s]) : b = first
    BY <1>5, <2>4 DEF IsList, Range
  <2> HIDE DEF forwards, first, wanted
  <2>6. ASSUME NEW x \in wanted
        PROVE  x \in {<<a, e.port>> : a \in first.addrs}
    <3>1. PICK a \in first.addrs, q \in Range(first.ports) :
            q.name = p.name /\ q.proto = p.proto /\ x = <<a, q.port>>
      BY <1>3, <2>5, <2>6 DEF wanted
    <3>2. q = e
      BY <2>1, <2>3, <2>5, <3>1 DEF WellFormed, DistinctEndpoints
    <3> QED BY <3>1, <3>2
  <2> DEFINE f == Forward(p, Target(first, p), first.addrs)
  <2>7. f.proto = p.proto /\ f.inbound = p.port /\ f.dest = e.port /\ f.addrs = first.addrs
    BY <2>1 DEF Forward
  <2> HIDE DEF f
  <2> QED BY <2>2, <2>6, <2>7 DEF f, LeadsTo
<1>6. C.endpoints[s] = <<>> => wanted = {}
  <2>1. C.endpoints[s] = <<>> => Range(C.endpoints[s]) = {}
    BY DEF Range
  <2> QED BY <1>3, <2>1
<1> HIDE DEF forwards, m, Reachable
<1> QED BY <1>1, <1>2, <1>4, <1>5, <1>6, ForwardsServe

LEMMA ModelServes ==
    ASSUME NEW l \in Layers, NEW C, WellFormed(C), ~ModelFails(C), Valid(GenerateModel(l, C)),
           NEW r, r.nat = Prerouting(GenerateModel(l, C)),
           NEW s \in Mapped(C), NEW p \in Range(C.services[s].ports)
    PROVE  Serves(r, l, C, s, p)
BY NodePortServes, ClusterIPServes, PodServes DEF Layers

-----------------------------------------------------------------------------
(* nft: a file it takes replaces the forwards, and one it refuses changes  *)
(* nothing; the jumps of what it takes lead to chains.                     *)
LEMMA BaseIsLinked == Linked(BaseRules.chains)
BY DEF BaseRules, Linked, Range

(* No chain but the forward chain is there before a file is loaded.        *)
LEMMA BaseHasNoPolicies == Names(BaseRules.chains) = {FORWARD}
BY DEF BaseRules, Names, ChainNames, Range

LEMMA TransactionEffect ==
    ASSUME NEW from, NEW text
    PROVE  LET t == Transaction(from, text)
           IN  /\ t.ok \in BOOLEAN
               /\ t.ok => t.rules.nat = text.nat /\ Linked(t.rules.chains)
               /\ ~t.ok => t.rules = from
BY DEF Transaction

LEMMA LoadEffect ==
    ASSUME NEW from, NEW f
    PROVE  LET l == Load(from, f)
           IN  /\ Linked(from.chains) => Linked(l.rules.chains)
               /\ f # NoFile /\ l.ok => l.rules.nat = f.text.nat
               /\ f # NoFile /\ ~l.ok => l.rules = from
<1>1. CASE f = NoFile
  BY <1>1, BaseIsLinked DEF Load
<1>2. CASE f # NoFile /\ partialReload
  BY <1>2, TransactionEffect DEF Load
<1>3. CASE f # NoFile /\ ~partialReload
  BY <1>3, TransactionEffect, BaseIsLinked DEF Load, ServiceReload
<1> QED BY <1>1, <1>2, <1>3

(* A file that is refused twice in a row leaves everything as it is; one   *)
(* that is loaded twice has the same forwards after it as after once.      *)
LEMMA LoadedTwice ==
    ASSUME NEW from, NEW f, f # NoFile
    PROVE  LET fixed == Load(Load(from, f).rules, f)
           IN  /\ ~Load(from, f).ok => fixed.rules = from
               /\ from.nat = f.text.nat => fixed.rules.nat = f.text.nat
BY LoadEffect

-----------------------------------------------------------------------------
(* The agent.  Both files are of clusters that a model could be generated  *)
(* for; the one between its rename and its reload is what keepalived has.  *)
GoodCluster(c) ==
    /\ c \in FirstClusters \cup Clusters
    /\ ~ModelFails(c) /\ Valid(GenerateModel(layer, c))

GoodFile(f) ==
    /\ f = [text |-> f.text, of |-> f.of, loaded |-> f.loaded]
    /\ GoodCluster(f.of) /\ f.loaded \in BOOLEAN
    /\ f.text = Generate(GenerateModel(layer, f.of), f.text.existing)
    /\ FORWARD \notin Range(f.text.existing)
    /\ ~partialReload => f.text.existing = <<>>

FileInv ==
    /\ \A f \in {file, pending.file} \ {NoFile} : GoodFile(f)
    /\ pending.busy => /\ file # NoFile /\ ~file.loaded /\ answer = 0
                       /\ vips = VirtualAddresses(GenerateModel(layer, file.of))

(* What a loaded file says is promised, and is what the kernel does.       *)
ForceInv ==
    /\ promised # NoCluster => GoodCluster(promised) /\ Current # NoFile
    /\ Current # NoFile /\ Current.loaded =>
          /\ promised = Current.of
          /\ rules.nat = Prerouting(GenerateModel(layer, promised))
    /\ answer = 200 => /\ ~pending.busy /\ file # NoFile /\ promised = file.of
                       /\ vips = VirtualAddresses(GenerateModel(layer, promised))

(* A file that is not loaded is refused, as long as every start tries it.  *)
RefusedInv ==
    partialReload \/ restarts = 0 =>
        (Current # NoFile /\ ~Current.loaded => ~Load(rules, Current).ok)

(* As long as nft lists the chains: a file that waits for its reload lists *)
(* the chains that are in the kernel, and one that is loaded is there.  Its*)
(* rules may be there twice, since it is also loaded onto its own chains.  *)
ChainInv ==
    /\ Shaped(rules.chains)
    /\ faults = 0 /\ pending.busy => file.text.existing = Listed(TRUE)
    /\ faults = 0 /\ Current # NoFile /\ Current.loaded =>
          Repeats(rules.chains, Current.text.chains)

GatewayInv == TypeOK /\ FileInv /\ ForceInv /\ RefusedInv /\ ChainInv

(* What is in a file.                                                      *)
LEMMA TextOfFile ==
    ASSUME NEW f, GoodFile(f), setup \in Setups
    PROVE  /\ f.text.nat = Prerouting(GenerateModel(layer, f.of))
           /\ Shaped(f.text.chains) /\ Forwards(f.text.chains, {})
<1> DEFINE m == GenerateModel(layer, f.of)
<1>1. layer \in Layers /\ WellFormed(f.of)
  BY GatewayAssumption DEF setup, GoodFile, GoodCluster
<1>2. SoundModel(m)
  BY <1>1, GeneratedModelIsSound
<1>3. f.text = Generate(m, f.text.existing)
  BY DEF GoodFile
<1> HIDE DEF m
<1>4. Generate(m, f.text.existing).nat = Prerouting(m)
  BY DEF Generate
<1>5. LET cs == Generate(m, f.text.existing).chains IN Shaped(cs) /\ Forwards(cs, {})
  BY <1>2, GeneratedChains
<1> QED BY <1>3, <1>4, <1>5 DEF m

(* A list of the chains, as nft gives it or not.                           *)
LEMMA ListsOfChains ==
    ASSUME NEW ok, Shaped(rules.chains)
    PROVE  /\ FORWARD \notin Range(Listed(ok))
           /\ ~partialReload => Listed(ok) = <<>>
           /\ partialReload => Range(Listed(TRUE)) = Names(rules.chains) \ {FORWARD}
<1>1. Range(<<>>) = {}
  BY DEF Range
<1>2. Range(PolicyChainList(rules)) = Names(rules.chains) \ {FORWARD}
  BY ListOfPolicyChains
<1> QED BY <1>1, <1>2 DEF Listed

(* A file that lists what there is replaces it; without partial reload,    *)
(* the service sees to that.                                               *)
LEMMA LoadReplaces ==
    ASSUME NEW from, Shaped(from.chains), NEW f, f # NoFile, GoodFile(f), setup \in Setups,
           partialReload => Names(from.chains) \ {FORWARD} \subseteq Range(f.text.existing)
    PROVE  LET l == Load(from, f)
           IN  /\ l.ok => l.rules.chains = f.text.chains
               /\ Parses(f.text) /\ ~Busy(Flush(from.chains, FORWARD), f.text.existing) => l.ok
<1>1. Shaped(f.text.chains) /\ Linked(f.text.chains) /\ FORWARD \notin Range(f.text.existing)
  BY TextOfFile, ForwardsAreLinked DEF GoodFile
<1>2. CASE partialReload
  <2>1. Load(from, f) = Transaction(from, f.text)
    BY <1>2 DEF Load
  <2> QED BY <1>1, <1>2, <2>1, TransactionReplaces
<1>3. CASE ~partialReload
  <2> DEFINE t == Transaction(BaseRules, f.text)
  <2>1. Shaped(BaseRules.chains) /\ Names(BaseRules.chains) \ {FORWARD} \subseteq Range(f.text.existing)
    BY BaseIsShaped, BaseHasNoPolicies
  <2>2. /\ t.ok <=> /\ Parses(f.text) /\ Linked(f.text.chains)
                    /\ ~Busy(Flush(BaseRules.chains, FORWARD), f.text.existing)
        /\ t.ok => t.rules.chains = f.text.chains
    BY <1>1, <2>1, TransactionReplaces
  <2>3. ~Busy(Flush(BaseRules.chains, FORWARD), f.text.existing)
    BY NothingToDelete
  <2>4. Load(from, f) = IF t.ok THEN t ELSE [t EXCEPT !.rules = from]
    BY <1>3 DEF Load, ServiceReload
  <2>5. t.ok \in BOOLEAN /\ t = [ok |-> t.ok, rules |-> t.rules]
    BY DEF Transaction
  <2> HIDE DEF t
  <2>6. Load(from, f).ok = t.ok /\ (t.ok => Load(from, f).rules = t.rules)
    BY <2>4, <2>5
  <2> QED BY <1>1, <2>2, <2>3, <2>6
<1> QED BY <1>2, <1>3

(* At boot nothing is in the way of a file.                                *)
LEMMA LoadAtBoot ==
    ASSUME NEW f, f # NoFile, GoodFile(f), setup \in Setups
    PROVE  LET l == Load(BaseRules, f)
           IN  /\ l.ok => l.rules.chains = f.text.chains
               /\ Parses(f.text) => l.ok
<1>1. Shaped(BaseRules.chains) /\ Names(BaseRules.chains) \ {FORWARD} \subseteq Range(f.text.existing)
  BY BaseIsShaped, BaseHasNoPolicies
<1>2. ~Busy(Flush(BaseRules.chains, FORWARD), f.text.existing)
  BY NothingToDelete
<1> QED BY <1>1, <1>2, LoadReplaces

(* A file that is in force stays so when it is loaded once more, whether   *)
(* nft takes it or not.                                                    *)
LEMMA LoadShapes ==
    ASSUME NEW from, Shaped(from.chains), NEW f, f # NoFile => GoodFile(f), setup \in Setups
    PROVE  LET chains == Load(from, f).rules.chains
           IN  /\ Shaped(chains)
               /\ f # NoFile /\ Repeats(from.chains, f.text.chains) => Repeats(chains, f.text.chains)
<1>1. CASE f = NoFile
  BY <1>1, BaseIsShaped DEF Load
<1>2. CASE f # NoFile
  <2>1. Shaped(f.text.chains) /\ FORWARD \notin Range(f.text.existing)
    BY <1>2, TextOfFile DEF GoodFile
  <2>2. CASE partialReload
    <3>1. Load(from, f) = Transaction(from, f.text)
      BY <1>2, <2>2 DEF Load
    <3>2. Shaped(Transaction(from, f.text).rules.chains)
      BY <2>1, TransactionShapes
    <3>3. Repeats(from.chains, f.text.chains) =>
            Repeats(Transaction(from, f.text).rules.chains, f.text.chains)
      BY <2>1, TransactionRepeats
    <3> QED BY <1>2, <3>1, <3>2, <3>3
  <2>3. CASE ~partialReload
    <3>1. Load(from, f).ok => Load(from, f).rules.chains = f.text.chains
      BY <1>2, <2>3, LoadReplaces
    <3>2. ~Load(from, f).ok => Load(from, f).rules = from
      BY <1>2, LoadEffect
    <3>3. Repeats(f.text.chains, f.text.chains)
      BY <2>1, RepeatsItself
    <3> QED BY <1>2, <2>1, <3>1, <3>2, <3>3
  <2> QED BY <2>2, <2>3
<1> QED BY <1>1, <1>2

LEMMA InitKeeps == Init => GatewayInv
<1> SUFFICES ASSUME Init PROVE GatewayInv
  OBVIOUS
<1>1. setup \in Setups
  BY GatewayAssumption DEF Init, setup
<1>2. {MaxRequests, MaxFaults, MaxRestarts, MaxReboots} \subseteq Nat
  BY GatewayAssumption
<1>3. TypeOK
  BY <1>1, <1>2, BaseIsLinked DEF Init, TypeOK, NoRequest
<1>4. ChainInv
  BY BaseIsShaped DEF Init, ChainInv, Current, NoRequest
<1> QED BY <1>3, <1>4 DEF Init, GatewayInv, FileInv, ForceInv, RefusedInv, Current, NoRequest

LEMMA FileOfClusterExists ==
    ASSUME NEW t, NEW c \in FirstClusters \cup Clusters, NEW b
    PROVE  [text |-> t, of |-> c, loaded |-> b] # NoFile
BY GatewayAssumption DEF NoFile

LEMMA PushKeeps ==
    ASSUME GatewayInv, NEW c \in FirstClusters \cup Clusters, Push(c)
    PROVE  GatewayInv'
<1> DEFINE m == GenerateModel(layer, c)
<1>1. /\ Idle /\ requests < MaxRequests /\ requests' = requests + 1 /\ ~ModelFails(c)
      /\ UNCHANGED <<layer, partialReload, rules, restarts, reboots>>
  BY DEF Push, setup
<1>2. /\ {MaxRequests, MaxFaults, MaxRestarts, MaxReboots} \subseteq Nat
      /\ requests' \in 0..MaxRequests
  BY <1>1, GatewayAssumption DEF GatewayInv, TypeOK
<1>3. ~pending.busy /\ pending.file = NoFile /\ Current = file
  BY <1>1 DEF Idle, Current
<1>4. CASE ~Valid(m)
  <2>1. answer' = 400 /\ UNCHANGED <<file, pending, vips, promised, faults>>
    BY <1>4 DEF Push
  <2>2. TypeOK' 
    BY <1>1, <1>2, <2>1 DEF GatewayInv, TypeOK, setup
  <2>3. Current' = Current /\ Load(rules, Current)' = Load(rules, Current)
    BY <1>1, <2>1 DEF Current, Load
  <2>4. FileInv'
    BY <1>1, <1>3, <2>1 DEF GatewayInv, FileInv, GoodFile, GoodCluster
  <2>5. ForceInv'
    BY <1>1, <2>1, <2>3 DEF GatewayInv, ForceInv, GoodCluster
  <2>6. RefusedInv'
    BY <1>1, <2>1, <2>3 DEF GatewayInv, RefusedInv
  <2>7. ChainInv'
    BY <1>1, <1>3, <2>1, <2>3 DEF GatewayInv, ChainInv
  <2> QED BY <2>2, <2>4, <2>5, <2>6, <2>7 DEF GatewayInv
<1>5. CASE Valid(m)
  <2>1. PICK listing \in BOOLEAN :
          LET text == Generate(m, Listed(listing))
              same == file # NoFile /\ file.text = text
          IN  /\ IF listing THEN UNCHANGED faults
                 ELSE faults < MaxFaults /\ partialReload /\ faults' = faults + 1
              /\ vips' = VirtualAddresses(m)
              /\ \/ /\ same /\ answer' = 200 /\ promised' = c /\ UNCHANGED pending
                    /\ file' = [text |-> text, of |-> c, loaded |-> file.loaded]
                 \/ /\ pending' = [busy |-> TRUE, file |-> file]
                    /\ file' = [text |-> text, of |-> c, loaded |-> FALSE]
                    /\ answer' = 0 /\ UNCHANGED promised
    BY <1>5 DEF Push
  <2> DEFINE text == Generate(m, Listed(listing))
  <2>2. /\ text.existing = Listed(listing) /\ text.nat = Prerouting(m)
        /\ text = Generate(GenerateModel(layer, c), text.existing)
    BY DEF Generate
  <2>3. FORWARD \notin Range(text.existing) /\ (~partialReload => text.existing = <<>>)
    <3>1. FORWARD \notin Range(Listed(listing)) /\ (~partialReload => Listed(listing) = <<>>)
      BY ListsOfChains DEF GatewayInv, ChainInv
    <3> HIDE DEF text
    <3> QED BY <2>2, <3>1
  <2>4. faults' = 0 => listing = TRUE /\ faults = 0
    BY <2>1 DEF GatewayInv, TypeOK
  <2>5. layer' = layer /\ partialReload' = partialReload /\ setup \in Setups
    BY <1>1 DEF GatewayInv, TypeOK
  <2>6. GoodCluster(c)'
    BY <1>1, <1>5 DEF GoodCluster
  <2>7. faults' \in 0..MaxFaults
    BY <1>2, <2>1 DEF GatewayInv, TypeOK
  <2> HIDE DEF text, m
  <2>8. CASE /\ file # NoFile /\ file.text = text
             /\ answer' = 200 /\ promised' = c /\ UNCHANGED pending
             /\ file' = [text |-> text, of |-> c, loaded |-> file.loaded]
    <3>1. file' # NoFile /\ file'.of = c /\ file'.loaded = file.loaded /\ file'.text = file.text
      BY <2>8, FileOfClusterExists
    <3>2. Current' = file' /\ pending'.file = NoFile /\ ~pending'.busy
      BY <1>3, <2>8 DEF Current
    <3>3. GoodFile(file) /\ file.text.nat = Prerouting(m)
      BY <2>2, <2>8 DEF GatewayInv, FileInv
    <3>4. GoodFile(file)'
      BY <2>2, <2>6, <2>8, <2>3, <2>5, <3>1, <3>3 DEF GoodFile
    <3>5. TypeOK'
      BY <1>1, <1>2, <2>7, <2>8, <3>1, <3>2 DEF GatewayInv, TypeOK, setup
    <3>6. FileInv'
      BY <3>2, <3>4 DEF FileInv
    <3>7. file.loaded => rules.nat = Prerouting(GenerateModel(layer, file.of))
      BY <1>3, <2>8 DEF GatewayInv, ForceInv
    <3>8. file.loaded => rules.nat = Prerouting(m)
      BY <2>5, <3>3, <3>7, TextOfFile
    <3>9. ForceInv'
      BY <1>1, <2>1, <2>6, <2>8, <3>1, <3>2, <3>8 DEF ForceInv, m
    <3>10. Load(rules, Current)' = Load(rules, Current)
      BY <1>1, <1>3, <2>8, <3>1, <3>2 DEF Load
    <3>11. RefusedInv'
      BY <1>1, <1>3, <2>8, <3>1, <3>2, <3>10 DEF GatewayInv, RefusedInv
    <3>12. ChainInv'
      BY <1>1, <1>3, <2>8, <2>4, <3>1, <3>2 DEF GatewayInv, ChainInv
    <3> QED BY <3>5, <3>6, <3>9, <3>11, <3>12 DEF GatewayInv
  <2>9. CASE /\ pending' = [busy |-> TRUE, file |-> file]
             /\ file' = [text |-> text, of |-> c, loaded |-> FALSE]
             /\ answer' = 0 /\ UNCHANGED promised
    <3>1. file' # NoFile /\ file'.of = c /\ file'.loaded = FALSE /\ file'.text = text
      BY <2>9, FileOfClusterExists
    <3>2. Current' = file /\ pending'.file = file /\ pending'.busy = TRUE
      BY <2>9 DEF Current
    <3>3. GoodFile(file)'
      BY <2>2, <2>6, <2>9, <2>3, <2>5, <3>1 DEF GoodFile
    <3>4. file # NoFile => GoodFile(file)
      BY DEF GatewayInv, FileInv
    <3>5. file # NoFile => GoodFile(pending.file)'
      BY <1>1, <3>2, <3>4 DEF GoodFile, GoodCluster
    <3>6. TypeOK'
      BY <1>1, <1>2, <2>7, <2>9, <3>1, <3>2 DEF GatewayInv, TypeOK, setup
    <3>7. FileInv'
      BY <1>1, <2>1, <2>9, <3>1, <3>2, <3>3, <3>5 DEF FileInv, m
    <3>8. ForceInv'
      BY <1>1, <1>3, <2>9, <3>2 DEF GatewayInv, ForceInv, GoodCluster
    <3>9. Load(rules, Current)' = Load(rules, Current)
      BY <1>1, <1>3, <3>2 DEF Load
    <3>10. RefusedInv'
      BY <1>1, <1>3, <3>2, <3>9 DEF GatewayInv, RefusedInv
    <3>11. ChainInv'
      <4>1. Listed(TRUE)' = Listed(TRUE)
        BY <1>1 DEF Listed
      <4>2. faults' = 0 => file'.text.existing = Listed(TRUE)'
        BY <2>2, <2>4, <3>1, <4>1
      <4>3. Shaped(rules.chains)' /\ rules'.chains = rules.chains
        BY <1>1 DEF GatewayInv, ChainInv
      <4>4. faults' = 0 /\ file # NoFile /\ file.loaded => Repeats(rules.chains, file.text.chains)
        BY <1>3, <2>4 DEF GatewayInv, ChainInv
      <4> QED BY <3>2, <4>2, <4>3, <4>4 DEF ChainInv
    <3> QED BY <3>6, <3>7, <3>8, <3>10, <3>11 DEF GatewayInv
  <2> QED BY <2>1, <2>8, <2>9 DEF text
<1> QED BY <1>4, <1>5

(* A file that nft has taken is the same file.                             *)
LEMMA MarkedFile ==
    ASSUME GatewayInv, file # NoFile, NEW b \in BOOLEAN, file' = [file EXCEPT !.loaded = b],
           UNCHANGED <<layer, partialReload>>
    PROVE  /\ file' # NoFile /\ file'.of = file.of /\ file'.text = file.text /\ file'.loaded = b
           /\ GoodFile(file)' /\ GoodFile(file)
<1>1. GoodFile(file)
  BY DEF GatewayInv, FileInv
<1>2. file' = [text |-> file.text, of |-> file.of, loaded |-> b]
  BY <1>1 DEF GoodFile
<1>3. file' # NoFile
  BY <1>1, <1>2, FileOfClusterExists DEF GoodFile, GoodCluster
<1>4. GoodCluster(file.of)'
  BY <1>1, <1>2 DEF GoodFile, GoodCluster
<1>5. GoodFile(file)'
  BY <1>1, <1>2, <1>4 DEF GoodFile
<1> QED BY <1>1, <1>2, <1>3, <1>5

LEMMA ApplyKeeps ==
    ASSUME GatewayInv, Apply PROVE GatewayInv'
<1> DEFINE loaded == Load(rules, file)
           fixed == Load(Load(rules, pending.file).rules, pending.file)
<1>1. /\ pending' = NoRequest
      /\ UNCHANGED <<layer, partialReload, vips, requests, faults, restarts, reboots>>
  BY DEF Apply, setup, budgets
<1>2. pending.busy /\ Current = pending.file
  BY DEF Apply, Idle, GatewayInv, TypeOK, Current
<1>3. file # NoFile /\ vips = VirtualAddresses(GenerateModel(layer, file.of))
  BY <1>2 DEF GatewayInv, FileInv
<1>4. Current' = file' /\ pending'.file = NoFile /\ pending'.busy = FALSE
  BY <1>1 DEF Current, NoRequest
<1>5. setup \in Setups /\ Shaped(rules.chains) /\ GoodFile(file)
  BY <1>3 DEF GatewayInv, TypeOK, ChainInv, FileInv
<1>6. CASE loaded.ok
  <2>1. /\ rules' = loaded.rules /\ answer' = 200 /\ promised' = file.of
        /\ file' = [file EXCEPT !.loaded = TRUE]
    BY <1>6 DEF Apply
  <2>2. rules'.nat = file.text.nat /\ Linked(rules'.chains)
    BY <1>3, <1>6, <2>1, LoadEffect DEF GatewayInv, TypeOK
  <2>3. /\ file' # NoFile /\ file'.of = file.of /\ file'.loaded = TRUE
        /\ GoodFile(file)' /\ GoodFile(file)
    BY <1>1, <1>3, <2>1, MarkedFile
  <2> HIDE DEF loaded, fixed
  <2>4. TypeOK'
    <3>1. file'.of \in FirstClusters \cup Clusters /\ promised' = file'.of
      BY <2>1, <2>3 DEF GoodFile, GoodCluster
    <3>2. {f.of : f \in {file', pending'.file} \ {NoFile}} \subseteq {file'.of}
      BY <1>4
    <3> QED BY <1>1, <2>1, <2>2, <3>1, <3>2 DEF GatewayInv, TypeOK, setup, NoRequest
  <2>5. FileInv'
    BY <1>4, <2>3 DEF FileInv
  <2>6. ForceInv'
    <3>1. file.text.nat = Prerouting(GenerateModel(layer, file.of))
      BY <1>5, TextOfFile
    <3>2. GoodCluster(promised)' /\ promised' = file'.of
      BY <2>1, <2>3 DEF GoodFile
    <3> QED BY <1>1, <1>3, <1>4, <2>1, <2>2, <2>3, <3>1, <3>2 DEF ForceInv
  <2>7. RefusedInv'
    BY <1>4, <2>3 DEF RefusedInv
  <2>8. ChainInv'
    <3>1. Shaped(rules'.chains)
      BY <1>5, <2>1, LoadShapes DEF loaded
    <3>2. ASSUME faults' = 0 PROVE Repeats(rules'.chains, file'.text.chains)
      <4>1. file.text.existing = Listed(TRUE)
        BY <1>1, <1>2, <3>2 DEF GatewayInv, ChainInv
      <4>2. partialReload => Names(rules.chains) \ {FORWARD} \subseteq Range(file.text.existing)
        BY <1>5, <4>1, ListsOfChains
      <4>3. rules'.chains = file.text.chains
        BY <1>3, <1>6, <1>5, <2>1, <4>2, LoadReplaces DEF loaded
      <4>4. Repeats(file.text.chains, file.text.chains)
        BY <1>5, TextOfFile, RepeatsItself
      <4>5. file'.text.chains = file.text.chains
        BY <2>1, <2>3, <1>3, <1>5, MarkedFile, <1>1
      <4> QED BY <4>3, <4>4, <4>5
    <3> QED BY <1>4, <3>1, <3>2 DEF ChainInv
  <2> QED BY <2>4, <2>5, <2>6, <2>7, <2>8 DEF GatewayInv
<1>7. CASE ~loaded.ok
  <2>1. rules' = fixed.rules /\ answer' = 500 /\ file' = pending.file /\ promised' = promised
    BY <1>7 DEF Apply
  <2>2. Linked(rules'.chains)
    <3>1. Linked(Load(rules, pending.file).rules.chains)
      BY LoadEffect DEF GatewayInv, TypeOK
    <3> QED BY <2>1, <3>1, LoadEffect
  <2> HIDE DEF loaded, fixed
  <2>3. TypeOK'
    <3>1. {f.of : f \in {file', pending'.file} \ {NoFile}}
              \subseteq {f.of : f \in {file, pending.file} \ {NoFile}}
      BY <1>4, <2>1
    <3> QED BY <1>1, <2>1, <2>2, <3>1 DEF GatewayInv, TypeOK, setup, NoRequest
  <2>4. file' # NoFile => GoodFile(pending.file)
    BY <2>1 DEF GatewayInv, FileInv
  <2>5. FileInv'
    BY <1>1, <1>4, <2>1, <2>4 DEF FileInv, GoodFile, GoodCluster
  <2>6. Current # NoFile /\ Current.loaded =>
          rules'.nat = Prerouting(GenerateModel(layer, promised))
    <3>1. SUFFICES ASSUME Current # NoFile, Current.loaded
                   PROVE  rules'.nat = Prerouting(GenerateModel(layer, promised))
      OBVIOUS
    <3>2. promised = pending.file.of /\ rules.nat = Prerouting(GenerateModel(layer, promised))
      BY <1>2, <3>1 DEF GatewayInv, ForceInv
    <3>3. pending.file.text.nat = rules.nat
      BY <1>2, <1>5, <2>1, <2>4, <3>1, <3>2, TextOfFile
    <3>4. rules'.nat = pending.file.text.nat
      BY <1>2, <2>1, <3>1, <3>3, LoadedTwice DEF fixed
    <3> QED BY <3>2, <3>3, <3>4
  <2>7. ForceInv'
    BY <1>1, <1>2, <1>4, <2>1, <2>6 DEF GatewayInv, ForceInv, GoodCluster
  <2>8. RefusedInv'
    <3> SUFFICES ASSUME partialReload \/ restarts = 0, Current # NoFile, ~Current.loaded
                 PROVE  ~Load(rules, Current)'.ok
      BY <1>1, <1>2, <1>4, <2>1 DEF RefusedInv
    <3>1. ~Load(rules, pending.file).ok
      BY <1>2 DEF GatewayInv, RefusedInv
    <3>2. rules' = rules
      BY <1>2, <2>1, <3>1, LoadedTwice DEF fixed
    <3>3. Load(rules, Current)' = Load(rules, pending.file)
      BY <1>1, <1>4, <2>1, <3>2 DEF Load
    <3> QED BY <3>1, <3>3
  <2>9. ChainInv'
    <3> DEFINE once == Load(rules, pending.file).rules
    <3>1. pending.file # NoFile => GoodFile(pending.file)
      BY <2>1, <2>4
    <3>2. /\ Shaped(once.chains)
          /\ pending.file # NoFile /\ Repeats(rules.chains, pending.file.text.chains)
               => Repeats(once.chains, pending.file.text.chains)
      BY <1>5, <3>1, LoadShapes
    <3> HIDE DEF once
    <3>3. /\ Shaped(Load(once, pending.file).rules.chains)
          /\ pending.file # NoFile /\ Repeats(once.chains, pending.file.text.chains)
               => Repeats(Load(once, pending.file).rules.chains, pending.file.text.chains)
      BY <1>5, <3>1, <3>2, LoadShapes
    <3>4. rules' = Load(once, pending.file).rules
      BY <2>1 DEF once, fixed
    <3>5. faults = 0 /\ pending.file # NoFile /\ pending.file.loaded =>
            Repeats(rules.chains, pending.file.text.chains)
      BY <1>2 DEF GatewayInv, ChainInv
    <3> QED BY <1>1, <1>4, <2>1, <3>2, <3>3, <3>4, <3>5 DEF ChainInv
  <2> QED BY <2>3, <2>5, <2>7, <2>8, <2>9 DEF GatewayInv
<1> QED BY <1>6, <1>7

(* A start, of the agent from the rules as they are or of the gateway from *)
(* the administrator's: what was loaded may only count as loaded again if  *)
(* the forwards are still its own.                                         *)
LEMMA StartKeeps ==
    ASSUME GatewayInv, NEW from, Linked(from.chains), NEW b \in BOOLEAN, Start(from, b),
           b => file.loaded /\ ~pending.busy /\ from = rules, Shaped(from.chains),
           file # NoFile /\ faults = 0 /\ partialReload /\ Load(from, file).ok /\ ~b =>
              Names(from.chains) \ {FORWARD} \subseteq Range(file.text.existing),
           pending' = NoRequest, UNCHANGED <<layer, partialReload, vips, answer, faults>>
    PROVE  FileInv' /\ ForceInv' /\ RefusedInv' /\ ChainInv'
<1> DEFINE loaded == Load(from, file)
<1>1. Current' = file' /\ pending'.file = NoFile /\ pending'.busy = FALSE
  BY DEF Current, NoRequest
<1>2. CASE file = NoFile
  <2>1. UNCHANGED <<file, promised>>
    BY <1>2 DEF Start
  <2>2. promised = NoCluster
    <3>1. CASE pending.busy
      BY <1>2, <3>1 DEF GatewayInv, FileInv
    <3>2. CASE ~pending.busy
      BY <1>2, <3>2 DEF GatewayInv, ForceInv, Current
    <3> QED BY <3>1, <3>2
  <2>3. answer # 200
    BY <1>2 DEF GatewayInv, ForceInv
  <2>4. Shaped(rules'.chains)
    <3>1. rules' = loaded.rules /\ setup \in Setups
      BY DEF Start, GatewayInv, TypeOK
    <3> QED BY <1>2, <3>1, LoadShapes
  <2> QED BY <1>1, <1>2, <2>1, <2>2, <2>3, <2>4 DEF FileInv, ForceInv, RefusedInv, ChainInv
<1>3. CASE file # NoFile
  <2>1. /\ rules' = loaded.rules
        /\ file' = [file EXCEPT !.loaded = b \/ loaded.ok]
        /\ promised' = IF loaded.ok THEN file.of ELSE promised
    BY <1>3 DEF Start
  <2>2. /\ file' # NoFile /\ file'.of = file.of /\ file'.text = file.text
        /\ file'.loaded = (b \/ loaded.ok) /\ GoodFile(file)' /\ GoodFile(file)
    <3>1. (b \/ loaded.ok) \in BOOLEAN
      OBVIOUS
    <3> HIDE DEF loaded
    <3> QED BY <1>3, <2>1, <3>1, MarkedFile
  <2>3. FileInv'
    BY <1>1, <2>2 DEF FileInv
  <2>4. promised # NoCluster => GoodCluster(promised)
    BY DEF GatewayInv, ForceInv
  <2>5. GoodCluster(file.of)
    BY <2>2 DEF GoodFile
  <2>6. promised' # NoCluster => GoodCluster(promised)'
    BY <2>1, <2>4, <2>5 DEF GoodCluster
  <2>7. setup \in Setups
    BY DEF GatewayInv, TypeOK
  <2>8. ChainInv'
    <3>1. /\ Shaped(rules'.chains)
          /\ Repeats(from.chains, file.text.chains) => Repeats(rules'.chains, file.text.chains)
      BY <1>3, <2>1, <2>2, <2>7, LoadShapes
    <3>2. ASSUME faults = 0, b PROVE Repeats(rules'.chains, file.text.chains)
      BY <1>3, <3>1, <3>2 DEF GatewayInv, ChainInv, Current
    <3>3. ASSUME faults = 0, loaded.ok, ~b PROVE Repeats(rules'.chains, file.text.chains)
      <4>1. rules'.chains = file.text.chains
        BY <1>3, <2>1, <2>2, <2>7, <3>3, LoadReplaces
      <4> QED BY <2>2, <2>7, <4>1, TextOfFile, RepeatsItself
    <3> HIDE DEF loaded
    <3> QED BY <1>1, <2>2, <3>1, <3>2, <3>3 DEF ChainInv
  <2>9. CASE loaded.ok
    <3>1. promised' = file.of /\ file'.loaded = TRUE
      BY <2>1, <2>2, <2>9
    <3>2. rules'.nat = file.text.nat
      BY <1>3, <2>1, <2>9, LoadEffect
    <3>3. ForceInv'
      <4>1. answer = 200 => file.of = promised /\ vips = VirtualAddresses(GenerateModel(layer, promised))
        BY DEF GatewayInv, ForceInv
      <4>2. file.text.nat = Prerouting(GenerateModel(layer, file.of))
        BY <2>2, <2>7, TextOfFile
      <4> QED BY <1>1, <2>2, <2>6, <3>1, <3>2, <4>1, <4>2 DEF ForceInv, GoodFile
    <3> QED BY <1>1, <2>3, <2>8, <3>1, <3>3 DEF RefusedInv
  <2>10. CASE ~loaded.ok
    <3>1. rules' = from /\ promised' = promised /\ file'.loaded = b
      BY <1>3, <2>1, <2>2, <2>10, LoadEffect
    <3>2. b => promised = file.of /\ rules'.nat = Prerouting(GenerateModel(layer, promised))
      BY <1>3, <3>1 DEF GatewayInv, ForceInv, Current
    <3>3. ForceInv'
      BY <1>1, <2>2, <2>6, <3>1, <3>2 DEF GatewayInv, ForceInv
    <3>4. Load(rules, Current)' = loaded
      BY <1>1, <1>3, <2>2, <3>1 DEF Load
    <3>5. RefusedInv'
      BY <2>10, <3>4 DEF RefusedInv
    <3> QED BY <2>3, <2>8, <3>3, <3>5
  <2> QED BY <2>9, <2>10
<1> QED BY <1>2, <1>3

LEMMA StartKeepsTypes ==
    ASSUME GatewayInv, NEW from, Linked(from.chains), NEW b \in BOOLEAN, Start(from, b),
           pending' = NoRequest, UNCHANGED <<setup, answer, requests, faults>>,
           restarts' \in 0..MaxRestarts, reboots' \in 0..MaxReboots
    PROVE  TypeOK'
<1>1. rules' = Load(from, file).rules /\ Linked(rules'.chains)
  BY LoadEffect DEF Start
<1>2. file # NoFile => file'.of = file.of
  <2>1. SUFFICES ASSUME file # NoFile PROVE file'.of = file.of
    OBVIOUS
  <2>2. GoodFile(file) /\ file' = [file EXCEPT !.loaded = b \/ Load(from, file).ok]
    BY <2>1 DEF Start, GatewayInv, FileInv
  <2> QED BY <2>2 DEF GoodFile
<1>3. file = NoFile => UNCHANGED <<file, promised>>
  BY DEF Start
<1>4. file # NoFile => file.of \in FirstClusters \cup Clusters /\ promised' \in {promised, file.of}
  BY DEF Start, GatewayInv, TypeOK
<1> QED BY <1>1, <1>2, <1>3, <1>4 DEF GatewayInv, TypeOK, setup, NoRequest

LEMMA RestartKeeps ==
    ASSUME GatewayInv, Restart PROVE GatewayInv'
<1>1. /\ restarts < MaxRestarts /\ restarts' = restarts + 1 /\ pending' = NoRequest
      /\ UNCHANGED <<setup, vips, answer, requests, faults, reboots>>
  BY DEF Restart
<1>2. restarts \in Nat /\ restarts' \in 0..MaxRestarts /\ reboots' \in 0..MaxReboots
  BY <1>1, GatewayAssumption DEF GatewayInv, TypeOK
<1>3. Linked(rules.chains)
  BY DEF GatewayInv, TypeOK
<1>4. CASE partialReload
  <2> DEFINE b == file # NoFile /\ file.loaded
  <2>1. Start(rules, b)
    BY <1>4 DEF Restart
  <2>2. b \in BOOLEAN
    BY DEF GatewayInv, FileInv, GoodFile
  <2>3. b => file.loaded /\ ~pending.busy
    BY DEF GatewayInv, FileInv
  <2> HIDE DEF b
  <2>4. TypeOK'
    BY <1>1, <1>2, <1>3, <2>1, <2>2, StartKeepsTypes
  <2>5. ASSUME file # NoFile, faults = 0, Load(rules, file).ok, ~b
        PROVE  Names(rules.chains) \ {FORWARD} \subseteq Range(file.text.existing)
    <3>1. pending.busy
      BY <1>4, <2>5 DEF GatewayInv, RefusedInv, Current, b
    <3>2. file.text.existing = Listed(TRUE) /\ Shaped(rules.chains)
      BY <2>5, <3>1 DEF GatewayInv, ChainInv
    <3> QED BY <1>4, <3>2, ListsOfChains
  <2>6. FileInv' /\ ForceInv' /\ RefusedInv' /\ ChainInv'
    <3>1. Shaped(rules.chains)
      BY DEF GatewayInv, ChainInv
    <3> QED BY <1>1, <1>3, <2>1, <2>2, <2>3, <2>5, <3>1, StartKeeps DEF setup
  <2> QED BY <2>4, <2>6 DEF GatewayInv
<1>5. CASE ~partialReload
  <2>1. UNCHANGED <<rules, file, promised>>
    BY <1>5 DEF Restart
  <2>2. Current' = file /\ pending'.file = NoFile /\ pending'.busy = FALSE
    BY <1>1, <2>1 DEF Current, NoRequest
  <2>3. TypeOK'
    <3>1. {f.of : f \in {file', pending'.file} \ {NoFile}}
              \subseteq {f.of : f \in {file, pending.file} \ {NoFile}}
      BY <2>1, <2>2
    <3> QED BY <1>1, <1>2, <2>1, <3>1 DEF GatewayInv, TypeOK, setup, NoRequest
  <2>4. FileInv'
    BY <1>1, <2>1, <2>2 DEF GatewayInv, FileInv, GoodFile, GoodCluster, setup
  <2>5. CASE pending.busy
    <3>1. file # NoFile /\ ~file.loaded /\ answer = 0
      BY <2>5 DEF GatewayInv, FileInv
    <3>2. ForceInv'
      BY <1>1, <2>1, <2>2, <3>1 DEF GatewayInv, ForceInv, GoodCluster, setup
    <3>3. RefusedInv'
      BY <1>1, <1>2, <1>5 DEF RefusedInv, setup
    <3>4. ChainInv'
      BY <1>1, <2>1, <2>2, <3>1 DEF GatewayInv, ChainInv
    <3> QED BY <2>3, <2>4, <3>2, <3>3, <3>4 DEF GatewayInv
  <2>6. CASE ~pending.busy
    <3>1. ForceInv'
      BY <1>1, <2>1, <2>2, <2>6 DEF GatewayInv, ForceInv, GoodCluster, Current, setup
    <3>2. RefusedInv'
      BY <1>1, <1>2, <1>5 DEF RefusedInv, setup
    <3>3. ChainInv'
      BY <1>1, <2>1, <2>2, <2>6 DEF GatewayInv, ChainInv, Current
    <3> QED BY <2>3, <2>4, <3>1, <3>2, <3>3 DEF GatewayInv
  <2> QED BY <2>5, <2>6
<1> QED BY <1>4, <1>5

LEMMA RebootKeeps ==
    ASSUME GatewayInv, Reboot PROVE GatewayInv'
<1>1. /\ reboots < MaxReboots /\ reboots' = reboots + 1 /\ pending' = NoRequest
      /\ UNCHANGED <<setup, vips, answer, requests, faults, restarts>> /\ Start(BaseRules, FALSE)
  BY DEF Reboot
<1>2. reboots' \in 0..MaxReboots /\ restarts' \in 0..MaxRestarts
  BY <1>1, GatewayAssumption DEF GatewayInv, TypeOK
<1>3. TypeOK'
  BY <1>1, <1>2, BaseIsLinked, StartKeepsTypes
<1>4. FileInv' /\ ForceInv' /\ RefusedInv' /\ ChainInv'
  <2>1. Names(BaseRules.chains) \ {FORWARD} = {}
    BY BaseHasNoPolicies
  <2> QED BY <1>1, <2>1, BaseIsLinked, BaseIsShaped, StartKeeps DEF setup
<1> QED BY <1>3, <1>4 DEF GatewayInv

LEMMA StutterKeeps ==
    ASSUME GatewayInv, UNCHANGED vars PROVE GatewayInv'
<1>1. UNCHANGED <<layer, partialReload, file, pending, rules, vips, answer, promised,
                  requests, faults, restarts, reboots>>
  BY DEF vars, setup, budgets
<1>2. Current' = Current /\ Load(rules, Current)' = Load(rules, Current)
  BY <1>1 DEF Current, Load
<1>3. TypeOK'
  BY <1>1 DEF GatewayInv, TypeOK, setup
<1>4. FileInv'
  BY <1>1 DEF GatewayInv, FileInv, GoodFile, GoodCluster
<1>5. ForceInv'
  BY <1>1, <1>2 DEF GatewayInv, ForceInv, GoodCluster
<1>6. RefusedInv'
  BY <1>1, <1>2 DEF GatewayInv, RefusedInv
<1>7. ChainInv'
  BY <1>1, <1>2 DEF GatewayInv, ChainInv, Listed
<1> QED BY <1>3, <1>4, <1>5, <1>6, <1>7 DEF GatewayInv

LEMMA GatewayInvHolds == Spec => []GatewayInv
<1>1. ASSUME GatewayInv, [Next]_vars PROVE GatewayInv'
  <2>1. CASE \E c \in IF requests = 0 THEN FirstClusters ELSE Clusters : Push(c)
    BY <1>1, <2>1, PushKeeps
  <2> QED BY <1>1, <2>1, ApplyKeeps, RestartKeeps, RebootKeeps, StutterKeeps DEF Next
<1> QED BY <1>1, InitKeeps, PTL DEF Spec

-----------------------------------------------------------------------------
(* Types; whatever nft refuses or takes, no jump of the kernel's chains    *)
(* leads nowhere.                                                          *)
THEOREM TypeCorrect == Spec => []TypeOK
BY GatewayInvHolds, PTL DEF GatewayInv

(* An idle agent's file is in force, or one that nft refuses: a restart    *)
(* between the rename and the reload is made good by the load at the start *)
(* (cmd/ch-k8s-lbaas-agent, main), a refused update by the rollback.       *)
THEOREM IdleFilesAreApplied == Spec => []IdleAppliesFile
<1>1. GatewayInv => IdleAppliesFile
  <2> SUFFICES ASSUME GatewayInv, Idle, file # NoFile, partialReload \/ restarts = 0
               PROVE  \/ file.loaded /\ promised = file.of
                      \/ ~file.loaded /\ ~Load(rules, file).ok
    BY DEF IdleAppliesFile
  <2>1. Current = file /\ file.loaded \in BOOLEAN
    BY DEF Current, Idle, GatewayInv, FileInv, GoodFile
  <2>2. CASE file.loaded
    BY <2>1, <2>2 DEF GatewayInv, ForceInv
  <2>3. CASE ~file.loaded
    BY <2>1, <2>3 DEF GatewayInv, RefusedInv
  <2> QED BY <2>2, <2>3
<1> QED BY <1>1, GatewayInvHolds, PTL

(* In every backend layer, connections to a mapped port go to the backends *)
(* of its service port and nowhere else, in whatever order configurations  *)
(* were pushed, refused, rolled back and loaded again (the generators of   *)
(* internal/controller, the prerouting chain of the template, and          *)
(* WriteWithRollback).  When services share a port of an address, they go  *)
(* to the backends of one of them.  In the Pod model the target ports must *)
(* be Resolvable, and only a single subset is reached completely.          *)
THEOREM TrafficAlwaysReachesBackends == Spec => []TrafficReachesBackends
<1>1. GatewayInv => TrafficReachesBackends
  <2> SUFFICES ASSUME GatewayInv, InForce,
                      NEW s \in Mapped(promised), NEW p \in Range(promised.services[s].ports)
               PROVE  LET reached == Destinations(rules, promised.assignment[s], p.proto, p.port)
                          sharers == Sharers(promised, s, p)
                      IN  layer # "Pod" \/ (\A x \in sharers : Resolvable(promised, x[1], x[2])) =>
                            /\ reached \subseteq
                                  UNION {Backends(layer, promised, x[1], x[2]) : x \in sharers}
                            /\ sharers = {<<s, p>>} /\ (layer # "Pod" \/ Len(promised.endpoints[s]) <= 1)
                                  => Backends(layer, promised, s, p) \subseteq reached
                            /\ reached # {} /\ answer = 200 => promised.assignment[s] \in vips
    BY DEF TrafficReachesBackends
  <2>1. GoodCluster(promised) /\ rules.nat = Prerouting(GenerateModel(layer, promised))
    BY DEF InForce, GatewayInv, ForceInv
  <2>2. layer \in Layers
    BY GatewayAssumption DEF GatewayInv, TypeOK, setup
  <2>3. WellFormed(promised)
    BY <2>1, GatewayAssumption DEF GoodCluster
  <2>4. Serves(rules, layer, promised, s, p)
    BY <2>1, <2>2, <2>3, ModelServes DEF GoodCluster
  <2>5. answer = 200 => vips = VirtualAddresses(GenerateModel(layer, promised))
    BY DEF GatewayInv, ForceInv
  <2> QED BY <2>4, <2>5 DEF Serves
<1> QED BY <1>1, GatewayInvHolds, PTL

(* The network policies are in force in the kernel, for every connection,  *)
(* whatever was pushed, refused, rolled back or loaded since: the file     *)
(* that was promised is in the kernel, its rules perhaps more than once,   *)
(* and it lets through what the policies admit (buildNetworkPolicy, the    *)
(* template of nftables_generator.go, docs/agent/nftables.md:59).          *)
THEOREM PoliciesStayInForce == Spec => []PolicyInForce
<1>1. GatewayInv => PolicyInForce
  <2> SUFFICES ASSUME GatewayInv, layer = "Pod", InForce, faults = 0, UniqueNames(promised),
                      NEW pkt \in Packets
               PROVE  LET accepted == Accepted(rules.chains, pkt)
                          admitted == Admits(promised, pkt, NamedPort)
                      IN  /\ accepted => admitted
                          /\ admitted => accepted \/ HasNamedPorts(promised)
    BY DEF PolicyInForce
  <2>1. /\ Current # NoFile /\ Current.loaded /\ promised = Current.of
        /\ GoodFile(Current) /\ setup \in Setups
    BY DEF InForce, GatewayInv, ForceInv, FileInv, TypeOK, Current
  <2>2. /\ Shaped(rules.chains) /\ Shaped(Current.text.chains)
        /\ Repeats(rules.chains, Current.text.chains)
    BY <2>1, TextOfFile DEF GatewayInv, ChainInv
  <2>3. Accepted(rules.chains, pkt) <=> Accepted(Current.text.chains, pkt)
    BY <2>2, RepeatedAccept
  <2>4. Current.text = Generate(PodModel(promised), Current.text.existing)
    BY <2>1 DEF GoodFile, GenerateModel
  <2>5. SoundPolicies(promised)
    BY <2>1, GatewayAssumption DEF GoodFile, GoodCluster, WellFormed
  <2>6. pkt.port \in Nat \ {0} /\ pkt.port <= 65535
    BY GatewayAssumption
  <2>7. LET accepted == Accepted(Generate(PodModel(promised), Current.text.existing).chains, pkt)
            admitted == Admits(promised, pkt, NamedPort)
        IN  /\ accepted => admitted
            /\ admitted => accepted \/ HasNamedPorts(promised)
    BY <2>5, <2>6, PoliciesAreServed
  <2> QED BY <2>3, <2>4, <2>7
<1> QED BY <1>1, GatewayInvHolds, PTL

-----------------------------------------------------------------------------
(* An answer to an update is Apply's.                                      *)
LEMMA OnlyApplyAnswers ==
    ASSUME [Next]_vars, Applies
    PROVE  Apply
<1>1. pending.busy /\ answer' # answer
  BY DEF Applies
<1>2. \A c : ~Push(c)
  BY <1>1 DEF Push, Idle
<1> QED BY <1>1, <1>2 DEF Next, Restart, Reboot, vars

(* After an update, the chains are those of the file, and no other chain   *)
(* or rule is left: with partial reload the file deletes what nft listed   *)
(* before, and otherwise the service starts from nothing.                  *)
THEOREM UpdatesReplaceChains == Spec => ReloadReplacesChains
<1>1. ASSUME GatewayInv, [Next]_vars, Applies, answer' = 200, faults' = 0
      PROVE  rules'.chains = file.text.chains
  <2>1. Apply /\ pending.busy /\ faults = 0
    BY <1>1, OnlyApplyAnswers DEF Applies, Apply, budgets
  <2>2. /\ file # NoFile /\ GoodFile(file) /\ setup \in Setups /\ Shaped(rules.chains)
        /\ file.text.existing = Listed(TRUE)
    BY <1>1, <2>1 DEF GatewayInv, FileInv, TypeOK, ChainInv
  <2>3. partialReload => Names(rules.chains) \ {FORWARD} \subseteq Range(file.text.existing)
    BY <2>2, ListsOfChains
  <2>4. Load(rules, file).ok /\ rules' = Load(rules, file).rules
    BY <1>1, <2>1 DEF Apply
  <2> QED BY <2>2, <2>3, <2>4, LoadReplaces
<1> QED BY <1>1, GatewayInvHolds, PTL DEF Spec, ReloadReplacesChains

(* The order in which nft lists the chains is the one in which the file    *)
(* deletes them, and the kernel takes it as long as chains were created    *)
(* before those they jump to; at boot there is nothing to delete.          *)
THEOREM UpdatesGetAccepted == Spec => UpdatesAreAccepted
<1>1. ASSUME GatewayInv, [Next]_vars, faults' = 0, file # NoFile, Parses(file.text),
             Applies, Ordered(rules.chains)
      PROVE  answer' = 200
  <2>1. Apply /\ pending.busy /\ faults = 0
    BY <1>1, OnlyApplyAnswers DEF Applies, Apply, budgets
  <2>2. /\ GoodFile(file) /\ setup \in Setups /\ Shaped(rules.chains)
        /\ file.text.existing = Listed(TRUE)
    BY <1>1, <2>1 DEF GatewayInv, FileInv, TypeOK, ChainInv
  <2>3. ~Busy(Flush(rules.chains, FORWARD), file.text.existing)
    <3>1. Forwards(rules.chains, {})
      BY <1>1 DEF Ordered, Forwards
    <3>2. ~Busy(Flush(rules.chains, FORWARD), PolicyChainList(rules))
      BY <2>2, <3>1, DeletedInOrder
    <3>3. \A chains : ~Busy(chains, <<>>)
      BY DEF Busy
    <3> QED BY <2>2, <3>2, <3>3 DEF Listed
  <2>4. partialReload => Names(rules.chains) \ {FORWARD} \subseteq Range(file.text.existing)
    BY <2>2, ListsOfChains
  <2>5. Load(rules, file).ok
    BY <1>1, <2>2, <2>3, <2>4, LoadReplaces
  <2> QED BY <2>1, <2>5 DEF Apply
<1>2. ASSUME GatewayInv, [Next]_vars, faults' = 0, file # NoFile, Parses(file.text),
             reboots' # reboots
      PROVE  file'.loaded
  <2>1. Reboot
    BY <1>2 DEF Next, Push, Apply, Restart, vars, budgets
  <2>2. GoodFile(file) /\ setup \in Setups
    BY <1>2 DEF GatewayInv, FileInv, TypeOK
  <2>3. Load(BaseRules, file).ok
    BY <1>2, <2>2, LoadAtBoot
  <2>4. file' = [file EXCEPT !.loaded = FALSE \/ Load(BaseRules, file).ok]
    BY <1>2, <2>1 DEF Reboot, Start
  <2>5. file = [text |-> file.text, of |-> file.of, loaded |-> file.loaded]
    BY <2>2 DEF GoodFile
  <2> QED BY <2>3, <2>4, <2>5
<1> QED BY <1>1, <1>2, GatewayInvHolds, PTL DEF Spec, UpdatesAreAccepted
=============================================================================
