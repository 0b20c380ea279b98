----------------------------- MODULE MC_Gateway -----------------------------
(* Clusters for Gateway: two services on one L3 port or on two, pods p1    *)
(* and p2, and network policies that try what a rule can say.              *)
EXTENDS Gateway

Peer(cidr, except) == [block |-> TRUE, cidr |-> cidr, except |-> except]
Selector == [block |-> FALSE, cidr |-> {}, except |-> <<>>]
World == {"c1", "c2"}
Filter(proto, port, end) == [proto |-> proto, port |-> port, end |-> end]
IngressRule(from, ports) == [from |-> from, ports |-> ports]
Policy(name, pods, ingress) ==
    [name |-> name, isIngress |-> TRUE, pods |-> pods, ingress |-> ingress]

Froms == {<<>>, <<Selector>>, <<Peer({"c1"}, <<>>), Selector>>, <<Peer(World, <<{"c2"}, {}>>)>>,
          <<Peer(World, <<{"c1"}>>), Peer({"c1"}, <<>>)>>}
Ports == {<<>>, <<Filter("TCP", 80, Unset), Filter("UDP", 53, Unset)>>,
          <<Filter("TCP", 80, 90)>>, <<Filter("TCP", 8080, Unset), Filter("TCP", Unset, Unset)>>}

SomePackets == [src : World, dst : {"p1", "p2"}, proto : {"TCP", "UDP"}, port : {53, 80, 90, 8080}]

-----------------------------------------------------------------------------
ServicePort(name, proto, port, target, targetName) ==
    [name |-> name, proto |-> proto, port |-> port, node |-> 30000 + port,
     target |-> target, targetName |-> targetName]
EndpointPort(name, proto, port) == [name |-> name, proto |-> proto, port |-> port]

Web == [ports |-> <<ServicePort("", "TCP", 80, 8080, "")>>, clusterIP |-> "w"]
Dns == [ports |-> <<ServicePort("udp", "UDP", 53, 5353, ""), ServicePort("tcp", "TCP", 53, 90, ""),
                    ServicePort("adm", "TCP", 90, Named, "adm")>>, clusterIP |-> "d"]
WebEndpoints == <<[addrs |-> {"p1", "p2"}, ports |-> <<EndpointPort("", "TCP", 8080)>>]>>
DnsEndpoints ==
    [addrs |-> {"p2"}, ports |-> <<EndpointPort("udp", "UDP", 5353), EndpointPort("adm", "TCP", 8080),
                                   EndpointPort("tcp", "TCP", 90)>>]

Cluster(address, endpoints, nodes, policies) ==
    [assignment |-> [s \in {"web", "dns"} |-> IF s = "web" THEN "a" ELSE address],
     services |-> [s \in {"web", "dns"} |-> IF s = "web" THEN Web ELSE Dns],
     endpoints |-> [s \in {"web", "dns"} |-> IF s = "web" THEN WebEndpoints ELSE endpoints],
     nodes |-> nodes, policies |-> policies]
Policed(policies) == Cluster("a", <<DnsEndpoints>>, {"n1", "n6"}, policies)

Open == IngressRule(<<>>, <<>>)
OnlyC1 == IngressRule(<<Peer(World, <<{"c2"}>>)>>, <<>>)
Tcp80 == IngressRule(<<>>, <<Filter("TCP", 80, Unset)>>)

(* Pushed later: one rule, two rules, two policies on two pods, a service  *)
(* that moved and lost its policies.                                       *)
SomeClusters ==
    {Policed(<<Policy("x", {"p1"}, <<Tcp80>>)>>),
     Policed(<<Policy("x", {"p1"}, <<OnlyC1, Tcp80>>)>>),
     Policed(<<Policy("x", {"p1"}, <<OnlyC1>>), Policy("y", {"p1", "p2"}, <<Tcp80>>)>>),
     Cluster("b", <<>>, {"n1"}, <<>>)}

(* Refused by the agent or by nft: a protocol, an IPv6 block, no node of   *)
(* the family.  The last one has lost a service that is still mapped.      *)
HarmfulClusters ==
    {Policed(<<Policy("x", {"p1"}, <<IngressRule(<<>>, <<Filter("SCTP", 80, Unset)>>)>>)>>),
     Policed(<<Policy("x", {"p1"}, <<IngressRule(<<Peer({"c6"}, <<>>)>>, <<>>)>>)>>),
     Cluster("a6", <<DnsEndpoints>>, {"n1"}, <<>>),
     [Policed(<<>>) EXCEPT !.services = [s \in {"web"} |-> Web]]}

(* The user has given the second service the port of the first, and it has *)
(* not been moved to another address yet.                                  *)
Rival == [ports |-> <<[ServicePort("", "TCP", 80, 90, "") EXCEPT !.node = 30081]>>, clusterIP |-> "d"]
RivalEndpoints == <<[addrs |-> {"p2"}, ports |-> <<EndpointPort("", "TCP", 90)>>]>>
Contended ==
    [Cluster("a", RivalEndpoints, {"n1", "n6"}, <<>>) EXCEPT
        !.services = [s \in {"web", "dns"} |-> IF s = "web" THEN Web ELSE Rival]]

(* More subsets than one, an empty policy, one of type Egress, a named     *)
(* port, two policies of one name, an end port that is the port.           *)
OddClusters ==
    {Contended,
     Cluster("b", <<DnsEndpoints, [DnsEndpoints EXCEPT !.addrs = {"p1"}]>>, {"n1", "n2"}, <<>>),
     Policed(<<Policy("x", {"p1"}, <<>>), [Policy("e", {"p2"}, <<>>) EXCEPT !.isIngress = FALSE]>>),
     Policed(<<Policy("x", {"p1"}, <<IngressRule(<<>>, <<Filter("TCP", Named, Unset)>>)>>)>>),
     Policed(<<Policy("x", {"p1"}, <<Tcp80>>), Policy("x", {"p2"}, <<>>)>>),
     Policed(<<Policy("x", {"p1"}, <<IngressRule(<<>>, <<Filter("TCP", 80, 80)>>)>>)>>)}

RuleClusters ==
    {Policed(<<Policy("x", {"p1"}, <<IngressRule(from, ports)>>)>>) : from \in Froms, ports \in Ports}

AllClusters == SomeClusters \cup HarmfulClusters \cup OddClusters \cup RuleClusters
LaterClusters == SomeClusters \cup HarmfulClusters
AllSetups == {"NodePort", "ClusterIP", "Pod"} \X BOOLEAN
=============================================================================
