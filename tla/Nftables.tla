------------------------------ MODULE Nftables ------------------------------
(***************************************************************************)
(* The nftables file that the agent generates from a load balancer model   *)
(* (internal/agent/nftables_generator.go), and, external, what nft and the *)
(* kernel make of it.                                                      *)
(*                                                                         *)
(* The filter table is configured.  A file has                             *)
(*   existing  with partial reload, the policy chains it first deletes     *)
(*   chains    the filter chains it defines, in the template's order       *)
(*   nat       the forwards of the prerouting chain, as a set: of two for  *)
(*             one address, protocol and port the first takes everything,  *)
(*             and which one that is depends on the order of Go's maps     *)
(* A chain is named by what its name is made of, a rule is                 *)
(*   dst, src  {} or the one address or CIDR it asks for                   *)
(*   ports     {} or the port ranges it asks for, of one protocol          *)
(*   verdict   with its target chain, if any                               *)
(* The rules only see the traffic that prerouting marked.                  *)
(***************************************************************************)
EXTENDS LoadBalancerModel

Rule(dst, match, verdict, target) ==
    [dst |-> dst, src |-> match.src, ports |-> match.ports,
     verdict |-> verdict, target |-> target]
Always == [src |-> {}, ports |-> {}]
Verdict(v) == Rule({}, Always, v, <<>>)
Jump(target) == Rule({}, Always, "jump", target)

(* makePortMap: a filter without a port allows all of the protocol.        *)
MakePortMap(in) ==
    [proto \in {f.proto : f \in Range(in)} |->
        LET filters == {f \in Range(in) : f.proto = proto}
        IN  IF \E f \in filters : f.port = Unset
              THEN {[proto |-> proto, low |-> 0, high |-> 65535]}
              ELSE {[proto |-> proto, low |-> f.port,
                     high |-> IF f.end = Unset THEN f.port ELSE f.end] : f \in filters}]

(* One match per protocol; no filters at all match anything.               *)
MakePortMatches(in) ==
    LET portMap == MakePortMap(in)
    IN  IF in = <<>> THEN <<{}>> ELSE SetToSeq({portMap[proto] : proto \in DOMAIN portMap})

MakeSAddrMatches(in) ==
    IF in = <<>> THEN <<[match |-> {}, except |-> <<>>]>>
    ELSE [i \in DOMAIN in |-> [match |-> {in[i].cidr}, except |-> in[i].except]]

(* Every source with every port.                                           *)
MakeIngressRuleChain(rule) ==
    LET ports == MakePortMatches(rule.ports)
        Entries(saddr) == [k \in DOMAIN ports |->
            [src |-> saddr.match, ports |-> ports[k], except |-> saddr.except]]
        saddrs == MakeSAddrMatches(rule.blocks)
    IN  FlattenSeq([i \in DOMAIN saddrs |-> Entries(saddrs[i])])

(* The chain of an entry with exceptions returns for them.                 *)
CidrChain(name, entry) ==
    [name |-> name,
     rules |-> [k \in DOMAIN entry.except |->
                   Rule({}, [src |-> {entry.except[k]}, ports |-> {}], "return", <<>>)]
               \o <<Verdict("accept")>>]

(* A rule of the policy, and the chains of its entries with exceptions.    *)
RuleChain(n, i, entries) ==
    [name |-> <<"RULE", n, i>>,
     rules |-> [j \in DOMAIN entries |->
         IF entries[j].except = <<>> THEN Rule({}, entries[j], "accept", <<>>)
                                     ELSE Rule({}, entries[j], "jump", <<"CIDR", n, i, j>>)]]

CidrChains(n, i, entries) ==
    FlattenSeq([j \in DOMAIN entries |->
        IF entries[j].except = <<>> THEN <<>>
                                    ELSE <<CidrChain(<<"CIDR", n, i, j>>, entries[j])>>])

RuleChains(n, i, entries) == <<RuleChain(n, i, entries)>> \o CidrChains(n, i, entries)

PolicyChain(pol) ==
    [name |-> <<"POLICY", pol.name>>,
     rules |-> [i \in DOMAIN pol.ingresses |-> Jump(<<"RULE", pol.name, i>>)]]

IgnoreExcept_Slip(pol) ==
    LET Bare(i) == LET entries == MakeIngressRuleChain(pol.ingresses[i])
                   IN  [j \in DOMAIN entries |-> [entries[j] EXCEPT !.except = <<>>]]
    IN  <<PolicyChain(pol)>>
        \o FlattenSeq([i \in DOMAIN pol.ingresses |-> RuleChains(pol.name, i, Bare(i))])

(* The chains of one policy.                                               *)
PolicyChains(pol) ==
    <<PolicyChain(pol)>>
    \o FlattenSeq([i \in DOMAIN pol.ingresses |->
                      RuleChains(pol.name, i, MakeIngressRuleChain(pol.ingresses[i]))])

FORWARD == <<"forward">>

ForwardChain(assignments) ==
    [name |-> FORWARD,
     rules |-> [i \in DOMAIN assignments |->
                   Rule({assignments[i].address}, Always, "goto", <<"POD", assignments[i].address>>)]
               \o <<Verdict("accept")>>]

PodChain(assignment) ==
    LET names == SetToSeq(assignment.policies)
    IN  [name |-> <<"POD", assignment.address>>,
         rules |-> [i \in DOMAIN names |-> Jump(<<"POLICY", names[i]>>)] \o <<Verdict("drop")>>]

(* copyAddresses and the template: what has no destination is left out.    *)
Prerouting(m) ==
    UNION {{[inbound |-> i.address, forward |-> f] : f \in {g \in i.ports : g.addrs # {}}} :
           i \in m.ingress}

(* Policies are kept by their name, without the namespace: the last one of *)
(* a name wins.                                                            *)
PolicyNamed(m, n) == m.policies[Highest({i \in DOMAIN m.policies : m.policies[i].name = n})]

(* GenerateStructuredConfig and the template.                              *)
Generate(m, existing) ==
    LET assignments == SetToSeq(m.assignments)
        names == SetToSeq({pol.name : pol \in Range(m.policies)})
    IN  [existing |-> existing,
         chains |-> <<ForwardChain(assignments)>>
                    \o [i \in DOMAIN assignments |-> PodChain(assignments[i])]
                    \o FlattenSeq([i \in DOMAIN names |-> PolicyChains(PolicyNamed(m, names[i]))]),
         nat |-> Prerouting(m)]

(* KeepalivedConfigGenerator: the virtual addresses of the one instance.   *)
VirtualAddresses(m) == {i.address : i \in m.ingress}

-----------------------------------------------------------------------------
(* nft and the kernel (external).  A rule set has the filter chains in the *)
(* order of their creation and the NAT forwards.                           *)
BaseRules == [chains |-> <<[name |-> FORWARD, rules |-> <<>>]>>, nat |-> {}]

ChainNames(chains) == [i \in DOMAIN chains |-> chains[i].name]
Names(chains) == Range(ChainNames(chains))
RulesOf(chains, name) == (CHOOSE c \in Range(chains) : c.name = name).rules

(* getExistingPolicyChains: `nft list chains`, reduced to the chains with  *)
(* the policy prefix.                                                      *)
PolicyChainList(rules) == Keep(ChainNames(rules.chains), Names(rules.chains) \ {FORWARD})

(* The template writes `ip saddr` before every CIDR and all of the NAT     *)
(* into a table of the family ip.                                          *)
Parses(file) ==
    /\ \A c \in Range(file.chains) : \A r \in Range(c.rules) : UNION r.src \cap IPv6 = {}
    /\ \A f \in file.nat : f.inbound \notin IPv6 /\ f.forward.addrs \cap IPv6 = {}

(* `add chain`, then `delete chain`, in the order of the list: EBUSY when  *)
(* a rule of another chain that is still there jumps to the chain.         *)
Busy(chains, names) ==
    \E i \in DOMAIN names : \E c \in Range(chains) :
        /\ \A j \in 1..i : c.name # names[j]
        /\ \E r \in Range(c.rules) : r.target = names[i]

DeleteAll(chains, names) == Keep(chains, {c \in Range(chains) : c.name \notin Range(names)})

(* The chains of a file, none of which is defined twice there.  A chain    *)
(* that exists keeps its place and its rules.                              *)
AddAll(chains, more) ==
    [i \in DOMAIN chains |->
        IF chains[i].name \in Names(more)
          THEN [chains[i] EXCEPT !.rules = @ \o RulesOf(more, chains[i].name)] ELSE chains[i]]
    \o Keep(more, {c \in Range(more) : c.name \notin Names(chains)})

Flush(chains, name) ==
    [i \in DOMAIN chains |-> IF chains[i].name = name THEN [chains[i] EXCEPT !.rules = <<>>]
                                                      ELSE chains[i]]

(* Every jump leads to a chain.                                            *)
Linked(chains) == \A c \in Range(chains) : \A r \in Range(c.rules) :
    r.target = <<>> \/ r.target \in Names(chains)

(* `nft -f`, all or nothing, on the rule set of the kernel.                *)
Transaction(rules, file) ==
    LET flushed == Flush(rules.chains, FORWARD)
        chains == AddAll(DeleteAll(flushed, file.existing), file.chains)
        ok == Parses(file) /\ ~Busy(flushed, file.existing) /\ Linked(chains)
    IN  [ok |-> ok, rules |-> IF ok THEN [chains |-> chains, nat |-> file.nat] ELSE rules]

(* The nftables service: all rules are replaced, by the administrator's    *)
(* and then by the file's.                                                 *)
ServiceReload(rules, file) ==
    LET loaded == Transaction(BaseRules, file)
    IN  IF loaded.ok THEN loaded ELSE [loaded EXCEPT !.rules = rules]

-----------------------------------------------------------------------------
(* Where a connection to a port of a virtual address may end.              *)
Destinations(rules, address, proto, port) ==
    UNION {{<<a, f.forward.dest>> : a \in f.forward.addrs} :
           f \in {g \in rules.nat : /\ g.inbound = address
                                    /\ g.forward.proto = proto /\ g.forward.inbound = port}}

(* What becomes of a packet to a pod in a list of rules: the first rule    *)
(* that matches ends it, unless that is a jump to a chain that lets the    *)
(* packet continue.  `called` tells for each chain what it decides.        *)
RuleMatches(r, pkt) ==
    /\ r.dst = {} \/ pkt.dst \in r.dst
    /\ r.src = {} \/ pkt.src \in UNION r.src
    /\ r.ports = {} \/ \E q \in r.ports : /\ q.proto = pkt.proto
                                          /\ q.low <= pkt.port /\ pkt.port <= q.high

Ends(r, called, pkt) ==
    RuleMatches(r, pkt) /\ (r.verdict = "jump" => called[r.target] # "continue")

Outcome(rules, called, pkt) ==
    LET ends == {i \in DOMAIN rules : Ends(rules[i], called, pkt)}
        r == rules[CHOOSE i \in ends : \A j \in ends : i <= j]
    IN  IF ends = {} THEN "continue"
        ELSE CASE r.verdict \in {"accept", "drop"} -> r.verdict
               [] r.verdict = "return" -> "continue"
               [] r.verdict \in {"goto", "jump"} -> called[r.target]

Decided(chains, called, pkt) ==
    [n \in Names(chains) |-> Outcome(RulesOf(chains, n), called, pkt)]

(* The jumps of a generated file are four deep: forward, pod, policy, rule *)
(* and CIDR chain.  The forward chain accepts what nothing decides.        *)
Accepted(chains, pkt) ==
    LET Calling(called) == Decided(chains, called, pkt)
        none == [n \in Names(chains) |-> "continue"]
    IN  Calling(Calling(Calling(Calling(Calling(none)))))[FORWARD] # "drop"
=============================================================================
