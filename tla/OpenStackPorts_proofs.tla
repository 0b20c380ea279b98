----------------------- MODULE OpenStackPorts_proofs -----------------------
(***************************************************************************)
(* Proofs about OpenStackPorts, for any sets of ports, of floating IPs and *)
(* of agents, and any bounds.                                              *)
(***************************************************************************)
EXTENDS OpenStackPorts, FiniteSetTheorems, TLAPS

-----------------------------------------------------------------------------
(* What the helpers return.                                                *)
LEMMA FaultsTyped ==
    TypeOK /\ (Fault \/ NoFault) =>
        /\ faults' \in 0..MaxFaults
        /\ UNCHANGED lost \/ (Fault /\ LostReply) => lost' \in 0..faults'
BY OpenStackAssumption DEF TypeOK, Fault, NoFault, LostReply

LEMMA IdleTyped == Idle \in CallState
BY DEF Idle, CallState

LEMMA EnsureTyped ==
    ASSUME TypeOK, NEW P \in SUBSET Port, EnsureAgentsState(P)
    PROVE  /\ pairs' \in [Agent -> SUBSET Port] /\ faults' \in 0..MaxFaults
           /\ faults' \in {faults, faults + 1}
           /\ UNCHANGED lost => lost' \in 0..faults'
<1>1. pairs' \in [Agent -> SUBSET Port]
  BY DEF EnsureAgentsState, TypeOK
<1>2. Fault \/ NoFault
  BY DEF EnsureAgentsState
<1> QED BY <1>1, <1>2, FaultsTyped DEF Fault, NoFault

(* A port that is deleted takes no other port's address away.              *)
LEMMA DeletesOne ==
    ASSUME TypeOK, NEW p \in Port, Deletes(p) \/ DeleteFails(p)
    PROVE  /\ ports' \in [Port -> Stages]
           /\ fips' \in [FloatingIP -> [stage : Stages, port : Port \cup {NoPort}]]
           /\ pairs' \in [Agent -> SUBSET Port]
           /\ faults' \in 0..MaxFaults /\ faults' \in {faults, faults + 1}
           /\ UNCHANGED lost => lost' \in 0..faults'
           /\ \A q \in Port \ {p} :
                  ports'[q] = ports[q] /\ (HasExternalAddress(q) => HasExternalAddress(q)')
           /\ \A f \in FloatingIP : fips'[f].stage = fips[f].stage
           /\ ports'[p] = "deleted" \/ (UNCHANGED <<ports, fips>> /\ faults' = faults + 1)
<1>1. ASSUME PortGoes(p)
      PROVE  /\ ports' \in [Port -> Stages] /\ ports'[p] = "deleted"
             /\ fips' \in [FloatingIP -> [stage : Stages, port : Port \cup {NoPort}]]
             /\ \A f \in FloatingIP : fips'[f].stage = fips[f].stage
             /\ \A q \in Port \ {p} :
                    ports'[q] = ports[q] /\ (HasExternalAddress(q) => HasExternalAddress(q)')
  <2>1. /\ ports' \in [Port -> Stages] /\ ports'[p] = "deleted"
        /\ \A q \in Port \ {p} : ports'[q] = ports[q]
    BY <1>1 DEF PortGoes, TypeOK, Stages
  <2>2. /\ fips' \in [FloatingIP -> [stage : Stages, port : Port \cup {NoPort}]]
        /\ \A f \in FloatingIP : fips'[f].stage = fips[f].stage
        /\ \A f \in FloatingIP : fips[f].port # p => fips'[f] = fips[f]
    BY <1>1 DEF PortGoes, TypeOK
  <2>3. \A q \in Port \ {p} : HasExternalAddress(q) => HasExternalAddress(q)'
    BY <2>1, <2>2 DEF HasExternalAddress
  <2> QED BY <2>1, <2>2, <2>3
<1>2. CASE Deletes(p)
  <2>1. EnsureAgentsState(TaggedPorts \ {p}) /\ TaggedPorts \ {p} \in SUBSET Port
    BY <1>2 DEF Deletes, TaggedPorts
  <2> QED BY <1>1, <1>2, <2>1, EnsureTyped DEF Deletes
<1>3. CASE DeleteFails(p)
  <2>1. /\ pairs' \in [Agent -> SUBSET Port] /\ faults' = faults + 1
        /\ faults' \in 0..MaxFaults /\ (UNCHANGED lost => lost' \in 0..faults')
    BY <1>3, FaultsTyped DEF DeleteFails, Fault, TypeOK
  <2>2. CASE PortGoes(p)
    BY <1>1, <2>1, <2>2
  <2>3. CASE UNCHANGED <<ports, fips>>
    BY <2>1, <2>3 DEF TypeOK, HasExternalAddress
  <2> QED BY <1>3, <2>2, <2>3 DEF DeleteFails
<1> QED BY <1>2, <1>3

-----------------------------------------------------------------------------
(* Half a port is not known to the mapper, a port that is returned is      *)
(* complete, and what a cleanup takes apart is not in use.                 *)
KnownInv ==
    \A p \in known : ports[p] = "tagged" /\ (crashes = 0 => HasExternalAddress(p))

CallInv ==
    /\ call.step \in {"TagPort", "CreateFloatingIP", "TagFloatingIP", "CleanupFloatingIP",
                      "CleanupPort", "Ensure"} => call.port \in Port
    /\ call.step = "TagPort" => ports[call.port] = "untagged"
    /\ call.step \in {"CreateFloatingIP", "TagFloatingIP", "CleanupFloatingIP", "CleanupPort"} =>
           call.port \notin known
    /\ call.step \in {"CreateFloatingIP", "TagFloatingIP"} => ports[call.port] = "tagged"
    /\ call.step \in {"TagFloatingIP", "CleanupFloatingIP"} =>
           \A f \in call.fips : fips[f].port = call.port
    /\ call.step = "Ensure" => HasExternalAddress(call.port)
    /\ call.step = "DeletePorts" => known = used /\ call.todo \cap used = {}
    /\ call.step = "DeleteFloatingIPs" => \A f \in call.fips : fips[f].port = NoPort

PortsInv == TypeOK /\ KnownInv /\ CallInv

LEMMA IdleCall == call' = Idle => CallInv'
BY DEF Idle, CallInv

(* The types first.                                                        *)
LEMMA NextKeepsTypes == PortsInv /\ [Next]_vars => TypeOK'
<1> SUFFICES ASSUME PortsInv, [Next]_vars PROVE TypeOK'
  OBVIOUS
<1>1. /\ TypeOK /\ call \in CallState /\ Idle \in CallState
      /\ Idle.fips = {} /\ Idle.todo = {} /\ Idle.port = NoPort
  BY IdleTyped DEF PortsInv, TypeOK, Idle
<1>2. TaggedPorts \in SUBSET Port /\ Orphans \in SUBSET FloatingIP
  BY DEF TaggedPorts, Orphans
<1>3. ASSUME UNCHANGED <<ports, fips, known, used, uses, crashes>>,
             pairs' \in [Agent -> SUBSET Port], call' \in CallState,
             faults' \in 0..MaxFaults, lost' \in 0..faults'
      PROVE  TypeOK'
  BY <1>1, <1>3 DEF TypeOK
<1>4. CASE CreatePort
  <2>1. ports' \in [Port -> Stages] /\ call' \in CallState
    BY <1>1, <1>4 DEF CreatePort, TypeOK, CallState, Stages
  <2> QED BY <1>1, <1>4, <2>1, FaultsTyped DEF CreatePort, TypeOK, environment
<1>5. CASE TagPort
  <2>1. ports' \in [Port -> Stages]
    BY <1>1, <1>5 DEF TagPort, TypeOK, Stages
  <2>2. call' \in CallState
    BY <1>1, <1>5 DEF TagPort, CallState
  <2> QED BY <1>1, <1>5, <2>1, <2>2, FaultsTyped DEF TagPort, TypeOK, environment
<1>6. CASE CreateFloatingIP
  <2>1. call.port \in Port
    BY <1>6 DEF PortsInv, CallInv, CreateFloatingIP
  <2>2. PICK f \in FloatingIP :
            /\ fips' = [fips EXCEPT ![f] = [stage |-> "untagged", port |-> call.port]]
            /\ \/ call' = [call EXCEPT !.step = "TagFloatingIP", !.fips = {f}]
               \/ call' = [call EXCEPT !.step = "CleanupPort"]
    BY <1>6 DEF CreateFloatingIP
  <2>3. [stage |-> "untagged", port |-> call.port] \in [stage : Stages, port : Port \cup {NoPort}]
    BY <2>1 DEF Stages
  <2>4. fips' \in [FloatingIP -> [stage : Stages, port : Port \cup {NoPort}]]
    BY <1>1, <2>2, <2>3 DEF TypeOK
  <2>5. call' \in CallState
    <3>1. CASE call' = [call EXCEPT !.step = "TagFloatingIP", !.fips = {f}]
      BY <1>1, <3>1 DEF CallState
    <3>2. CASE call' = [call EXCEPT !.step = "CleanupPort"]
      BY <1>1, <3>2 DEF CallState
    <3> QED BY <2>2, <3>1, <3>2
  <2> QED BY <1>1, <1>6, <2>4, <2>5, FaultsTyped DEF CreateFloatingIP, TypeOK, environment
<1>7. CASE TagFloatingIP
  <2>1. fips' \in [FloatingIP -> [stage : Stages, port : Port \cup {NoPort}]]
    BY <1>1, <1>7 DEF TagFloatingIP, TypeOK, Stages, CallState
  <2>2. call' \in CallState
    BY <1>1, <1>7 DEF TagFloatingIP, CallState
  <2> QED BY <1>1, <1>7, <2>1, <2>2, FaultsTyped DEF TagFloatingIP, TypeOK, environment
<1>8. CASE CleanupFloatingIP
  <2>1. fips' \in [FloatingIP -> [stage : Stages, port : Port \cup {NoPort}]]
    BY <1>1, <1>8 DEF CleanupFloatingIP, TypeOK, Stages, CallState
  <2>2. call' \in CallState
    BY <1>1, <1>8 DEF CleanupFloatingIP, CallState
  <2> QED BY <1>1, <1>8, <2>1, <2>2, FaultsTyped DEF CleanupFloatingIP, TypeOK, environment
<1>9. CASE CleanupPort
  <2>1. call.port \in Port
    BY <1>9 DEF PortsInv, CallInv, CleanupPort
  <2> QED BY <1>1, <1>9, <2>1, DeletesOne DEF CleanupPort, TypeOK, environment
<1>10. CASE ReturnPort
  <2>1. call.port \in Port
    BY <1>10 DEF PortsInv, CallInv, ReturnPort
  <2> QED BY <1>1, <1>2, <1>10, <2>1, EnsureTyped DEF ReturnPort, TypeOK
<1>11. CASE StartCleanup
  <2>1. [Idle EXCEPT !.step = "DeletePorts", !.todo = TaggedPorts \ used] \in CallState
    BY <1>1, <1>2 DEF CallState
  <2> QED BY <1>1, <1>11, <2>1, FaultsTyped DEF StartCleanup, TypeOK, neutron
<1>12. CASE DeleteUnusedPort
  <2>1. PICK p \in call.todo : Deletes(p) \/ DeleteFails(p)
    BY <1>12 DEF DeleteUnusedPort
  <2>2. p \in Port
    BY <1>1, <2>1 DEF CallState
  <2>3. call' \in CallState
    BY <1>1, <1>12 DEF DeleteUnusedPort, CallState
  <2> QED BY <1>1, <1>12, <2>1, <2>2, <2>3, DeletesOne
          DEF DeleteUnusedPort, TypeOK, environment
<1>13. CASE ListFloatingIPs
  <2>1. call' \in CallState
    BY <1>1, <1>2, <1>13 DEF ListFloatingIPs, CallState
  <2>2. Fault \/ NoFault
    BY <1>13 DEF ListFloatingIPs
  <2> QED BY <1>1, <1>3, <1>13, <2>1, <2>2, FaultsTyped
          DEF ListFloatingIPs, neutron, environment, TypeOK
<1>14. CASE DeleteUnusedFloatingIP
  <2>1. fips' \in [FloatingIP -> [stage : Stages, port : Port \cup {NoPort}]]
    BY <1>1, <1>14 DEF DeleteUnusedFloatingIP, TypeOK, Stages, CallState
  <2>2. call' \in CallState
    BY <1>1, <1>14 DEF DeleteUnusedFloatingIP, CallState
  <2> QED BY <1>1, <1>14, <2>1, <2>2, FaultsTyped
          DEF DeleteUnusedFloatingIP, TypeOK, environment
<1>15. CASE RunEnsureAgentsState
  BY <1>1, <1>2, <1>3, <1>15, EnsureTyped DEF RunEnsureAgentsState, environment
<1>16. ASSUME NEW p \in Port, Use(p) \/ Disuse(p)
       PROVE  TypeOK'
  BY <1>1, <1>16, OpenStackAssumption DEF Use, Disuse, TypeOK, neutron
<1>17. CASE Restart
  <2>1. used \subseteq TaggedPorts
    BY <1>1 DEF PortsInv, KnownInv, TypeOK, TaggedPorts
  <2> QED BY <1>1, <1>2, <1>17, <2>1, OpenStackAssumption DEF Restart, TypeOK, neutron
<1>18. CASE CreatePortFails \/ CreateFloatingIPFails
  <2>1. call' \in CallState
    BY <1>1, <1>18 DEF CreatePortFails, CreateFloatingIPFails, CallState
  <2> QED BY <1>1, <1>18, <2>1, FaultsTyped
          DEF CreatePortFails, CreateFloatingIPFails, neutron, environment, TypeOK
<1>19. CASE UNCHANGED vars
  BY <1>1, <1>19 DEF vars, neutron, environment, TypeOK
<1> QED BY <1>4, <1>5, <1>6, <1>7, <1>8, <1>9, <1>10, <1>11, <1>12, <1>13, <1>14, <1>15,
           <1>16, <1>17, <1>18, <1>19 DEF Next, Continue

LEMMA NextKeepsPorts == PortsInv /\ [Next]_vars => PortsInv'
<1> SUFFICES ASSUME PortsInv, [Next]_vars PROVE KnownInv' /\ CallInv'
  BY NextKeepsTypes DEF PortsInv
<1>1. /\ TypeOK /\ call \in CallState /\ known \subseteq Port /\ NoPort \notin Port
      /\ Idle.step = "Idle" /\ "Idle" # "TagPort"
  BY OpenStackAssumption DEF PortsInv, TypeOK, Idle
<1>2. \A p \in Port : ports[p] \in {"new", "untagged"} => p \notin known
  BY DEF PortsInv, KnownInv
(* What a step has to preserve when it leaves the mapper alone.            *)
<1>3. ASSUME UNCHANGED <<known, used, crashes>>,
             \A p \in known : ports'[p] = ports[p]
                              /\ (HasExternalAddress(p) => HasExternalAddress(p)')
      PROVE  KnownInv'
  BY <1>1, <1>3 DEF PortsInv, KnownInv
<1>4. CASE CreatePort
  <2>1. PICK p \in Port : /\ ports[p] = "new"
                          /\ ports' = [ports EXCEPT ![p] = "untagged"]
                          /\ \/ call' = [Idle EXCEPT !.step = "TagPort", !.port = p]
                             \/ UNCHANGED call /\ call = Idle
    BY <1>4 DEF CreatePort
  <2>2. /\ ports'[p] = "untagged"
        /\ (call'.step = "TagPort" /\ call'.port = p) \/ call' = Idle
    BY <1>1, <2>1 DEF Idle, TypeOK
  <2>3. \A q \in known : ports'[q] = ports[q]
    BY <1>1, <1>2, <2>1 DEF TypeOK
  <2>4. UNCHANGED <<fips, known, used, crashes>>
    BY <1>4 DEF CreatePort, environment
  <2> QED BY <1>3, <2>1, <2>2, <2>3, <2>4, IdleCall DEF HasExternalAddress, CallInv
<1>5. CASE TagPort
  <2>1. /\ call.port \in Port /\ ports[call.port] = "untagged" /\ call.port \notin known
        /\ UNCHANGED <<fips, known, used, crashes>>
    BY <1>2, <1>5 DEF TagPort, PortsInv, CallInv, environment
  <2>2. KnownInv'
    BY <1>1, <1>3, <1>5, <2>1 DEF TagPort, TypeOK, HasExternalAddress
  <2>3. CASE call' = [call EXCEPT !.step = "CleanupPort"]
    <3>1. call'.step = "CleanupPort" /\ call'.port = call.port
      BY <1>1, <2>3 DEF CallState
    <3> QED BY <2>1, <2>2, <3>1 DEF CallInv
  <2>4. CASE /\ ports' = [ports EXCEPT ![call.port] = "tagged"]
             /\ call' = [call EXCEPT !.step =
                             IF UseFloatingIPs THEN "CreateFloatingIP" ELSE "Ensure"]
    <3>1. /\ call'.step = IF UseFloatingIPs THEN "CreateFloatingIP" ELSE "Ensure"
          /\ call'.port = call.port /\ ports'[call.port] = "tagged"
      BY <1>1, <2>1, <2>4 DEF CallState, TypeOK
    <3> QED BY <2>1, <2>2, <3>1 DEF CallInv, HasExternalAddress
  <2> QED BY <1>5, <2>3, <2>4 DEF TagPort
<1>6. CASE CreateFloatingIP
  <2>1. /\ call.port \in Port /\ ports[call.port] = "tagged" /\ call.port \notin known
        /\ UNCHANGED <<ports, known, used, crashes>>
    BY <1>6 DEF CreateFloatingIP, PortsInv, CallInv, environment
  <2>2. PICK f \in FloatingIP :
            /\ fips[f].stage = "new"
            /\ fips' = [fips EXCEPT ![f] = [stage |-> "untagged", port |-> call.port]]
            /\ \/ call' = [call EXCEPT !.step = "TagFloatingIP", !.fips = {f}]
               \/ call' = [call EXCEPT !.step = "CleanupPort"]
    BY <1>6 DEF CreateFloatingIP
  <2>3. fips'[f].port = call.port /\ \A g \in FloatingIP \ {f} : fips'[g] = fips[g]
    BY <1>1, <2>2 DEF TypeOK
  <2>4. \A p \in known : HasExternalAddress(p) => HasExternalAddress(p)'
    BY <2>1, <2>2, <2>3 DEF HasExternalAddress
  <2>5. /\ call'.port = call.port
        /\ (call'.step = "TagFloatingIP" /\ call'.fips = {f}) \/ call'.step = "CleanupPort"
    BY <1>1, <2>2 DEF CallState
  <2> QED BY <1>3, <2>1, <2>3, <2>4, <2>5 DEF CallInv
<1>7. CASE TagFloatingIP
  <2>1. /\ call.port \in Port /\ ports[call.port] = "tagged" /\ call.port \notin known
        /\ \A f \in call.fips : f \in FloatingIP /\ fips[f].port = call.port
        /\ UNCHANGED <<ports, known, used, crashes>>
    BY <1>1, <1>7 DEF TagFloatingIP, PortsInv, CallInv, environment, CallState
  <2>2. ASSUME NEW f \in call.fips, fips' = [fips EXCEPT ![f].stage = "tagged"],
               call' = [call EXCEPT !.step = "Ensure"]
        PROVE  KnownInv' /\ CallInv'
    <3>1. call'.step = "Ensure" /\ call'.port = call.port
      BY <1>1, <2>2 DEF CallState
    <3>2. /\ fips'[f] = [stage |-> "tagged", port |-> call.port]
          /\ \A g \in FloatingIP \ {f} : fips'[g] = fips[g]
      BY <1>1, <2>1, <2>2 DEF TypeOK
    <3>3. \A p \in known : HasExternalAddress(p) => HasExternalAddress(p)'
      BY <2>1, <3>2 DEF HasExternalAddress
    <3>4. f \in FloatingIP /\ HasExternalAddress(call.port)'
      BY <2>1, <3>1, <3>2 DEF HasExternalAddress
    <3> QED BY <1>3, <2>1, <3>1, <3>3, <3>4 DEF CallInv
  <2>3. ASSUME NEW f \in call.fips, fips' \in {fips, [fips EXCEPT ![f].stage = "tagged"]},
               call' = [call EXCEPT !.step = "CleanupFloatingIP"]
        PROVE  KnownInv' /\ CallInv'
    <3>1. /\ call'.step = "CleanupFloatingIP" /\ call'.port = call.port
          /\ call'.fips = call.fips
      BY <1>1, <2>3 DEF CallState
    <3>2. \A g \in FloatingIP : fips'[g].port = fips[g].port
      BY <1>1, <2>1, <2>3 DEF TypeOK
    <3>3. \A g \in FloatingIP : fips'[g] = fips[g] \/ fips[g].port = call.port
      BY <1>1, <2>1, <2>3 DEF TypeOK
    <3>4. \A p \in known : HasExternalAddress(p) => HasExternalAddress(p)'
      BY <2>1, <3>3 DEF HasExternalAddress
    <3> QED BY <1>3, <2>1, <3>1, <3>2, <3>4 DEF CallInv
  <2> QED BY <1>7, <2>2, <2>3 DEF TagFloatingIP
<1>8. CASE CleanupFloatingIP
  <2>1. /\ call.port \in Port /\ call.port \notin known
        /\ \A f \in call.fips : f \in FloatingIP /\ fips[f].port = call.port
        /\ UNCHANGED <<ports, known, used, crashes>>
        /\ call' = [call EXCEPT !.step = "CleanupPort"]
    BY <1>1, <1>8 DEF CleanupFloatingIP, PortsInv, CallInv, environment, CallState
  <2>2. call'.step = "CleanupPort" /\ call'.port = call.port
    BY <1>1, <2>1 DEF CallState
  <2>3. \A g \in FloatingIP : fips[g].port # call.port => fips'[g] = fips[g]
    BY <1>1, <1>8, <2>1 DEF CleanupFloatingIP, TypeOK
  <2>4. \A p \in known : HasExternalAddress(p) => HasExternalAddress(p)'
    BY <2>1, <2>3 DEF HasExternalAddress
  <2> QED BY <1>3, <2>1, <2>2, <2>4 DEF CallInv
<1>9. CASE CleanupPort
  <2>1. /\ call.port \in Port /\ call.port \notin known /\ call' = Idle
        /\ Deletes(call.port) \/ DeleteFails(call.port)
        /\ UNCHANGED <<known, used, crashes>>
    BY <1>9 DEF CleanupPort, PortsInv, CallInv, environment
  <2> QED BY <1>1, <1>3, <2>1, DeletesOne, IdleCall
<1>10. CASE ReturnPort
  <2>1. /\ call.port \in Port /\ HasExternalAddress(call.port) /\ call' = Idle
        /\ UNCHANGED <<ports, fips, crashes>>
        /\ known' = known \cup {call.port}
    BY <1>10 DEF ReturnPort, PortsInv, CallInv
  <2>2. KnownInv'
    BY <2>1 DEF PortsInv, KnownInv, HasExternalAddress
  <2> QED BY <2>1, <2>2, IdleCall
<1>11. CASE StartCleanup
  <2>1. UNCHANGED <<ports, fips, used, crashes>> /\ known' = used /\ used \subseteq known
    BY <1>1, <1>11 DEF StartCleanup, TypeOK, neutron
  <2>2. KnownInv'
    BY <2>1 DEF PortsInv, KnownInv, HasExternalAddress
  <2>3. CASE call' = [Idle EXCEPT !.step = "DeletePorts", !.todo = TaggedPorts \ used]
    <3>1. call'.step = "DeletePorts" /\ call'.todo = TaggedPorts \ used
      BY <2>3 DEF Idle
    <3> QED BY <2>1, <2>2, <3>1 DEF CallInv
  <2> QED BY <1>11, <2>2, <2>3, IdleCall DEF StartCleanup
<1>12. CASE DeleteUnusedPort
  <2>1. /\ known = used /\ call.todo \cap used = {} /\ call.todo \subseteq Port
        /\ UNCHANGED <<known, used, crashes>>
    BY <1>1, <1>12 DEF DeleteUnusedPort, PortsInv, CallInv, CallState, environment
  <2>2. PICK p \in call.todo :
            /\ Deletes(p) \/ DeleteFails(p)
            /\ call' = IF call.todo = {p} THEN [Idle EXCEPT !.step = "ListFloatingIPs"]
                       ELSE [call EXCEPT !.todo = call.todo \ {p}]
    BY <1>12 DEF DeleteUnusedPort
  <2>3. KnownInv'
    BY <1>1, <1>3, <2>1, <2>2, DeletesOne
  <2>4. \/ call'.step = "ListFloatingIPs"
        \/ call'.step = "DeletePorts" /\ call'.todo = call.todo \ {p}
    BY <1>1, <1>12, <2>2 DEF DeleteUnusedPort, Idle, CallState
  <2> QED BY <2>1, <2>3, <2>4 DEF CallInv
<1>13. CASE ListFloatingIPs
  <2>1. UNCHANGED <<ports, fips, known, used, crashes>>
    BY <1>13 DEF ListFloatingIPs, neutron, environment
  <2>2. PICK found \in SUBSET Orphans :
            call' = IF found = {} THEN Idle
                    ELSE [Idle EXCEPT !.step = "DeleteFloatingIPs", !.fips = found]
    BY <1>13 DEF ListFloatingIPs
  <2>3. call' = Idle \/ (call'.step = "DeleteFloatingIPs" /\ call'.fips = found)
    BY <2>2 DEF Idle
  <2> QED BY <1>3, <2>1, <2>2, <2>3, IdleCall DEF CallInv, Orphans, HasExternalAddress
<1>14. CASE DeleteUnusedFloatingIP
  <2>1. /\ \A f \in call.fips : f \in FloatingIP /\ fips[f].port = NoPort
        /\ UNCHANGED <<ports, known, used, crashes>>
    BY <1>1, <1>14 DEF DeleteUnusedFloatingIP, PortsInv, CallInv, CallState, environment
  <2>2. PICK f \in call.fips :
            /\ fips' = [fips EXCEPT ![f].stage = "deleted"] \/ UNCHANGED fips
            /\ call' = IF call.fips = {f} THEN Idle ELSE [call EXCEPT !.fips = call.fips \ {f}]
    BY <1>14 DEF DeleteUnusedFloatingIP
  <2>3. \A g \in FloatingIP :
            fips'[g].port = fips[g].port /\ (fips[g].port # NoPort => fips'[g] = fips[g])
    BY <1>1, <2>1, <2>2 DEF TypeOK
  <2>4. \A p \in known : HasExternalAddress(p) => HasExternalAddress(p)'
    BY <1>1, <2>1, <2>3 DEF HasExternalAddress
  <2>5. \/ call' = Idle
        \/ call'.step = "DeleteFloatingIPs" /\ call'.fips = call.fips \ {f}
    BY <1>1, <1>14, <2>2 DEF DeleteUnusedFloatingIP, CallState
  <2> QED BY <1>3, <2>1, <2>3, <2>4, <2>5, IdleCall DEF CallInv
<1>15. CASE RunEnsureAgentsState
  <2>1. UNCHANGED <<ports, fips, known, used, crashes, call>>
    BY <1>15 DEF RunEnsureAgentsState, environment
  <2> QED BY <1>3, <1>15, <2>1, IdleCall DEF RunEnsureAgentsState, HasExternalAddress
<1>16. ASSUME NEW p \in Port, Use(p) \/ Disuse(p)
       PROVE  KnownInv' /\ CallInv'
  <2>1. UNCHANGED <<ports, fips, known, crashes, call>> /\ call = Idle
    BY <1>16 DEF Use, Disuse, neutron
  <2> QED BY <2>1, IdleCall DEF PortsInv, KnownInv, HasExternalAddress
<1>17. CASE Restart
  <2>1. UNCHANGED <<ports, fips>> /\ known' = TaggedPorts /\ call' = Idle /\ crashes' # 0
    BY <1>1, <1>17 DEF Restart, neutron, TypeOK
  <2> QED BY <2>1, IdleCall DEF KnownInv, TaggedPorts
<1>18. CASE CreatePortFails \/ CreateFloatingIPFails
  <2>1. /\ UNCHANGED <<ports, fips, known, used, crashes>>
        /\ \/ call' = Idle
           \/ call.step = "CreateFloatingIP" /\ call' = [call EXCEPT !.step = "CleanupPort"]
    BY <1>18 DEF CreatePortFails, CreateFloatingIPFails, neutron, environment
  <2>2. \/ call' = Idle
        \/ /\ call.step = "CreateFloatingIP"
           /\ call'.step = "CleanupPort" /\ call'.port = call.port
    BY <1>1, <2>1 DEF CallState
  <2> QED BY <1>3, <2>1, <2>2, IdleCall DEF PortsInv, CallInv, HasExternalAddress
<1>19. CASE UNCHANGED vars
  BY <1>3, <1>19 DEF vars, neutron, environment, PortsInv, CallInv, HasExternalAddress
<1> QED BY <1>4, <1>5, <1>6, <1>7, <1>8, <1>9, <1>10, <1>11, <1>12, <1>13, <1>14, <1>15,
           <1>16, <1>17, <1>18, <1>19 DEF Next, Continue

LEMMA InitPorts == Init => PortsInv
BY OpenStackAssumption, IdleTyped, IdleCall
   DEF Init, PortsInv, TypeOK, KnownInv, CallInv, Stages, Idle

LEMMA PortsInvHolds == Spec => []PortsInv
BY InitPorts, NextKeepsPorts, PTL DEF Spec

(* The variables have their types in every reachable state.                *)
THEOREM TypeCorrect == Spec => []TypeOK
BY PortsInvHolds, PTL DEF PortsInv

(* A port that a service is mapped to carries the tag and, unless a        *)
(* restart made the mapper adopt half a port, has a floating IP.           *)
THEOREM UsedPortsComplete == Spec => []UsedPortsAreComplete
<1>1. PortsInv => UsedPortsAreComplete
  BY DEF PortsInv, TypeOK, KnownInv, UsedPortsAreComplete
<1> QED BY <1>1, PortsInvHolds, PTL

-----------------------------------------------------------------------------
(* What an operation may still tag, or delete after a failed tagging, is   *)
(* not leaked yet: beside the causes that LeaksAreAccountedFor counts      *)
(* stands what the operation in progress answers for.                      *)
AnswersFor ==
    IF call.step \in {"TagPort", "TagFloatingIP"} THEN 2
    ELSE IF \/ call.step = "CleanupPort" /\ call.port \in UntaggedPorts
            \/ call.step = "CleanupFloatingIP" /\ call.fips \cap UntaggedFloatingIPs # {}
    THEN 1 ELSE 0

LeakInv ==
    /\ IsFiniteSet(UntaggedPorts) /\ IsFiniteSet(UntaggedFloatingIPs)
    /\ call.step \in {"TagFloatingIP", "CleanupFloatingIP"} =>
           \E f \in FloatingIP : call.fips = {f}
    /\ call.step = "TagFloatingIP" => call.fips \subseteq UntaggedFloatingIPs
    /\ 2 * (Cardinality(UntaggedPorts) + Cardinality(UntaggedFloatingIPs))
           <= 2 * lost + (faults - lost) + 2 * crashes + AnswersFor

(* Counting.                                                               *)
LEMMA Fewer ==
    ASSUME NEW S, IsFiniteSet(S), NEW T \in SUBSET S
    PROVE  /\ IsFiniteSet(T) /\ Cardinality(S) \in Nat /\ Cardinality(T) \in Nat
           /\ Cardinality(T) <= Cardinality(S)
BY FS_Subset, FS_CardinalityType

LEMMA OneMore ==
    ASSUME NEW S, IsFiniteSet(S), NEW x, x \notin S
    PROVE  /\ IsFiniteSet(S \cup {x}) /\ Cardinality(S) \in Nat
           /\ Cardinality(S \cup {x}) = Cardinality(S) + 1
BY FS_AddElement, FS_CardinalityType

LEMMA OneLess ==
    ASSUME NEW S, IsFiniteSet(S), NEW x \in S
    PROVE  /\ IsFiniteSet(S \ {x}) /\ Cardinality(S) \in Nat
           /\ Cardinality(S \ {x}) = Cardinality(S) - 1
BY FS_RemoveElement, FS_CardinalityType

LEMMA NextKeepsLeaks == PortsInv /\ LeakInv /\ [Next]_vars => LeakInv'
<1> SUFFICES ASSUME PortsInv, LeakInv, [Next]_vars PROVE LeakInv'
  OBVIOUS
<1> DEFINE U == UntaggedPorts
           F == UntaggedFloatingIPs
<1>1. /\ TypeOK /\ call \in CallState /\ Idle.step = "Idle"
      /\ faults \in Nat /\ lost \in Nat /\ crashes \in Nat
  BY OpenStackAssumption DEF PortsInv, TypeOK, Idle
<1>2. /\ IsFiniteSet(U) /\ IsFiniteSet(F)
      /\ Cardinality(U) \in Nat /\ Cardinality(F) \in Nat
      /\ AnswersFor \in 0..2 /\ AnswersFor' \in 0..2
  BY FS_CardinalityType DEF LeakInv, AnswersFor
<1>3. (Fault => faults' = faults + 1) /\ (NoFault => faults' = faults)
      /\ (LostReply => lost' = lost + 1)
  BY DEF Fault, NoFault, LostReply
<1>4. \A P \in SUBSET Port : EnsureAgentsState(P) => faults' \in {faults, faults + 1}
  BY <1>1, EnsureTyped
(* A step that leaves nothing more without a tag, and answers for nothing  *)
(* before and after.                                                       *)
<1>5. ASSUME U' \subseteq U, F' \subseteq F, UNCHANGED <<lost, crashes>>,
             faults' \in {faults, faults + 1},
             AnswersFor = 0, AnswersFor' = 0,
             call'.step \notin {"TagFloatingIP", "CleanupFloatingIP"}
      PROVE  LeakInv'
  <2>1. /\ IsFiniteSet(U') /\ Cardinality(U') \in Nat /\ Cardinality(U') <= Cardinality(U)
        /\ IsFiniteSet(F') /\ Cardinality(F') \in Nat /\ Cardinality(F') <= Cardinality(F)
    BY <1>2, <1>5, Fewer
  <2> QED BY <1>1, <1>2, <1>5, <2>1 DEF LeakInv
<1>6. CASE CreatePort
  <2>1. PICK p \in Port : /\ ports[p] = "new"
                          /\ ports' = [ports EXCEPT ![p] = "untagged"]
                          /\ \/ /\ call' = [Idle EXCEPT !.step = "TagPort", !.port = p]
                                /\ NoFault /\ UNCHANGED lost
                             \/ UNCHANGED call /\ Fault /\ LostReply
    BY <1>6 DEF CreatePort
  <2>2. U' = U \cup {p} /\ p \notin U
    BY <1>1, <2>1 DEF UntaggedPorts, TypeOK
  <2>3. /\ F' = F /\ UNCHANGED crashes /\ AnswersFor = 0
        /\ call.step = "Idle"
    BY <1>1, <1>6 DEF CreatePort, UntaggedFloatingIPs, AnswersFor
  <2>4. /\ IsFiniteSet(U') /\ Cardinality(U') = Cardinality(U) + 1
    BY <1>2, <2>2, OneMore
  <2>5. CASE call' = [Idle EXCEPT !.step = "TagPort", !.port = p] /\ NoFault /\ UNCHANGED lost
    <3>1. call'.step = "TagPort" /\ AnswersFor' = 2
      BY <1>1, <2>5 DEF AnswersFor, Idle
    <3> QED BY <1>1, <1>2, <1>3, <2>3, <2>4, <2>5, <3>1 DEF LeakInv
  <2>6. CASE UNCHANGED call /\ Fault /\ LostReply
    BY <1>1, <1>2, <1>3, <2>3, <2>4, <2>6 DEF LeakInv
  <2> QED BY <2>1, <2>5, <2>6
<1>7. CASE TagPort
  <2>1. /\ call.port \in Port /\ ports[call.port] = "untagged" /\ call.step = "TagPort"
        /\ F' = F /\ UNCHANGED <<lost, crashes>> /\ AnswersFor = 2
    BY <1>7 DEF TagPort, PortsInv, CallInv, UntaggedFloatingIPs, AnswersFor
  <2>2. ASSUME ports' = [ports EXCEPT ![call.port] = "tagged"], faults' \in {faults, faults + 1},
               call'.step \in {"CreateFloatingIP", "Ensure", "CleanupPort"}
        PROVE  LeakInv'
    <3>1. U' = U \ {call.port} /\ call.port \in U
      BY <1>1, <2>1, <2>2 DEF UntaggedPorts, TypeOK
    <3>2. IsFiniteSet(U') /\ Cardinality(U') = Cardinality(U) - 1
      BY <1>2, <3>1, OneLess
    <3>3. call'.port = call.port /\ AnswersFor' = 0
      BY <1>1, <1>7, <2>2, <3>1 DEF TagPort, AnswersFor, CallState
    <3> QED BY <1>1, <1>2, <2>1, <2>2, <3>2, <3>3 DEF LeakInv
  <2>3. CASE call' = [call EXCEPT !.step = "CleanupPort"] /\ Fault /\ UNCHANGED ports
    <3>1. /\ call'.step = "CleanupPort" /\ call'.port = call.port
          /\ U' = U /\ call.port \in U
      BY <1>1, <2>1, <2>3 DEF CallState, UntaggedPorts
    <3>2. AnswersFor' = 1
      BY <3>1 DEF AnswersFor
    <3> QED BY <1>1, <1>2, <1>3, <2>1, <2>3, <3>1, <3>2 DEF LeakInv
  <2>4. \/ /\ call' = [call EXCEPT !.step = "CleanupPort"] /\ Fault /\ UNCHANGED ports
        \/ /\ ports' = [ports EXCEPT ![call.port] = "tagged"]
           /\ faults' \in {faults, faults + 1}
           /\ call'.step \in {"CreateFloatingIP", "Ensure", "CleanupPort"}
    BY <1>1, <1>3, <1>7 DEF TagPort, CallState
  <2> QED BY <2>2, <2>3, <2>4
<1>8. CASE CreateFloatingIP
  <2>1. /\ call.step = "CreateFloatingIP" /\ U' = U /\ UNCHANGED <<ports, crashes>>
        /\ call.port \in Port /\ ports[call.port] = "tagged" /\ AnswersFor = 0
    BY <1>8 DEF CreateFloatingIP, PortsInv, CallInv, UntaggedPorts, AnswersFor
  <2>2. PICK f \in FloatingIP :
            /\ fips[f].stage = "new"
            /\ fips' = [fips EXCEPT ![f] = [stage |-> "untagged", port |-> call.port]]
            /\ \/ /\ call' = [call EXCEPT !.step = "TagFloatingIP", !.fips = {f}]
                  /\ NoFault /\ UNCHANGED lost
               \/ call' = [call EXCEPT !.step = "CleanupPort"] /\ Fault /\ LostReply
    BY <1>8 DEF CreateFloatingIP
  <2>3. F' = F \cup {f} /\ f \notin F
    BY <1>1, <2>2 DEF UntaggedFloatingIPs, TypeOK
  <2>4. IsFiniteSet(F') /\ Cardinality(F') = Cardinality(F) + 1
    BY <1>2, <2>3, OneMore
  <2>5. CASE /\ call' = [call EXCEPT !.step = "TagFloatingIP", !.fips = {f}]
             /\ NoFault /\ UNCHANGED lost
    <3>1. call'.step = "TagFloatingIP" /\ call'.fips = {f} /\ AnswersFor' = 2
      BY <1>1, <2>5 DEF AnswersFor, CallState
    <3> QED BY <1>1, <1>2, <1>3, <2>1, <2>3, <2>4, <2>5, <3>1 DEF LeakInv
  <2>6. CASE call' = [call EXCEPT !.step = "CleanupPort"] /\ Fault /\ LostReply
    <3>1. call'.step = "CleanupPort"
      BY <1>1, <2>6 DEF CallState
    <3> QED BY <1>1, <1>2, <1>3, <2>1, <2>4, <2>6, <3>1 DEF LeakInv
  <2> QED BY <2>2, <2>5, <2>6
<1>9. CASE TagFloatingIP
  <2>1. /\ call.step = "TagFloatingIP" /\ U' = U /\ UNCHANGED <<lost, crashes>>
        /\ AnswersFor = 2
    BY <1>9 DEF TagFloatingIP, UntaggedPorts, AnswersFor
  <2>2. PICK f \in FloatingIP : call.fips = {f} /\ f \in F
    BY <2>1 DEF LeakInv
  <2>3. ASSUME fips' = [fips EXCEPT ![f].stage = "tagged"], faults' \in {faults, faults + 1},
               call'.step \in {"Ensure", "CleanupFloatingIP"}
        PROVE  LeakInv'
    <3>1. F' = F \ {f}
      BY <1>1, <2>3 DEF UntaggedFloatingIPs, TypeOK
    <3>2. IsFiniteSet(F') /\ Cardinality(F') = Cardinality(F) - 1
      BY <1>2, <2>2, <3>1, OneLess
    <3>3. call'.fips = {f} /\ AnswersFor' = 0
      BY <1>1, <1>9, <2>2, <2>3, <3>1 DEF TagFloatingIP, AnswersFor, CallState
    <3> QED BY <1>1, <1>2, <2>1, <2>3, <3>2, <3>3 DEF LeakInv
  <2>4. CASE call' = [call EXCEPT !.step = "CleanupFloatingIP"] /\ Fault /\ UNCHANGED fips
    <3>1. /\ call'.step = "CleanupFloatingIP" /\ call'.fips = {f} /\ F' = F
      BY <1>1, <2>2, <2>4 DEF CallState, UntaggedFloatingIPs
    <3>2. AnswersFor' = 1
      BY <2>2, <3>1 DEF AnswersFor
    <3> QED BY <1>1, <1>2, <1>3, <2>1, <2>4, <3>1, <3>2 DEF LeakInv
  <2>5. \/ call' = [call EXCEPT !.step = "CleanupFloatingIP"] /\ Fault /\ UNCHANGED fips
        \/ /\ fips' = [fips EXCEPT ![f].stage = "tagged"]
           /\ faults' \in {faults, faults + 1}
           /\ call'.step \in {"Ensure", "CleanupFloatingIP"}
    BY <1>1, <1>3, <1>9, <2>2 DEF TagFloatingIP, CallState
  <2> QED BY <2>3, <2>4, <2>5
<1>10. CASE CleanupFloatingIP
  <2>1. /\ call.step = "CleanupFloatingIP" /\ U' = U /\ UNCHANGED <<lost, crashes>>
        /\ faults' \in {faults, faults + 1}
    BY <1>3, <1>10 DEF CleanupFloatingIP, UntaggedPorts
  <2>2. PICK f \in FloatingIP : call.fips = {f}
    BY <2>1 DEF LeakInv
  <2>3. call'.step = "CleanupPort" /\ call'.port = call.port
    BY <1>1, <1>10 DEF CleanupFloatingIP, CallState
  <2>4. CASE fips' = [fips EXCEPT ![f] = [stage |-> "deleted", port |-> NoPort]]
    <3>1. F' = F \ {f}
      BY <1>1, <2>4 DEF UntaggedFloatingIPs, TypeOK
    <3>2. CASE f \in F
      <4>1. IsFiniteSet(F') /\ Cardinality(F') = Cardinality(F) - 1
        BY <1>2, <3>1, <3>2, OneLess
      <4>2. AnswersFor = 1
        BY <2>1, <2>2, <3>2 DEF AnswersFor
      <4> QED BY <1>1, <1>2, <2>1, <2>3, <4>1, <4>2 DEF LeakInv
    <3>3. CASE f \notin F
      <4>1. F' = F /\ AnswersFor = 0
        BY <2>1, <2>2, <3>1, <3>3 DEF AnswersFor
      <4> QED BY <1>1, <1>2, <2>1, <2>3, <4>1 DEF LeakInv
    <3> QED BY <3>2, <3>3
  <2>5. CASE Fault /\ UNCHANGED fips
    <3>1. F' = F /\ AnswersFor \in 0..1
      BY <2>1, <2>5 DEF UntaggedFloatingIPs, AnswersFor
    <3> QED BY <1>1, <1>2, <1>3, <2>1, <2>3, <2>5, <3>1 DEF LeakInv
  <2> QED BY <1>10, <2>2, <2>4, <2>5 DEF CleanupFloatingIP
<1>11. CASE CleanupPort
  <2>1. /\ UNCHANGED <<lost, crashes>> /\ call.step = "CleanupPort" /\ call' = Idle
        /\ call.port \in Port
        /\ Deletes(call.port) \/ DeleteFails(call.port)
    BY <1>11 DEF CleanupPort, PortsInv, CallInv
  <2>2. /\ faults' \in {faults, faults + 1}
        /\ \A q \in Port \ {call.port} : ports'[q] = ports[q]
        /\ \A f \in FloatingIP : fips'[f].stage = fips[f].stage
        /\ \/ ports'[call.port] = "deleted"
           \/ UNCHANGED <<ports, fips>> /\ faults' = faults + 1
    BY <1>1, <2>1, DeletesOne
  <2>3. F' = F /\ AnswersFor' = 0 /\ call'.step = "Idle"
    BY <1>1, <2>1, <2>2 DEF UntaggedFloatingIPs, AnswersFor
  <2>4. CASE ports'[call.port] = "deleted" /\ call.port \in U
    <3>1. U' = U \ {call.port}
      BY <2>1, <2>2, <2>4 DEF UntaggedPorts
    <3>2. IsFiniteSet(U') /\ Cardinality(U') = Cardinality(U) - 1
      BY <1>2, <2>4, <3>1, OneLess
    <3>3. AnswersFor = 1
      BY <2>1, <2>4 DEF AnswersFor
    <3> QED BY <1>1, <1>2, <2>1, <2>2, <2>3, <3>2, <3>3 DEF LeakInv
  <2>5. CASE ports'[call.port] = "deleted" /\ call.port \notin U
    <3>1. U' \subseteq U /\ AnswersFor = 0
      BY <2>1, <2>2, <2>5 DEF UntaggedPorts, AnswersFor
    <3> QED BY <1>1, <1>5, <2>1, <2>2, <2>3, <3>1
  <2>6. CASE UNCHANGED <<ports, fips>> /\ faults' = faults + 1
    <3>1. U' = U /\ AnswersFor \in 0..1
      BY <2>1, <2>6 DEF UntaggedPorts, AnswersFor
    <3> QED BY <1>1, <1>2, <2>1, <2>3, <2>6, <3>1 DEF LeakInv
  <2> QED BY <2>2, <2>4, <2>5, <2>6
<1>12. CASE DeleteUnusedPort
  <2>1. PICK p \in call.todo :
            /\ Deletes(p) \/ DeleteFails(p)
            /\ call' = IF call.todo = {p} THEN [Idle EXCEPT !.step = "ListFloatingIPs"]
                       ELSE [call EXCEPT !.todo = call.todo \ {p}]
    BY <1>12 DEF DeleteUnusedPort
  <2>2. /\ p \in Port /\ UNCHANGED <<lost, crashes>> /\ call.step = "DeletePorts"
        /\ call'.step \in {"DeletePorts", "ListFloatingIPs"}
    BY <1>1, <1>12, <2>1 DEF DeleteUnusedPort, CallState, Idle
  <2>3. /\ faults' \in {faults, faults + 1}
        /\ \A q \in Port \ {p} : ports'[q] = ports[q]
        /\ \A f \in FloatingIP : fips'[f].stage = fips[f].stage
        /\ ports'[p] \in {"deleted", ports[p]}
    BY <1>1, <2>1, <2>2, DeletesOne
  <2>4. /\ U' \subseteq U /\ F' \subseteq F /\ AnswersFor = 0 /\ AnswersFor' = 0
    BY <2>2, <2>3 DEF UntaggedPorts, UntaggedFloatingIPs, AnswersFor
  <2> QED BY <1>5, <2>2, <2>3, <2>4
<1>13. CASE DeleteUnusedFloatingIP
  <2>1. /\ UNCHANGED <<ports, lost, crashes>> /\ faults' \in {faults, faults + 1}
        /\ call.step = "DeleteFloatingIPs" /\ call'.step \in {"Idle", "DeleteFloatingIPs"}
    BY <1>1, <1>3, <1>13 DEF DeleteUnusedFloatingIP, CallState
  <2>2. \A g \in FloatingIP : fips'[g].stage \in {"deleted", fips[g].stage}
    BY <1>1, <1>13 DEF DeleteUnusedFloatingIP, TypeOK
  <2>3. /\ U' \subseteq U /\ F' \subseteq F /\ AnswersFor = 0 /\ AnswersFor' = 0
    BY <2>1, <2>2 DEF UntaggedPorts, UntaggedFloatingIPs, AnswersFor
  <2> QED BY <1>5, <2>1, <2>3
(* The steps that change neither ports nor floating IPs.                   *)
<1>14. ASSUME UNCHANGED <<ports, fips, lost, crashes>>, faults' \in {faults, faults + 1},
              call.step \in {"Ensure", "Idle", "ListFloatingIPs"},
              call'.step \in {"Idle", "DeletePorts", "DeleteFloatingIPs"}
       PROVE  LeakInv'
  <2>1. /\ U' \subseteq U /\ F' \subseteq F /\ AnswersFor = 0 /\ AnswersFor' = 0
    BY <1>14 DEF UntaggedPorts, UntaggedFloatingIPs, AnswersFor
  <2> QED BY <1>5, <1>14, <2>1
<1>15. CASE ReturnPort \/ RunEnsureAgentsState
  BY <1>1, <1>4, <1>14, <1>15 DEF ReturnPort, RunEnsureAgentsState, TaggedPorts
<1>16. CASE StartCleanup
  BY <1>1, <1>3, <1>14, <1>16 DEF StartCleanup, neutron, Idle
<1>17. CASE ListFloatingIPs
  BY <1>1, <1>3, <1>14, <1>17 DEF ListFloatingIPs, neutron, Idle
<1>18. CASE CreatePortFails
  BY <1>1, <1>3, <1>14, <1>18 DEF CreatePortFails, neutron
<1>19. CASE \E p \in Port : Use(p) \/ Disuse(p)
  BY <1>1, <1>14, <1>19 DEF Use, Disuse, neutron
<1>20. CASE CreateFloatingIPFails
  <2>1. /\ UNCHANGED <<ports, fips, lost, crashes>> /\ faults' = faults + 1
        /\ call.step = "CreateFloatingIP" /\ call'.step = "CleanupPort"
        /\ call'.port = call.port /\ ports[call.port] = "tagged"
    BY <1>1, <1>3, <1>20
       DEF CreateFloatingIPFails, PortsInv, CallInv, CallState, neutron
  <2>2. /\ U' \subseteq U /\ F' \subseteq F /\ AnswersFor = 0 /\ AnswersFor' = 0
    BY <2>1 DEF UntaggedPorts, UntaggedFloatingIPs, AnswersFor
  <2> QED BY <1>5, <2>1, <2>2
<1>21. CASE Restart
  <2>1. /\ U' = U /\ F' = F /\ UNCHANGED <<faults, lost>> /\ crashes' = crashes + 1
        /\ call'.step = "Idle" /\ AnswersFor' = 0
    BY <1>1, <1>21 DEF Restart, neutron, UntaggedPorts, UntaggedFloatingIPs, AnswersFor
  <2> QED BY <1>1, <1>2, <2>1 DEF LeakInv
<1>22. CASE UNCHANGED vars
  BY <1>22 DEF vars, neutron, LeakInv, UntaggedPorts, UntaggedFloatingIPs, AnswersFor
<1> QED BY <1>6, <1>7, <1>8, <1>9, <1>10, <1>11, <1>12, <1>13, <1>15, <1>16, <1>17, <1>18,
           <1>19, <1>20, <1>21, <1>22 DEF Next, Continue

(* What the cleanups cannot find was left by the lost reply to a creation, *)
(* by a restart, or by two failed calls: each leak has a cause of its own. *)
THEOREM LeaksAccounted == Spec => []LeaksAreAccountedFor
<1>1. Init => LeakInv
  <2> SUFFICES ASSUME Init PROVE LeakInv
    OBVIOUS
  <2>1. UntaggedPorts = {} /\ UntaggedFloatingIPs = {} /\ call.step = "Idle"
    BY DEF Init, UntaggedPorts, UntaggedFloatingIPs, Idle
  <2>2. IsFiniteSet({}) /\ Cardinality({}) = 0
    BY FS_EmptySet
  <2> QED BY <2>1, <2>2 DEF Init, LeakInv, AnswersFor
<1>2. PortsInv /\ LeakInv => LeaksAreAccountedFor
  <2> SUFFICES ASSUME PortsInv, LeakInv, call = Idle
               PROVE  2 * (Cardinality(UntaggedPorts) + Cardinality(UntaggedFloatingIPs))
                          <= 2 * lost + (faults - lost) + 2 * crashes
    BY DEF LeaksAreAccountedFor
  <2>1. AnswersFor = 0
    BY DEF AnswersFor, Idle
  <2>2. lost \in Int /\ faults \in Int /\ crashes \in Int
    BY OpenStackAssumption DEF PortsInv, TypeOK
  <2> QED BY <2>1, <2>2 DEF LeakInv
<1> QED BY <1>1, <1>2, PortsInvHolds, NextKeepsLeaks, PTL DEF Spec

=============================================================================
