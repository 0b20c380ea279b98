--------------------------- MODULE OpenStackPorts ---------------------------
(***************************************************************************)
(* The OpenStack port manager (internal/openstack/port_manager.go), one    *)
(* API call per step: ProvisionPort creates a port, tags it, gives it a    *)
(* floating IP and tags that; CleanUnusedPorts deletes the tagged ports    *)
(* that are not in use and then the tagged floating IPs without a port;    *)
(* EnsureAgentsState allows every tagged port's address on the ports of    *)
(* the agents.  Any call may fail, with or without effect - its reply may  *)
(* be what is lost - and the controller may be restarted between any two   *)
(* of them.                                                                *)
(*                                                                         *)
(* The operations are called by the controller's worker, one at a time.    *)
(* What the port mapper makes of them is kept in two sets: `known`, the L3 *)
(* ports it may map a service to, and `used`, those it has mapped one to.  *)
(* A restart lists the tagged ports anew; the services in use stay where   *)
(* they are, since the cleanup waits for them (module Controller).         *)
(*                                                                         *)
(* Neutron is external: deleting a port leaves its floating IPs without a  *)
(* port, and IDs are never issued twice.                                   *)
(*                                                                         *)
(* Abstracted: addresses (an allowed address pair is the port), the        *)
(* additional configured pairs, pagination.  The agents' ports are updated *)
(* by one goroutine each, which ProvisionPort waits for: EnsureAgentsState *)
(* is one step in which some of the updates may fail.  MaxFaults,          *)
(* MaxCrashes and MaxUses bound the failing calls, the restarts and the    *)
(* changes of `used`.  `lost` is no state of the code: it counts the       *)
(* failing calls that created something which the code does not know of.   *)
(***************************************************************************)
EXTENDS Naturals, FiniteSets

CONSTANTS
    Port,           \* IDs of ports, those not created yet included
    FloatingIP,     \* IDs of floating IPs, likewise
    NoPort,         \* the empty ID
    Agent,
    UseFloatingIPs, \* openstack.network.use-floating-ips
    MaxFaults, MaxCrashes, MaxUses

ASSUME OpenStackAssumption ==
    /\ NoPort \notin Port
    /\ UseFloatingIPs \in BOOLEAN
    /\ {MaxFaults, MaxCrashes, MaxUses} \subseteq Nat

VARIABLES
    ports,      \* of each port ID: "new", "untagged", "tagged" or "deleted"
    fips,       \* of each floating IP: this state, and its port
    pairs,      \* the allowed address pairs of each agent's port
    known, used,
    call,       \* the operation and the step it has come to
    faults, lost, crashes, uses

environment == <<known, used, uses>>
neutron == <<ports, fips, pairs>>
vars == <<neutron, environment, call, faults, lost, crashes>>

Stages == {"new", "untagged", "tagged", "deleted"}
TaggedPorts == {p \in Port : ports[p] = "tagged"}
Orphans == {f \in FloatingIP : fips[f].stage = "tagged" /\ fips[f].port = NoPort}

(* GetExternalAddress: the floating IP of the port, or else its own.       *)
HasExternalAddress(p) ==
    /\ ports[p] = "tagged"
    /\ UseFloatingIPs =>
           \E f \in FloatingIP : fips[f] = [stage |-> "tagged", port |-> p]

Idle == [step |-> "Idle", port |-> NoPort, fips |-> {}, todo |-> {}]

Fault == faults < MaxFaults /\ faults' = faults + 1
NoFault == UNCHANGED faults
LostReply == lost' = lost + 1

(* EnsureAgentsState with the list of ports P; an error of the listing is  *)
(* an error of every update.  Of the updates that fail some are missed and *)
(* the others were carried out.                                            *)
EnsureAgentsState(P) ==
    \E missed \in SUBSET Agent :
        /\ (missed = {} /\ NoFault) \/ Fault
        /\ pairs' = [a \in Agent |-> IF a \in missed THEN pairs[a] ELSE P]

PortGoes(p) ==
    /\ ports' = [ports EXCEPT ![p] = "deleted"]
    /\ fips' = [f \in FloatingIP |->
           IF fips[f].port = p THEN [fips[f] EXCEPT !.port = NoPort] ELSE fips[f]]

(* deletePort: it ensures the agents' state if the port is deleted, but    *)
(* not if that is what it is told.                                         *)
Deletes(p) == PortGoes(p) /\ EnsureAgentsState(TaggedPorts \ {p})

DeleteFails(p) ==
    /\ Fault
    /\ UNCHANGED <<ports, fips>> \/ PortGoes(p)
    /\ UNCHANGED pairs

-----------------------------------------------------------------------------
(* Definitions whose names end in _Slip are not the code: each is a slip   *)
(* that could have been made there.                                        *)

(* ProvisionPort.  If the first call fails it gives up: without the reply  *)
(* it could not name a port that was created.                              *)
CreatePort ==
    /\ call = Idle
    /\ \E p \in Port :
           /\ ports[p] = "new"
           /\ ports' = [ports EXCEPT ![p] = "untagged"]
           /\ \/ /\ call' = [Idle EXCEPT !.step = "TagPort", !.port = p]
                 /\ NoFault /\ UNCHANGED lost
              \/ UNCHANGED call /\ Fault /\ LostReply
    /\ UNCHANGED <<fips, pairs, environment, crashes>>

CreatePortFails ==
    /\ call = Idle
    /\ Fault
    /\ UNCHANGED <<neutron, environment, call, lost, crashes>>

NoCleanup_Slip ==
    /\ call.step = "TagPort"
    /\ \/ /\ ports' = [ports EXCEPT ![call.port] = "tagged"]
          /\ call' = [call EXCEPT !.step = IF UseFloatingIPs THEN "CreateFloatingIP" ELSE "Ensure"]
          /\ NoFault
       \/ call' = Idle /\ Fault /\ UNCHANGED ports
    /\ UNCHANGED <<fips, pairs, environment, lost, crashes>>

TagPort ==
    /\ call.step = "TagPort"
    /\ \/ /\ ports' = [ports EXCEPT ![call.port] = "tagged"]
          /\ call' = [call EXCEPT !.step = IF UseFloatingIPs THEN "CreateFloatingIP" ELSE "Ensure"]
          /\ NoFault
       \/ /\ ports' \in {ports, [ports EXCEPT ![call.port] = "tagged"]}
          /\ call' = [call EXCEPT !.step = "CleanupPort"]
          /\ Fault
    /\ UNCHANGED <<fips, pairs, environment, lost, crashes>>

IgnoreError_Slip ==
    /\ call.step = "CreateFloatingIP"
    /\ \/ \E f \in FloatingIP :
              /\ fips[f].stage = "new"
              /\ fips' = [fips EXCEPT ![f] = [stage |-> "untagged", port |-> call.port]]
              /\ call' = [call EXCEPT !.step = "TagFloatingIP", !.fips = {f}]
              /\ NoFault
       \/ call' = [call EXCEPT !.step = "Ensure"] /\ Fault /\ UNCHANGED fips
    /\ UNCHANGED <<ports, pairs, environment, lost, crashes>>

(* provisionFloatingIP                                                     *)
CreateFloatingIP ==
    /\ call.step = "CreateFloatingIP"
    /\ \E f \in FloatingIP :
           /\ fips[f].stage = "new"
           /\ fips' = [fips EXCEPT ![f] = [stage |-> "untagged", port |-> call.port]]
           /\ \/ /\ call' = [call EXCEPT !.step = "TagFloatingIP", !.fips = {f}]
                 /\ NoFault /\ UNCHANGED lost
              \/ /\ call' = [call EXCEPT !.step = "CleanupPort"]
                 /\ Fault /\ LostReply
    /\ UNCHANGED <<ports, pairs, environment, crashes>>

CreateFloatingIPFails ==
    /\ call.step = "CreateFloatingIP"
    /\ call' = [call EXCEPT !.step = "CleanupPort"]
    /\ Fault
    /\ UNCHANGED <<neutron, environment, lost, crashes>>

TagFloatingIP ==
    /\ call.step = "TagFloatingIP"
    /\ \E f \in call.fips :
           \/ /\ fips' = [fips EXCEPT ![f].stage = "tagged"]
              /\ call' = [call EXCEPT !.step = "Ensure"]
              /\ NoFault
           \/ /\ fips' \in {fips, [fips EXCEPT ![f].stage = "tagged"]}
              /\ call' = [call EXCEPT !.step = "CleanupFloatingIP"]
              /\ Fault
    /\ UNCHANGED <<ports, pairs, environment, lost, crashes>>

(* The clean-ups of a failed provisioning: if they fail, what they should  *)
(* have deleted may be leaked.                                             *)
CleanupFloatingIP ==
    /\ call.step = "CleanupFloatingIP"
    /\ \E f \in call.fips :
           \/ /\ fips' = [fips EXCEPT ![f] = [stage |-> "deleted", port |-> NoPort]]
              /\ NoFault \/ Fault
           \/ Fault /\ UNCHANGED fips
    /\ call' = [call EXCEPT !.step = "CleanupPort"]
    /\ UNCHANGED <<ports, pairs, environment, lost, crashes>>

CleanupPort ==
    /\ call.step = "CleanupPort"
    /\ Deletes(call.port) \/ DeleteFails(call.port)
    /\ call' = Idle
    /\ UNCHANGED <<environment, lost, crashes>>

NotKnown_Slip ==
    /\ call.step = "Ensure"
    /\ EnsureAgentsState(TaggedPorts)
    /\ used' = used \cup {call.port}
    /\ call' = Idle
    /\ UNCHANGED <<ports, fips, known, uses, lost, crashes>>

(* The end of ProvisionPort, which only warns when the agents' state could *)
(* not be ensured; the mapper maps the service that asked for the port.    *)
ReturnPort ==
    /\ call.step = "Ensure"
    /\ EnsureAgentsState(TaggedPorts)
    /\ known' = known \cup {call.port}
    /\ used' = used \cup {call.port}
    /\ call' = Idle
    /\ UNCHANGED <<ports, fips, uses, lost, crashes>>

-----------------------------------------------------------------------------
KnownOnly_Slip ==
    /\ call = Idle
    /\ known' = used
    /\ call' = IF known \subseteq used THEN Idle
               ELSE [Idle EXCEPT !.step = "DeletePorts", !.todo = known \ used]
    /\ UNCHANGED <<neutron, used, uses, faults, lost, crashes>>

(* The worker's cleanupPorts: GetUsedL3Ports forgets the unused ports, and *)
(* CleanUnusedPorts lists the tagged ones, or gives up if it cannot.       *)
StartCleanup ==
    /\ call = Idle
    /\ known' = used
    /\ \/ /\ call' = IF TaggedPorts \subseteq used THEN Idle
                     ELSE [Idle EXCEPT !.step = "DeletePorts", !.todo = TaggedPorts \ used]
          /\ NoFault
       \/ call' = Idle /\ Fault
    /\ UNCHANGED <<neutron, used, uses, lost, crashes>>

KeepFloatingIPs_Slip ==
    /\ call.step = "DeletePorts"
    /\ \E p \in call.todo :
           /\ Deletes(p) \/ DeleteFails(p)
           /\ call' = IF call.todo = {p} THEN Idle
                      ELSE [call EXCEPT !.todo = @ \ {p}]
    /\ UNCHANGED <<environment, lost, crashes>>

(* A deletion that fails is logged.                                        *)
DeleteUnusedPort ==
    /\ call.step = "DeletePorts"
    /\ \E p \in call.todo :
           /\ Deletes(p) \/ DeleteFails(p)
           /\ call' = IF call.todo = {p} THEN [Idle EXCEPT !.step = "ListFloatingIPs"]
                      ELSE [call EXCEPT !.todo = @ \ {p}]
    /\ UNCHANGED <<environment, lost, crashes>>

(* deleteUnusedFloatingIPs; the listing may fail before its last page.     *)
ListFloatingIPs ==
    /\ call.step = "ListFloatingIPs"
    /\ \E found \in SUBSET Orphans :
           /\ IF found = Orphans THEN NoFault ELSE Fault
           /\ call' = IF found = {} THEN Idle
                      ELSE [Idle EXCEPT !.step = "DeleteFloatingIPs", !.fips = found]
    /\ UNCHANGED <<neutron, environment, lost, crashes>>

DeleteUnusedFloatingIP ==
    /\ call.step = "DeleteFloatingIPs"
    /\ \E f \in call.fips :
           /\ \/ fips' = [fips EXCEPT ![f].stage = "deleted"] /\ (NoFault \/ Fault)
              \/ Fault /\ UNCHANGED fips
           /\ call' = IF call.fips = {f} THEN Idle ELSE [call EXCEPT !.fips = @ \ {f}]
    /\ UNCHANGED <<ports, pairs, environment, lost, crashes>>

NoAgentUpdate_Slip == call = Idle /\ UNCHANGED vars

(* EnsureAgentsStateJob, every 300 seconds.                                *)
RunEnsureAgentsState ==
    /\ call = Idle
    /\ EnsureAgentsState(TaggedPorts)
    /\ UNCHANGED <<ports, fips, environment, call, lost, crashes>>

-----------------------------------------------------------------------------
(* The mapper maps a service to a port it knows, or the last service of a  *)
(* port goes.                                                              *)
Use(p) ==
    /\ call = Idle /\ uses < MaxUses
    /\ uses' = uses + 1
    /\ p \in known \ used
    /\ used' = used \cup {p}
    /\ UNCHANGED <<neutron, known, call, faults, lost, crashes>>

Disuse(p) ==
    /\ call = Idle /\ uses < MaxUses
    /\ uses' = uses + 1
    /\ p \in used
    /\ used' = used \ {p}
    /\ UNCHANGED <<neutron, known, call, faults, lost, crashes>>

(* A new process: NewPortMapper calls GetAvailablePorts.                   *)
Restart ==
    /\ crashes < MaxCrashes
    /\ crashes' = crashes + 1
    /\ known' = TaggedPorts
    /\ call' = Idle
    /\ UNCHANGED <<neutron, used, uses, faults, lost>>

Init ==
    /\ ports = [p \in Port |-> "new"]
    /\ fips = [f \in FloatingIP |-> [stage |-> "new", port |-> NoPort]]
    /\ pairs = [a \in Agent |-> {}]
    /\ known = {} /\ used = {}
    /\ call = Idle
    /\ faults = 0 /\ lost = 0 /\ crashes = 0 /\ uses = 0

Continue ==
    \/ TagPort \/ CreateFloatingIP \/ CreateFloatingIPFails \/ TagFloatingIP
    \/ CleanupFloatingIP \/ CleanupPort \/ ReturnPort
    \/ DeleteUnusedPort \/ ListFloatingIPs \/ DeleteUnusedFloatingIP

Next ==
    \/ CreatePort \/ CreatePortFails
    \/ Continue
    \/ StartCleanup
    \/ RunEnsureAgentsState
    \/ \E p \in Port : Use(p) \/ Disuse(p)
    \/ Restart

Spec == Init /\ [][Next]_vars

(* The worker finishes what it has started.  It gets around to a cleanup   *)
(* and to an EnsureAgentsStateJob between the jobs that use the ports,     *)
(* since both are enqueued periodically and the queue is FIFO.  A job that *)
(* has nothing to change is a stutter and its failure is not, so it is the *)
(* successful job that is fair: fairness must not make calls fail.         *)
FairSpec ==
    /\ Spec
    /\ WF_vars(Continue)
    /\ SF_vars(StartCleanup /\ NoFault)
    /\ SF_vars(RunEnsureAgentsState /\ NoFault)

-----------------------------------------------------------------------------
CallState ==
    [step : {"Idle", "TagPort", "CreateFloatingIP", "TagFloatingIP",
             "CleanupFloatingIP", "CleanupPort", "Ensure", "DeletePorts",
             "ListFloatingIPs", "DeleteFloatingIPs"},
     port : Port \cup {NoPort}, fips : SUBSET FloatingIP, todo : SUBSET Port]

(* The types of the variables.                                             *)
TypeOK ==
    /\ ports \in [Port -> Stages]
    /\ fips \in [FloatingIP -> [stage : Stages, port : Port \cup {NoPort}]]
    /\ pairs \in [Agent -> SUBSET Port]
    /\ used \subseteq known /\ known \subseteq Port
    /\ call \in CallState
    /\ faults \in 0..MaxFaults /\ lost \in 0..faults
    /\ crashes \in 0..MaxCrashes /\ uses \in 0..MaxUses

(* A port that a service is mapped to exists, carries the tag and has a    *)
(* tagged floating IP, so GetExternalAddress finds its address: no failed  *)
(* provisioning hands out half a port, and no cleanup takes a used one     *)
(* apart.  A restart in the middle of a provisioning does leave half a     *)
(* port, which the new process offers to services; hence `crashes = 0`.    *)
UsedPortsAreComplete ==
    \A p \in used :
        ports[p] = "tagged" /\ (crashes = 0 => HasExternalAddress(p))

(* Without the tag no cleanup finds it, and it is leaked.                  *)
UntaggedPorts == {p \in Port : ports[p] = "untagged"}
UntaggedFloatingIPs == {f \in FloatingIP : fips[f].stage = "untagged"}

(* Every leak has its cause: the lost reply to the call that created it, a *)
(* process that died before it was tagged, or two failed calls, that of    *)
(* the tagging and that of the deletion.  So one failed call alone leaks   *)
(* nothing, unless it is a creation that was carried out.                  *)
LeaksAreAccountedFor ==
    call = Idle =>
        2 * (Cardinality(UntaggedPorts) + Cardinality(UntaggedFloatingIPs))
            <= 2 * lost + (faults - lost) + 2 * crashes

(* A tagged port that nothing uses is deleted in the end, whatever has     *)
(* failed before, and whether the process that made it still runs.         *)
UnusedPortsGo == <>[](TaggedPorts \subseteq used)

(* A tagged floating IP whose port is gone is deleted in the end.  After a *)
(* failed call or a restart it may have to wait until another port is      *)
(* deleted, because only that starts a search for them.                    *)
OrphansGo == <>[](faults = 0 /\ crashes = 0 => Orphans = {})

(* Every agent ends with the addresses of exactly the ports there are, as  *)
(* the comment on EnsureAgentsState wants.                                 *)
AgentsFollow == <>[](\A a \in Agent : pairs[a] = TaggedPorts)
=============================================================================
