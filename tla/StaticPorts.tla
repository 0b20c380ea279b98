----------------------------- MODULE StaticPorts -----------------------------
(***************************************************************************)
(* The static port manager (internal/static/port_manager.go) behind the    *)
(* port mapper: the backend is the configured list of addresses.  Nothing  *)
(* is provisioned, nothing is deleted and no call fails for another        *)
(* reason.  The list is fixed while the process runs; a process that       *)
(* starts with another list is another initial state, since the mapper     *)
(* starts empty and annotations may name any address.                      *)
(***************************************************************************)
EXTENDS PortMapper

Listed == backend \ Foreign

CheckPortExists(p) == p \in backend

(* MapService with CheckPortExists, which parses the ID and looks it up    *)
(* and so never fails, and ProvisionPort, which always does.               *)
StaticMapService(s, ports, annot) ==
    \/ KeepPort(s, ports, annot)
    \/ UseKnownPort(s, ports, annot)
    \/ /\ ~CanKeep(PreferredPort(s, annot), s, ports)
       /\ FindL3PortFor(ports) = {}
       /\ FailMapping(s)
       /\ UNCHANGED <<backend, issued>>

(* CleanUnusedPorts does nothing, but GetUsedL3Ports has already forgotten *)
(* the addresses without an allocation.                                    *)
StaticCleanupPorts == CleanupPorts /\ UNCHANGED backend

(* No provisioning is ever cut short here.                                 *)
StaticNewPortMapper == NewPortMapper /\ UNCHANGED <<backend, issued>>

StaticNext ==
    \/ \E s \in Service, ports \in PortSets, annot \in L3Port \cup {NoPort} :
           StaticMapService(s, ports, annot)
    \/ \E s \in Service : UnmapService(s)
    \/ StaticCleanupPorts
    \/ StaticNewPortMapper

StaticSpec == Init /\ [][StaticNext]_vars

-----------------------------------------------------------------------------
(* Every mapped service is on a listed address: the list is all there is,  *)
(* whatever the annotations of older lists say.                            *)
MappedIsListed == \A s \in Service : IsMapped(s) => CheckPortExists(services[s].l3port)

(* config.md:109 of ipv4-addresses: "List of IPv4 address that can be used *)
(* for load-balancing": no service is refused as long as there is an       *)
(* address on the list that no service uses.                               *)
ListedAddressesAreUsed ==
    [][reply'.op = "MapService" /\ reply'.err =>
        \A p \in Listed : \E t \in Service : services[t].l3port = p]_vars
=============================================================================
