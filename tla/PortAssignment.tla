--------------------------- MODULE PortAssignment ---------------------------
(***************************************************************************)
(* What the port mapper promises: every service has at most one L3 port    *)
(* (an address of the load balancer), and no L4 port number of an L3 port  *)
(* belongs to two services.  Assigning a service never disturbs another    *)
(* one.  How a port is found, provisioned or forgotten is not said here.   *)
(***************************************************************************)
CONSTANTS Service, L3Port, L4Port, NoPort

VARIABLE assigned   \* the L3 port and the L4 port numbers of each service

Nothing == [l3port |-> NoPort, ports |-> {}]

(* Nobody but s holds one of the numbers `ports` of the L3 port p.         *)
Available(s, p, ports) ==
    \A t \in Service \ {s} :
        assigned[t].l3port = p => assigned[t].ports \cap ports = {}

Init == assigned = [s \in Service |-> Nothing]

Assign(s, p, ports) ==
    /\ Available(s, p, ports)
    /\ assigned' = [assigned EXCEPT ![s] = [l3port |-> p, ports |-> ports]]

(* Services lose their port: one is unmapped, some are evicted because     *)
(* their port is gone, or all are forgotten by a restart.                  *)
Withdraw(S) ==
    assigned' = [s \in Service |-> IF s \in S THEN Nothing ELSE assigned[s]]

Next ==
    \/ \E s \in Service, p \in L3Port, ports \in SUBSET L4Port :
           Assign(s, p, ports)
    \/ \E S \in SUBSET Service : Withdraw(S)

Spec == Init /\ [][Next]_assigned
=============================================================================
