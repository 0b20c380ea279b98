------------------------- MODULE MC_OpenStackPorts -------------------------
(* A small instance of OpenStackPorts: three ports that take turns, as     *)
(* many floating IPs (a port is given one), one agent.  IDs that were      *)
(* never used are alike, but liveness properties forbid to use that.       *)
EXTENDS OpenStackPorts
CONSTANTS p1, p2, p3, f1, f2, f3, a1

Ports == {p1, p2, p3}
FloatingIPs == {f1, f2, f3}
Gateways == {a1}
=============================================================================
