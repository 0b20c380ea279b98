------------------------------ MODULE MC_Agent ------------------------------
(* Small instances of Agent with both managers, and with configurations    *)
(* that every service can run, or with one that keepalived cannot run and  *)
(* one that nftables cannot run.                                           *)
EXTENDS Agent
CONSTANTS c1, c2, c3

Both == <<"keepalived", "nftables">>
NoneBad == [m \in Manager |-> {}]
SomeBad == [m \in Manager |-> IF m = "keepalived" THEN {c2} ELSE {c3}]
=============================================================================
