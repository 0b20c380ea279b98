--------------------------- MODULE MC_Controller ---------------------------
(* Small instances of Controller.  The port sets users may give:           *)
(*   Rivals   s1 wants n1; s2 wants n2, or n1 and n2: they may share an    *)
(*            L3 port, or not;                                             *)
(*   SamePort every service wants n1.                                      *)
EXTENDS Controller
CONSTANTS s1, s2, n1, n2

Rivals == [s \in Service |-> IF s = s1 THEN {{n1}} ELSE {{n2}, {n1, n2}}]
SamePort == [s \in Service |-> {{n1}}]
=============================================================================
