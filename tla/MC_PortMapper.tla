--------------------------- MODULE MC_PortMapper ---------------------------
(* A small instance of PortMapper: services and L4 ports are symmetric,    *)
(* and so are the L3 ports that carry the tag.                             *)
EXTENDS PortMapper, TLC

MCSymmetry == Permutations(Service) \cup Permutations(L4Port)
                  \cup Permutations(L3Port \ Foreign)
=============================================================================
