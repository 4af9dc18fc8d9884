------------------------- MODULE MC_RoutingTechRoute -------------------------
(* Two EEs besides the host; they are interchangeable.                    *)
EXTENDS RoutingTechRoute, TLC

CONSTANTS e1, e2, dh

MC_EEs == {e1, e2}
\* the defaults (A|F for the host, A|B|F off host) and one other value each
MC_HostListenTechMasks == {{"A", "F"}, {"A", "B", "F"}}
MC_OffHostListenTechMasks == {{"A", "B", "F"}, {"A", "B"}}
MC_Symmetry == Permutations(MC_EEs)
=============================================================================
