-------------------------- MODULE MC_RoutingManager --------------------------
(* One EE (handle e1) that may be reported with different listen           *)
(* technologies or not at all; the off-host and Felica routes and the ISO- *)
(* DEP route name it, the default (AID) route is the host.                 *)
EXTENDS RoutingManager

CONSTANTS e1, dh

MC_EEs == {e1}
MC_Topologies == {<<>>, <<[h |-> e1, techs |-> {"A", "B", "F"}]>>,
                  <<[h |-> e1, techs |-> {"F"}]>>}
MC_ServiceCalls == {"initialize", "commitRouting", "addAidRouting",
                    "removeAidRouting", "updateSystemCodeRoute",
                    "setEeTechRouteUpdateRequired", "deinitialize"}
\* initialize followed by commits, with the EE hot-plugged meanwhile
MC_CommitCalls == {"initialize", "commitRouting"}
\* initialize followed by AID registrations
MC_AidCalls == {"initialize", "addAidRouting"}
MC_Routes == {e1, dh}
\* the host-routing toggles, the table clearing and the route updates
MC_HostCalls == {"initialize", "enableRoutingToHost", "disableRoutingToHost",
                 "clearRoutingEntry", "updateIsoDepProtocolRoute",
                 "updateTechnologyABFRoute", "eeSetPwrAndLinkCtrl",
                 "registerT3tIdentifier", "deregisterT3tIdentifier"}
\* a route update followed by a host-routing toggle
MC_AbfCalls == {"initialize", "updateTechnologyABFRoute", "enableRoutingToHost"}
\* initialize followed by an ISO-DEP route update
MC_IsoDepCalls == {"initialize", "updateIsoDepProtocolRoute"}
\* initialize followed by NFC-F T3T identifier registrations
MC_T3tCalls == {"initialize", "registerT3tIdentifier", "deregisterT3tIdentifier"}
=============================================================================
