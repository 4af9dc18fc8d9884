---------------------------- MODULE MC_NfcManager ----------------------------
(* The service's JNI calls, and the NFA commands that may be refused.     *)
EXTENDS NfcManager

MC_Calls == {"initialize", "deinitialize", "enableDiscovery",
             "disableDiscovery", "commitRouting", "setScreenState",
             "startStopPolling", "setDiscoveryTech", "resetDiscoveryTech"}
\* stack control and the fatal-error path: enabling, discovery with its
\* routing, and disabling
MC_RecoveryCalls == {"initialize", "enableDiscovery", "deinitialize"}
\* every command but the discovery start and the screen-state commands,
\* whose refusal the properties' counterexamples show separately
MC_Refusable == {"STOP", "ENPOLL", "DISPOLL", "ROUTE", "EEUPDATE", "CHTECH",
                 "GETCFG", "REGISTER", "SETMODE", "ENABLE", "DISABLE"}
\* the screen-state commands may be refused
MC_ScreenRefusable == {"PWR", "SETCFG"}
MC_ScreenCalls == {"initialize", "setScreenState"}
\* the discovery start may be refused
MC_StartRefusable == {"START"}
MC_DiscoveryCalls == {"initialize", "enableDiscovery", "disableDiscovery"}
\* a discovery: a tag reported with two protocols (the activation of a
\* lone tag is one step of it)
MC_Rounds == {<<"T2T", "ISO_DEP">>}
\* a peer device reported twice, both times with the NFC-DEP protocol
MC_P2PRounds == {<<"NFC_DEP", "NFC_DEP">>}
=============================================================================
